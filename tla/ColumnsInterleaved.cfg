\* Pages with two columns.
CONSTANTS
  MaxWords = 4
  MinWords = 2
  Documents <- Columns
SPECIFICATION Spec
INVARIANT ReadingOrderIsVisual
CHECK_DEADLOCK FALSE
