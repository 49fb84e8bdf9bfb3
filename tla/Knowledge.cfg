\* Parsing and representing small documents of every shape.
CONSTANTS
  MaxWords = 4
  MinWords = 2
  Documents <- AllDocuments
SPECIFICATION Spec
INVARIANTS
  TypeOK
  SectionsAreNested
  NoTextIsLost
  
  MentionsAreLinked
  SingleColumnsKeepTheirOrder
  ValidatorsAccept
\* A call ends with a representation or an exception.
CHECK_DEADLOCK FALSE
