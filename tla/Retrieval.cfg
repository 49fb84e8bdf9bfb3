\* Up to five chunks, every set of indexed chunks, every limit reached in turn.
CONSTANTS
  c1 = c1
  c2 = c2
  c3 = c3
  c4 = c4
  c5 = c5
  s1 = s1
  s2 = s2
  Chunks = {c1, c2, c3, c4, c5}
  Sections = {s1, s2}
  Document = document
  None = None
  Cases <- AllCases
  RrfScale = 100000000
  MaxOverlap = 1
SPECIFICATION Spec
INVARIANTS
  TypeOK
  PathsAreTraversals
  WithinLimits
  UncutSearchIsComplete
  StrongerFirst
  CandidatesAreAccountedFor
\* A call ends, with a bundle or an exception.
CHECK_DEADLOCK FALSE
