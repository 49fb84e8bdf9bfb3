\* Two instances, two benchmarks of one or two cases, any of them ending anywhere.
CONSTANTS
  KValues = {1, 3}
  Gains <- SmallGains
  Instances = {i1, i2}
  Datasets <- SmallDatasets
  Answers <- SmallAnswers
  MaxRuns = 2
  Absent = Absent
  Torn = Torn
SPECIFICATION Spec
INVARIANTS
  LatestIsComplete
  ReportsAreFair
\* A benchmark ends, and no more of them than MaxRuns begin.
CHECK_DEADLOCK FALSE
