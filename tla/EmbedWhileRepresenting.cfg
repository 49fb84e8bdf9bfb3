\* Two instances, nothing fails, no force: embed races represent.
CONSTANTS
  Instances = {i1, i2}
  Units = {u1}
  ForceValues = {FALSE}
  PartialFailures = FALSE
  MaxRepresentations = 2
  MaxRuns = 2
  MaxFaults = 0
SPECIFICATION Spec
INVARIANTS
  FreshEmbeddingsAreCurrent
\* Clients may stop calling, and the bounds on representations and runs end.
CHECK_DEADLOCK FALSE
