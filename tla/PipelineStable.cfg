\* Two instances race the embed, index and graph stages of one representation; one handler dies half-way.
CONSTANTS
  Instances = {i1, i2}
  Units = {u1, u2}
  ForceValues = {TRUE, FALSE}
  PartialFailures = FALSE
  MaxRepresentations = 1
  MaxRuns = 3
  MaxFaults = 1
SPECIFICATION Spec
SYMMETRY Interchangeable
INVARIANTS
  
  IndexingVerifies
\* Clients may stop calling, and the bounds on representations and runs end.
CHECK_DEADLOCK FALSE
