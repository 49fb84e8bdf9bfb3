\* One backend process, nothing fails, no force: represent is called twice.
CONSTANTS
  Instances = {i1}
  Units = {u1}
  ForceValues = {FALSE}
  PartialFailures = FALSE
  MaxRepresentations = 2
  MaxRuns = 2
  MaxFaults = 0
SPECIFICATION Spec
INVARIANTS
  IndexingVerifies
\* Clients may stop calling, and the bounds on representations and runs end.
CHECK_DEADLOCK FALSE
