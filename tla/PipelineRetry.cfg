\* One backend process, a client that retries; two handlers die half-way.
CONSTANTS
  Instances = {i1}
  Units = {u1, u2}
  ForceValues = {FALSE}
  PartialFailures = FALSE
  MaxRepresentations = 3
  MaxRuns = 3
  MaxFaults = 2
SPECIFICATION RetrySpec
PROPERTIES
  RetriesHeal
\* Clients may stop calling, and the bounds on representations and runs end.
CHECK_DEADLOCK FALSE
