\* One backend process: three representations, three embedding runs, failing
\* batches, two handlers that die half-way.
CONSTANTS
  Instances = {i1}
  Units = {u1, u2}
  ForceValues = {TRUE, FALSE}
  PartialFailures = TRUE
  MaxRepresentations = 3
  MaxRuns = 3
  MaxFaults = 2
SPECIFICATION Spec
INVARIANTS
  TypeOK
  GraphNeverDangles
  FreshGraphIsCurrent
  FreshEmbeddingsAreCurrent
  FreshIndexServesItsArtifacts
  
  Invariant
PROPERTIES
  EmbeddingsAreDerived
  GraphIsDerived
\* Clients may stop calling, and the bounds on representations and runs end.
CHECK_DEADLOCK FALSE
