------------------------------ MODULE MCPipeline ------------------------------
(* The onboarding pipeline on small instances.                             *)
EXTENDS PipelineInvariant, TLC

\* Instances are interchangeable, and so are the units of a representation.
Interchangeable == Permutations(Instances) \cup Permutations(Units)

=============================================================================
