------------------------------ MODULE MCWorkspace ------------------------------
(* Workspace for TLC: names for the elements of its sets.                  *)
EXTENDS Workspace

CONSTANTS t1, t2, d1, d2, q1, q2

=============================================================================
