--------------------------- MODULE DerivedArtifact ---------------------------
(***************************************************************************)
(* What a stage with a freshness check promises, whatever the stage does:  *)
(* an artifact derived from a source and, beside it, a claim that says     *)
(* which version of the source it was derived from.  The stage is skipped  *)
(* while the claim names the current source, so the claim may be wrong     *)
(* about an old source but never about the current one.                    *)
(***************************************************************************)
CONSTANT Unreadable    \* no version: missing or truncated

VARIABLES
  source,    \* version of the source as it is now
  derived,   \* version the artifact was derived from
  claim      \* version the artifact's manifest says it was derived from

vars == <<source, derived, claim>>

Init == source = Unreadable /\ derived = Unreadable /\ claim = Unreadable

\* The source changes, never back to a version the claim is about.
ChangeSource ==
  /\ source' # claim \/ source' = Unreadable
  /\ UNCHANGED <<derived, claim>>

\* The artifact is derived anew, or lost.
Derive ==
  /\ derived' \in {source, Unreadable}
  /\ UNCHANGED <<source, claim>>

\* The artifact's version is recorded, or the record is lost.
Certify ==
  /\ claim' \in {derived, Unreadable}
  /\ UNCHANGED <<source, derived>>

Next == ChangeSource \/ Derive \/ Certify

Spec == Init /\ [][Next]_vars

\* A claim that names the current source is true of the artifact, if it can be read.
ClaimIsTrue == claim = source /\ claim # Unreadable => derived \in {source, Unreadable}

=============================================================================
