---------------------------- MODULE RepresentStage ----------------------------
(***************************************************************************)
(* POST /documents/{id}/represent: KnowledgeRepresentationService.  It has *)
(* no freshness check: every call builds a representation whose chunks     *)
(* have new ids, and overwrites the two files one after the other.         *)
(***************************************************************************)
EXTENDS PipelineState

\* The parsed paper is read, the representation built and validated.
RepresentStart(i) ==
  /\ At(i, "idle")
  /\ represented < MaxRepresentations
  /\ represented' = represented + 1
  /\ Continue(i, [Idle EXCEPT !.at = "represent.units", !.rep = represented + 1])
  /\ UNCHANGED <<files, stores, runs, faults>>

WriteUnits(i) ==
  /\ At(i, "represent.units")
  /\ units' = job[i].rep
  /\ Continue(i, [job[i] EXCEPT !.at = "represent.relationships"])
  /\ UNCHANGED <<relationships, embeddings, embedManifest, indexManifest, graphManifest,
                 stores, counts>>

WriteRelationships(i) ==
  /\ At(i, "represent.relationships")
  /\ relationships' = job[i].rep
  /\ Return(i)
  /\ UNCHANGED <<units, embeddings, embedManifest, indexManifest, graphManifest,
                 stores, counts>>

Represent(i) == RepresentStart(i) \/ WriteUnits(i) \/ WriteRelationships(i)

=============================================================================
