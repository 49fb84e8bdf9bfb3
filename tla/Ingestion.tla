------------------------------ MODULE Ingestion ------------------------------
(***************************************************************************)
(* The backend's side of the workspace: POST /documents, which writes      *)
(* three files in turn, and the five stages.  The stages are modelled in   *)
(* DocumentPipeline; here only which of them completed matters.            *)
(***************************************************************************)
EXTENDS WorkspaceState

\* The files when writing the kth of them failed or the process died in it:
\* those before it are whole, it is missing or truncated.
\* Mutant: the status is written first.
WrittenUpTo_StatusFirst(k, left) ==
  [ status   |-> IF k > 1 THEN "uploaded" ELSE left,
    pdf      |-> IF k > 2 THEN "whole" ELSE IF k = 2 THEN left ELSE "none",
    metadata |-> IF k = 3 THEN left ELSE "none" ]

WrittenUpTo(k, left) ==
  [ pdf      |-> IF k > 1 THEN "whole" ELSE left,
    metadata |-> IF k > 2 THEN "whole" ELSE IF k = 2 THEN left ELSE "none",
    status   |-> IF k = 3 THEN left ELSE "none" ]

Reply(d, reply) == call' = [call EXCEPT ![d].reply = reply]

\* An upload that validate_upload rejects writes nothing.  Otherwise its files
\* are written; after a storage error the status is set to failed, unless that
\* fails as well or the process has died.
Ingest(d) ==
  /\ call[d] = [stage |-> 0, reply |-> "waiting"]
  /\ \/ /\ raw' = [raw EXCEPT ![d] = AllFiles]
        /\ Reply(d, "ok") \/ Reply(d, "error")
     \/ Reply(d, "error") /\ UNCHANGED raw
     \/ \E k \in 1..3, left \in {"none", "torn"} :
          /\ \/ raw' = [raw EXCEPT ![d] = WrittenUpTo(k, left)]
             \/ raw' = [raw EXCEPT ![d] = [WrittenUpTo(k, left) EXCEPT !.status = "failed"]]
          /\ Reply(d, "error")
  /\ UNCHANGED <<done, client>>

\* A stage succeeds only on what the one before it left; parsing reads the two
\* files of the upload.  It may fail for any reason, and its answer may be lost.
StageReady(d, i) ==
  IF i = 1 THEN raw[d].pdf = "whole" /\ raw[d].metadata = "whole" ELSE done[d] >= i - 1

RunStage(d) ==
  /\ call[d].stage > 0 /\ call[d].reply = "waiting"
  /\ \/ /\ StageReady(d, call[d].stage)
        /\ done' = [done EXCEPT ![d] = call[d].stage]
        /\ Reply(d, "ok") \/ Reply(d, "error")
     \/ Reply(d, "error") /\ UNCHANGED done
  /\ UNCHANGED <<raw, client>>

=============================================================================
