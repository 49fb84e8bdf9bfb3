------------------------------ MODULE UploadFlow ------------------------------
(***************************************************************************)
(* useUploadDocument with prepareDocument and the document library store.  *)
(* A mutation goes on when the page that started it is left, so that one   *)
(* tab may have several under way.                                         *)
(***************************************************************************)
EXTENDS WorkspaceState

Running(d, t, phase) == flow[d] = [tab |-> t, at |-> phase]
GoOn(d, phase)       == flow' = [flow EXCEPT ![d].at = phase]
Send(d, i)           == call' = [call EXCEPT ![d] = [stage |-> i, reply |-> "waiting"]]

\* The store's setters change only an entry that is still there, and persist in
\* any case.  The stage kept for progress reports is left out of the entry.
\* Mutant: setStatus without its guard.
SetStatus_Unguarded(t, d, status) == SetLibrary(t, [library[t] EXCEPT ![d] = status])

SetStatus(t, d, status) ==
  SetLibrary(t, IF Entered(t, d) THEN [library[t] EXCEPT ![d] = status] ELSE library[t])

SetPipelineStage(t) == SetLibrary(t, library[t])

\* The dropzone of the landing page accepts no file while its mutation is pending.
StartUpload(t, d) ==
  /\ flow[d].at = "idle" /\ shown[t] = None /\ pending[t] = None
  /\ flow' = [flow EXCEPT ![d] = [tab |-> t, at |-> "uploading"]]
  /\ Send(d, 0) /\ pending' = [pending EXCEPT ![t] = d]
  /\ UNCHANGED <<raw, done, pdf, library, turns, stored, asked, shown, reloads>>

Uploaded(t, d) ==
  /\ Running(d, t, "uploading") /\ call[d].reply = "ok"
  /\ SetLibrary(t, [library[t] EXCEPT ![d] = "preparing"])
  /\ GoOn(d, "saving")
  /\ UNCHANGED <<backend, pdf, turns, asked, shown, pending, reloads>>

\* The request fails, or takes longer than preparationTimeoutMs.
UploadFails(t, d) ==
  /\ Running(d, t, "uploading")
  /\ GoOn(d, "ended") /\ Over(t, d)
  /\ UNCHANGED <<backend, pdf, library, turns, stored, asked, shown, reloads>>

\* savePdfBlob, outside of the try block: then the first stage.
SaveBlob(t, d) ==
  /\ Running(d, t, "saving")
  /\ pdf' = pdf \cup {d}
  /\ GoOn(d, "preparing") /\ Send(d, 1) /\ SetPipelineStage(t)
  /\ UNCHANGED <<raw, done, turns, asked, shown, pending, reloads>>

SaveFails(t, d) ==
  /\ Running(d, t, "saving")
  /\ GoOn(d, "unsaved") /\ Over(t, d)
  /\ UNCHANGED <<backend, pdf, library, turns, stored, asked, shown, reloads>>

\* Mutant: no stage is the last one.
IsLast_Never(i) == i > Len(Stages)

\* Mutant: the stage before the last one ends the sequence.
IsLast_TooEarly(i) == i = Len(Stages) - 1

IsLast(i) == i = Len(Stages)

StageCompleted(t, d) ==
  /\ Running(d, t, "preparing") /\ call[d].reply = "ok" /\ ~IsLast(call[d].stage)
  /\ Send(d, call[d].stage + 1) /\ SetPipelineStage(t)
  /\ UNCHANGED <<raw, done, flow, pdf, turns, asked, shown, pending, reloads>>

\* The document is ready; onSuccess opens it, whatever the tab shows.
Prepared(t, d) ==
  /\ Running(d, t, "preparing") /\ call[d].reply = "ok" /\ IsLast(call[d].stage)
  /\ SetStatus(t, d, "ready")
  /\ GoOn(d, "ended") /\ Show(t, d)
  /\ UNCHANGED <<backend, pdf, turns, asked, reloads>>

\* Mutant: the status is not set.
StageFails_Silently(t, d) ==
  /\ Running(d, t, "preparing")
  /\ GoOn(d, "ended") /\ Over(t, d)
  /\ UNCHANGED <<backend, pdf, library, turns, stored, asked, shown, reloads>>

\* The request fails, or takes longer than preparationTimeoutMs; the backend
\* may be at it for longer.
StageFails(t, d) ==
  /\ Running(d, t, "preparing")
  /\ SetStatus(t, d, "failed")
  /\ GoOn(d, "ended") /\ Over(t, d)
  /\ UNCHANGED <<backend, pdf, turns, asked, shown, reloads>>

\* removeDocument, from the list in the sidebar.
Remove(t, d) ==
  /\ Entered(t, d)
  /\ SetLibrary(t, [library[t] EXCEPT ![d] = None])
  /\ pending' = [pending EXCEPT ![t] = IF shown[t] = d THEN None ELSE @]
  /\ UNCHANGED <<backend, flow, pdf, turns, asked, shown, reloads>>

=============================================================================
