------------------------------- MODULE Workspace -------------------------------
(***************************************************************************)
(* The tabs of a browser and the backend together: uploads, preparation,   *)
(* questions, removal, navigation and reloads.                             *)
(***************************************************************************)
EXTENDS Ingestion, UploadFlow, Conversation

Navigate(t) ==
  /\ \E p \in Docs \cup {None} : p # shown[t] /\ Show(t, p)
  /\ UNCHANGED <<backend, flow, pdf, library, turns, stored, asked, reloads>>

Lost(t, m) == IF m.tab = t /\ m.at \notin {"ended", "settled", "unsaved"} THEN [m EXCEPT !.at = "lost"] ELSE m

\* The page is loaded again: its mutations are gone, both stores are as they
\* were last written by any tab, and the page is the same.
Reload(t) ==
  /\ reloads < MaxReloads /\ reloads' = reloads + 1
  /\ flow' = [d \in Docs |-> Lost(t, flow[d])]
  /\ asked' = [q \in Questions |-> Lost(t, asked[q])]
  /\ library' = [library EXCEPT ![t] = stored.library]
  /\ turns' = [turns EXCEPT ![t] = stored.turns]
  /\ pending' = [pending EXCEPT ![t] = None]
  /\ UNCHANGED <<backend, pdf, stored, shown>>

UploadStep(t, d) ==
  \/ Uploaded(t, d) \/ UploadFails(t, d) \/ SaveBlob(t, d) \/ SaveFails(t, d)
  \/ StageCompleted(t, d) \/ Prepared(t, d) \/ StageFails(t, d)

Next ==
  \/ \E d \in Docs : Ingest(d) \/ RunStage(d)
  \/ \E t \in Tabs, d \in Docs : StartUpload(t, d) \/ UploadStep(t, d) \/ Remove(t, d)
  \/ \E t \in Tabs, d \in Docs, q \in Questions : Ask(t, d, q)
  \/ \E t \in Tabs, q \in Questions : Settle(t, q)
  \/ \E t \in Tabs, d \in Docs : Clear(t, d)
  \/ \E t \in Tabs : Navigate(t) \/ Reload(t)

\* A request ends with its timeout at the latest, a transaction of IndexedDB
\* with completion or an error; users and the backend need not do anything.
Fairness ==
  /\ \A t \in Tabs, d \in Docs : WF_vars(UploadStep(t, d))
  /\ \A t \in Tabs, q \in Questions : WF_vars(Settle(t, q))

Spec == Init /\ [][Next]_vars /\ Fairness
-----------------------------------------------------------------------------
(* Properties.                                                             *)

Entries == {None, "preparing", "ready", "failed"}

TypeOK ==
  /\ raw \in [Docs -> [pdf: {"none", "torn", "whole"}, metadata: {"none", "torn", "whole"},
                       status: {"none", "torn", "failed", "uploaded"}]]
  /\ done \in [Docs -> 0..Len(Stages)]
  /\ call \in [Docs -> [stage: 0..Len(Stages), reply: {None, "waiting", "ok", "error"}]]
  /\ flow \in [Docs -> [tab: Tabs \cup {None},
                        at: {"idle", "uploading", "saving", "preparing", "ended", "unsaved", "lost"}]]
  /\ pdf \subseteq Docs /\ library \in [Tabs -> [Docs -> Entries]]
  /\ turns \in [Tabs -> [Docs -> Seq(Turn)]]
  /\ stored \in [library: [Docs -> Entries], turns: [Docs -> Seq(Turn)]]
  /\ asked \in [Questions -> [tab: Tabs \cup {None}, doc: Docs \cup {None},
                              at: {"idle", "waiting", "settled", "lost"}]]
  /\ shown \in [Tabs -> Docs \cup {None}] /\ pending \in [Tabs -> Docs \cup Questions \cup {None}]
  /\ reloads \in 0..MaxReloads

\* A status file that says uploaded has the bytes and the metadata beside it,
\* wherever the upload failed or the process died; and only such a document
\* gets into a library or is ever prepared.
UploadsAreComplete ==
  \A d \in Docs :
    raw[d].status = "uploaded" \/ done[d] > 0 \/ (\E t \in Tabs : Entered(t, d)) =>
      raw[d] = AllFiles

\* A document is ready, in any tab or in local storage, only if the backend has
\* completed every stage for it and the viewer has its bytes, whatever timed
\* out, was answered late, reloaded or overwritten.
ReadyIsPrepared ==
  \A d \in Docs :
    stored.library[d] = "ready" \/ (\E t \in Tabs : library[t][d] = "ready") =>
      done[d] = Len(Stages) /\ d \in pdf

\* A document that was removed in a tab does not come back, whatever stage of its
\* preparation is answered later; only a reload brings back what another tab
\* stored.
RemovedStaysRemoved ==
  [][\A t \in Tabs, d \in Docs :
       ~Entered(t, d) /\ library'[t][d] # None => Reload(t) \/ Uploaded(t, d)]_vars

\* A turn that is settled keeps its place and its outcome until the conversation
\* is cleared or the tab reloaded, and a turn is settled by the mutation that
\* asked it.
SettledTurnsStay ==
  [][\A t \in Tabs, d \in Docs : \A k \in DOMAIN turns[t][d] :
       \/ Reload(t) \/ Clear(t, d)
       \/ k \in DOMAIN turns'[t][d] /\ turns'[t][d][k] = turns[t][d][k]
       \/ turns[t][d][k].status = "pending" /\ Settle(t, turns[t][d][k].id)]_vars

\* An entry whose preparation is under way does not stay like that for ever,
\* unless the mutation is gone with a reload or the bytes could not be saved.
PreparationEnds ==
  \A t \in Tabs, d \in Docs :
    library[t][d] = "preparing" /\ flow[d].tab = t /\ flow[d].at \in {"saving", "preparing"}
      ~> library[t][d] # "preparing" \/ flow[d].at \in {"lost", "unsaved"}

\* No question stays open for ever in the tab that asks it, unless its mutation
\* is gone with a reload.
QuestionsEnd ==
  \A t \in Tabs, q \in Questions :
    asked[q].tab = t /\ asked[q].at = "waiting"
      ~> \/ asked[q].at = "lost"
         \/ \A d \in Docs : ~\E k \in DOMAIN turns[t][d] : turns[t][d][k] = [id |-> q, status |-> "pending"]

Asked(conversation) == {conversation[k].id : k \in DOMAIN conversation}

\* The library store is "the sole source of truth" for what was uploaded,
\* "persisted so it survives a reload", and a refresh "restores the full
\* conversation from `localStorage`" (docs/ARCHITECTURE.md): a document leaves local
\* storage only by being removed, a turn only when its conversation is cleared.
PersistedStays ==
  [][\A d \in Docs :
       /\ stored.library[d] # None /\ stored'.library[d] = None => \E t \in Tabs : Remove(t, d)
       /\ Asked(stored.turns[d]) \subseteq Asked(stored'.turns[d]) \/ \E t \in Tabs : Clear(t, d)]_vars

=============================================================================
