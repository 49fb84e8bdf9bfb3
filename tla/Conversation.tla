----------------------------- MODULE Conversation -----------------------------
(***************************************************************************)
(* useAskQuestion, the conversation store and the panel that shows it.     *)
(***************************************************************************)
EXTENDS WorkspaceState

Turn == [id: Questions, status: {"pending", "complete", "failed"}]

\* The question box accepts nothing while the mutation of its panel is pending.
Ask(t, d, q) ==
  /\ Mounted(t, d) /\ pending[t] = None /\ asked[q].at = "idle"
  /\ SetTurns(t, [turns[t] EXCEPT ![d] = Append(@, [id |-> q, status |-> "pending"])])
  /\ asked' = [asked EXCEPT ![q] = [tab |-> t, doc |-> d, at |-> "waiting"]]
  /\ pending' = [pending EXCEPT ![t] = q]
  /\ UNCHANGED <<backend, flow, pdf, library, shown, reloads>>

\* completeTurn and failTurn: the turn with the id, if it is still there.
\* Mutant: the latest turn of the document.
SettleTurn_Latest(conversation, q, status) ==
  [k \in DOMAIN conversation |->
     IF k = Len(conversation) THEN [conversation[k] EXCEPT !.status = status] ELSE conversation[k]]

SettleTurn(conversation, q, status) ==
  [k \in DOMAIN conversation |->
     IF conversation[k].id = q THEN [conversation[k] EXCEPT !.status = status] ELSE conversation[k]]

\* An answer arrives, or an error, or generationTimeoutMs have passed.
Settle(t, q) ==
  /\ asked[q].at = "waiting" /\ asked[q].tab = t
  /\ \E status \in {"complete", "failed"} :
       SetTurns(t, [turns[t] EXCEPT ![asked[q].doc] = SettleTurn(@, q, status)])
  /\ asked' = [asked EXCEPT ![q].at = "settled"]
  /\ Over(t, q)
  /\ UNCHANGED <<backend, flow, pdf, library, shown, reloads>>

Clear(t, d) ==
  /\ Mounted(t, d) /\ turns[t][d] # <<>>
  /\ SetTurns(t, [turns[t] EXCEPT ![d] = <<>>])
  /\ UNCHANGED <<backend, flow, pdf, library, asked, shown, pending, reloads>>

=============================================================================
