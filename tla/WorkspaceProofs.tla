---------------------------- MODULE WorkspaceProofs ----------------------------
(***************************************************************************)
(* Proofs about Workspace for any number of tabs, documents, questions and *)
(* reloads: types, what is relied on is there, and what late answers leave *)
(* alone.                                                                  *)
(***************************************************************************)
EXTENDS Workspace, TLAPS, SequenceTheorems

-----------------------------------------------------------------------------
(* Types.                                                                  *)

Files    == [pdf: {"none", "torn", "whole"}, metadata: {"none", "torn", "whole"},
             status: {"none", "torn", "failed", "uploaded"}]
Replies  == {None, "waiting", "ok", "error"}
Call     == [stage: 0..Len(Stages), reply: Replies]
Flow     == [tab: Tabs \cup {None},
             at: {"idle", "uploading", "saving", "preparing", "ended", "unsaved", "lost"}]
Question == [tab: Tabs \cup {None}, doc: Docs \cup {None},
             at: {"idle", "waiting", "settled", "lost"}]
Turns    == [Docs -> Seq(Turn)]
Library  == [Docs -> Entries]

BackendTypes == raw \in [Docs -> Files] /\ done \in [Docs -> 0..Len(Stages)] /\ call \in [Docs -> Call]
UploadTypes  == /\ flow \in [Docs -> Flow] /\ pdf \subseteq Docs /\ library \in [Tabs -> Library]
                /\ stored.library \in Library
TurnTypes    == turns \in [Tabs -> Turns] /\ stored.turns \in Turns /\ asked \in [Questions -> Question]
ViewTypes    == /\ shown \in [Tabs -> Docs \cup {None}]
                /\ pending \in [Tabs -> Docs \cup Questions \cup {None}]
                /\ reloads \in 0..MaxReloads
StoredTypes  == stored = [library |-> stored.library, turns |-> stored.turns]

Types == BackendTypes /\ UploadTypes /\ TurnTypes /\ ViewTypes /\ StoredTypes

\* The types are those of TypeOK, by part.
LEMMA TypesByPart == TypeOK <=> Types
<1>1. stored \in [library: Library, turns: Turns] <=>
        stored.library \in Library /\ stored.turns \in Turns /\ StoredTypes
  BY DEF StoredTypes
<1>. QED
  BY <1>1, Zenon DEF TypeOK, Types, BackendTypes, UploadTypes, TurnTypes, ViewTypes, Files, Replies,
     Call, Flow, Question, Turns, Library

\* There are five stages.
LEMMA FiveStages == Len(Stages) = 5
  BY DEF Stages

\* A conversation with a turn added, settled or without turns is one.
LEMMA ConversationsStay ==
  ASSUME NEW conversation \in Seq(Turn), NEW q \in Questions
  PROVE  /\ Append(conversation, [id |-> q, status |-> "pending"]) \in Seq(Turn)
         /\ \A status \in {"complete", "failed"} : SettleTurn(conversation, q, status) \in Seq(Turn)
         /\ <<>> \in Seq(Turn)
<1>1. [id |-> q, status |-> "pending"] \in Turn
  BY DEF Turn
<1>2. ASSUME NEW status \in {"complete", "failed"}
      PROVE  SettleTurn(conversation, q, status) \in Seq(Turn)
  <2>1. Len(conversation) \in Nat /\ DOMAIN conversation = 1..Len(conversation)
    BY LenProperties
  <2>2. \A k \in 1..Len(conversation) : conversation[k] \in Turn
    BY ElementOfSeq
  <2>3. \A turn \in Turn : [turn EXCEPT !.status = status] \in Turn
    BY DEF Turn
  <2>4. SettleTurn(conversation, q, status) \in [1..Len(conversation) -> Turn]
    BY <2>1, <2>2, <2>3 DEF SettleTurn
  <2>. QED
    BY <2>1, <2>4, SeqDef
<1>. QED
  BY <1>1, <1>2, AppendProperties, EmptySeq

\* The backend's files and requests keep their types.
LEMMA BackendKeepsTypes ==
  ASSUME Types, [Next]_vars
  PROVE  BackendTypes'
<1>. USE DEF Types, BackendTypes
<1>0. /\ "waiting" \in Replies /\ "ok" \in Replies /\ "error" \in Replies
      /\ 0 \in 0..Len(Stages) /\ 1 \in 0..Len(Stages)
  BY FiveStages DEF Replies
<1>1. ASSUME NEW d \in Docs, NEW reply \in Replies, Reply(d, reply)
      PROVE  call' \in [Docs -> Call]
  BY <1>1 DEF Reply, Call
<1>2. ASSUME NEW d \in Docs, NEW i \in 0..Len(Stages), Send(d, i)
      PROVE  call' \in [Docs -> Call]
  BY <1>0, <1>2 DEF Send, Call
<1>3. AllFiles \in Files
  BY DEF AllFiles, Files
<1>4. \A k \in 1..3, left \in {"none", "torn"} :
        /\ WrittenUpTo(k, left) \in Files
        /\ [WrittenUpTo(k, left) EXCEPT !.status = "failed"] \in Files
  BY DEF WrittenUpTo, Files
<1>5. ASSUME NEW d \in Docs, Ingest(d)
      PROVE  BackendTypes'
  <2>1. done' = done /\ (Reply(d, "ok") \/ Reply(d, "error"))
    BY <1>5 DEF Ingest
  <2>2. raw' = raw \/ \E f \in Files : raw' = [raw EXCEPT ![d] = f]
    BY <1>3, <1>4, <1>5 DEF Ingest
  <2>3. raw' \in [Docs -> Files]
    BY <2>2
  <2>. QED
    BY <1>0, <1>1, <2>1, <2>3
<1>6. ASSUME NEW d \in Docs, RunStage(d)
      PROVE  BackendTypes'
  <2>1. raw' = raw /\ (Reply(d, "ok") \/ Reply(d, "error"))
    BY <1>6 DEF RunStage
  <2>2. done' = done \/ done' = [done EXCEPT ![d] = call[d].stage]
    BY <1>6 DEF RunStage
  <2>3. done' \in [Docs -> 0..Len(Stages)]
    BY <2>2 DEF Call
  <2>. QED
    BY <1>0, <1>1, <2>1, <2>3
<1>7. ASSUME NEW t \in Tabs, NEW d \in Docs, StartUpload(t, d) \/ SaveBlob(t, d) \/ StageCompleted(t, d)
      PROVE  BackendTypes'
  <2>1. raw' = raw /\ done' = done
    BY <1>7 DEF StartUpload, SaveBlob, StageCompleted
  <2>2. \E i \in 0..Len(Stages) : Send(d, i)
    <3>1. call[d].stage \in 0..Len(Stages)
      BY DEF Call
    <3>2. call[d].stage # 5 => call[d].stage + 1 \in 0..Len(Stages)
      BY <3>1, FiveStages
    <3>. QED
      BY <1>0, <1>7, <3>2, FiveStages DEF StartUpload, SaveBlob, StageCompleted, IsLast
  <2>. QED
    BY <1>2, <2>1, <2>2
<1>8. ASSUME backend' = backend
      PROVE  BackendTypes'
  BY <1>8 DEF backend
<1>9. ASSUME NEW t \in Tabs, NEW d \in Docs, UploadStep(t, d)
      PROVE  BackendTypes'
  BY <1>7, <1>8, <1>9 DEF UploadStep, Uploaded, UploadFails, SaveFails, Prepared, StageFails
<1>10. ASSUME NEW t \in Tabs, NEW d \in Docs, NEW q \in Questions, Ask(t, d, q)
       PROVE  BackendTypes'
  BY <1>8, <1>10 DEF Ask
<1>11. ASSUME NEW t \in Tabs, Navigate(t) \/ Reload(t) \/ \E q \in Questions : Settle(t, q)
       PROVE  BackendTypes'
  BY <1>8, <1>11 DEF Navigate, Reload, Settle
<1>12. CASE UNCHANGED vars
  BY <1>8, <1>12 DEF vars
<1>. HIDE DEF Types, BackendTypes
<1>13. ASSUME NEW t \in Tabs, NEW d \in Docs, Remove(t, d) \/ Clear(t, d)
       PROVE  BackendTypes'
  BY <1>8, <1>13 DEF Remove, Clear
<1>. QED
  BY <1>5, <1>6, <1>7, <1>9, <1>10, <1>11, <1>12, <1>13 DEF Next

\* A library that is written keeps its type, in the tab and in local storage.
LEMMA LibraryKeepsTypes ==
  ASSUME Types, NEW t \in Tabs, NEW entries \in Library, SetLibrary(t, entries)
  PROVE  /\ library' \in [Tabs -> Library] /\ stored'.library \in Library
         /\ stored'.turns = stored.turns /\ StoredTypes'
  BY DEF SetLibrary, Types, UploadTypes, StoredTypes

\* So do conversations.
LEMMA TurnsKeepTypes ==
  ASSUME Types, NEW t \in Tabs, NEW conversations \in Turns, SetTurns(t, conversations)
  PROVE  /\ turns' \in [Tabs -> Turns] /\ stored'.turns \in Turns
         /\ stored'.library = stored.library /\ StoredTypes'
  BY DEF SetTurns, Types, TurnTypes, StoredTypes

\* What a tab does to its library.
LEMMA EntriesKeepTypes ==
  ASSUME Types, NEW t \in Tabs, NEW d \in Docs
  PROVE  /\ library[t] \in Library
         /\ \A status \in Entries : [library[t] EXCEPT ![d] = status] \in Library
         /\ {None, "preparing", "ready", "failed"} \subseteq Entries
  BY DEF Types, UploadTypes, Library, Entries

\* A step of an upload, and removal, keep the types of the client.
LEMMA UploadKeepsTypes ==
  ASSUME Types, NEW t \in Tabs, NEW d \in Docs,
         StartUpload(t, d) \/ UploadStep(t, d) \/ Remove(t, d)
  PROVE  UploadTypes' /\ TurnTypes' /\ ViewTypes' /\ StoredTypes'
<1>1. /\ turns' = turns /\ asked' = asked /\ reloads' = reloads
      /\ flow' \in [Docs -> Flow] /\ pdf' \subseteq Docs
  <2>1. flow' = flow \/ flow' = [flow EXCEPT ![d] = [tab |-> t, at |-> "uploading"]]
        \/ \E phase \in {"saving", "preparing", "ended", "unsaved"} : GoOn(d, phase)
    BY DEF StartUpload, UploadStep, Uploaded, UploadFails, SaveBlob, SaveFails, StageCompleted, Prepared,
       StageFails, Remove
  <2>2. flow' \in [Docs -> Flow]
    BY <2>1 DEF GoOn, Types, UploadTypes, Flow
  <2>3. pdf' = pdf \/ pdf' = pdf \cup {d}
    BY DEF StartUpload, UploadStep, Uploaded, UploadFails, SaveBlob, SaveFails, StageCompleted, Prepared,
       StageFails, Remove
  <2>4. turns' = turns /\ asked' = asked /\ reloads' = reloads
    BY DEF StartUpload, UploadStep, Uploaded, UploadFails, SaveBlob, SaveFails, StageCompleted, Prepared,
       StageFails, Remove
  <2>. QED
    BY <2>2, <2>3, <2>4 DEF Types, UploadTypes
<1>2. /\ library' \in [Tabs -> Library] /\ stored'.library \in Library
      /\ stored'.turns = stored.turns /\ StoredTypes'
  <2>1. \/ library' = library /\ stored' = stored
        \/ \E entries \in Library : SetLibrary(t, entries)
    <3>1. library[t] \in Library /\ \A status \in {None, "preparing", "ready", "failed"} :
            [library[t] EXCEPT ![d] = status] \in Library
      BY EntriesKeepTypes
    <3>. QED
      BY <3>1 DEF StartUpload, UploadStep, Uploaded, UploadFails, SaveBlob, SaveFails, StageCompleted,
         Prepared, StageFails, Remove, SetStatus, SetPipelineStage
  <2>2. CASE library' = library /\ stored' = stored
    BY <2>2 DEF Types, UploadTypes, StoredTypes
  <2>. QED
    BY <2>1, <2>2, LibraryKeepsTypes
<1>3. ViewTypes'
  <2>1. shown' = shown \/ shown' = [shown EXCEPT ![t] = d]
    BY DEF StartUpload, UploadStep, Uploaded, UploadFails, SaveBlob, SaveFails, StageCompleted, Prepared,
       StageFails, Remove, Show
  <2>2. \E x \in {d, None, pending[t]} : pending' = pending \/ pending' = [pending EXCEPT ![t] = x]
    BY DEF StartUpload, UploadStep, Uploaded, UploadFails, SaveBlob, SaveFails, StageCompleted, Prepared,
       StageFails, Remove, Show, Over
  <2>. QED
    BY <1>1, <2>1, <2>2 DEF Types, ViewTypes
<1>. QED
  BY <1>1, <1>2, <1>3 DEF Types, UploadTypes, TurnTypes

\* A step of a conversation keeps the types of the client.
LEMMA ConversationKeepsTypes ==
  ASSUME Types, NEW t \in Tabs,
         \/ \E d \in Docs, q \in Questions : Ask(t, d, q)
         \/ \E q \in Questions : Settle(t, q)
         \/ \E d \in Docs : Clear(t, d)
  PROVE  UploadTypes' /\ TurnTypes' /\ ViewTypes' /\ StoredTypes'
<1>1. /\ flow' = flow /\ pdf' = pdf /\ library' = library /\ shown' = shown /\ reloads' = reloads
  BY DEF Ask, Settle, Clear
<1>2. \E conversations \in Turns : SetTurns(t, conversations)
  <2>1. turns[t] \in Turns
    BY DEF Types, TurnTypes
  <2>2. \A x \in Docs, conversation \in Seq(Turn) : [turns[t] EXCEPT ![x] = conversation] \in Turns
    BY <2>1 DEF Turns
  <2>3. \A x \in Docs : turns[t][x] \in Seq(Turn)
    BY <2>1 DEF Turns
  <2>4. ASSUME NEW d \in Docs, NEW q \in Questions, Ask(t, d, q)
        PROVE  \E conversations \in Turns : SetTurns(t, conversations)
    BY <2>2, <2>3, <2>4, ConversationsStay DEF Ask
  <2>5. ASSUME NEW d \in Docs, Clear(t, d)
        PROVE  \E conversations \in Turns : SetTurns(t, conversations)
    BY <2>2, <2>5, EmptySeq DEF Clear
  <2>6. ASSUME NEW q \in Questions, Settle(t, q)
        PROVE  \E conversations \in Turns : SetTurns(t, conversations)
    <3>1. PICK status \in {"complete", "failed"} :
            SetTurns(t, [turns[t] EXCEPT ![asked[q].doc] = SettleTurn(@, q, status)])
      BY <2>6 DEF Settle
    <3>2. CASE asked[q].doc \in Docs
      BY <2>2, <2>3, <3>1, <3>2, ConversationsStay
    <3>3. CASE asked[q].doc \notin Docs
      <4>1. [turns[t] EXCEPT ![asked[q].doc] = SettleTurn(@, q, status)] = turns[t]
        BY <2>1, <3>3 DEF Turns
      <4>. QED
        BY <2>1, <3>1, <4>1
    <3>. QED
      BY <3>2, <3>3
  <2>. QED
    BY <2>4, <2>5, <2>6
<1>3. turns' \in [Tabs -> Turns] /\ stored'.turns \in Turns /\ stored'.library = stored.library /\ StoredTypes'
  BY <1>2, TurnsKeepTypes
<1>4. asked' \in [Questions -> Question]
  <2>1. \/ asked' = asked
        \/ \E d \in Docs, q \in Questions :
             asked' = [asked EXCEPT ![q] = [tab |-> t, doc |-> d, at |-> "waiting"]]
        \/ \E q \in Questions : asked' = [asked EXCEPT ![q].at = "settled"]
    BY DEF Ask, Settle, Clear
  <2>. QED
    BY <2>1 DEF Types, TurnTypes, Question
<1>5. pending' \in [Tabs -> Docs \cup Questions \cup {None}]
  <2>1. \/ pending' = pending
        \/ \E x \in Questions \cup {None, pending[t]} : pending' = [pending EXCEPT ![t] = x]
    BY DEF Ask, Settle, Clear, Over
  <2>. QED
    BY <2>1 DEF Types, ViewTypes
<1>. QED
  BY <1>1, <1>3, <1>4, <1>5 DEF Types, UploadTypes, TurnTypes, ViewTypes

\* Navigation and reloads keep the types of the client.
LEMMA PagesKeepTypes ==
  ASSUME Types, NEW t \in Tabs, Navigate(t) \/ Reload(t)
  PROVE  UploadTypes' /\ TurnTypes' /\ ViewTypes' /\ StoredTypes'
<1>1. CASE Navigate(t)
  <2>1. PICK p \in Docs \cup {None} : Show(t, p)
    BY <1>1 DEF Navigate
  <2>2. ViewTypes'
    BY <1>1, <2>1 DEF Navigate, Show, Types, ViewTypes
  <2>. QED
    BY <1>1, <2>2 DEF Navigate, Types, UploadTypes, TurnTypes, StoredTypes
<1>2. CASE Reload(t)
  <2>1. reloads' \in 0..MaxReloads
    BY <1>2, ReloadsAreBounded DEF Reload, Types, ViewTypes
  <2>2. \A f \in Flow : Lost(t, f) \in Flow
    BY DEF Lost, Flow
  <2>3. \A a \in Question : Lost(t, a) \in Question
    BY DEF Lost, Question
  <2>4. flow' \in [Docs -> Flow]
    BY <1>2, <2>2 DEF Reload, Types, UploadTypes
  <2>5. asked' \in [Questions -> Question]
    BY <1>2, <2>3 DEF Reload, Types, TurnTypes
  <2>6. library' \in [Tabs -> Library] /\ turns' \in [Tabs -> Turns]
    BY <1>2 DEF Reload, Types, UploadTypes, TurnTypes
  <2>7. pending' \in [Tabs -> Docs \cup Questions \cup {None}]
    BY <1>2 DEF Reload, Types, ViewTypes
  <2>. QED
    BY <1>2, <2>1, <2>4, <2>5, <2>6, <2>7
    DEF Reload, Types, UploadTypes, TurnTypes, ViewTypes, StoredTypes
<1>. QED
  BY <1>1, <1>2

\* Requests, stores, requests under way and pages keep their types.
THEOREM TypeCorrect == Spec => []TypeOK
<1>1. Init => Types
  <2>1. SUFFICES ASSUME Init
                 PROVE  Types
    OBVIOUS
  <2>2. BackendTypes
    BY <2>1, FiveStages DEF Init, BackendTypes, NoFiles, Files, Call, Replies
  <2>3. UploadTypes
    BY <2>1 DEF Init, UploadTypes, Flow, Library, Entries, NoEntry
  <2>4. TurnTypes
    BY <2>1, EmptySeq DEF Init, TurnTypes, Turns, NoTurns, Question
  <2>5. ViewTypes /\ StoredTypes
    BY <2>1, ReloadsAreBounded DEF Init, ViewTypes, StoredTypes
  <2>. QED
    BY <2>2, <2>3, <2>4, <2>5 DEF Types
<1>2. Types /\ [Next]_vars => Types'
  <2>. SUFFICES ASSUME Types, [Next]_vars
                PROVE  Types'
    OBVIOUS
  <2>1. BackendTypes'
    BY BackendKeepsTypes
  <2>2. UploadTypes' /\ TurnTypes' /\ ViewTypes' /\ StoredTypes'
    <3>1. CASE client' = client
      BY <3>1 DEF client, Types, UploadTypes, TurnTypes, ViewTypes, StoredTypes
    <3>2. ASSUME NEW d \in Docs, Ingest(d) \/ RunStage(d)
          PROVE  client' = client
      BY <3>2 DEF Ingest, RunStage
    <3>3. UNCHANGED vars => client' = client
      BY DEF vars
    <3>. QED
      BY <3>1, <3>2, <3>3, UploadKeepsTypes, ConversationKeepsTypes, PagesKeepTypes DEF Next
  <2>. QED
    BY <2>1, <2>2 DEF Types
<1>. QED
  BY <1>1, <1>2, TypesByPart, PTL DEF Spec

-----------------------------------------------------------------------------
(* What the client relies on is there.                                     *)

\* The client or the backend has gone past the upload of the document.
Known(d) ==
  \/ done[d] > 0 \/ call[d].stage > 0
  \/ flow[d].at \in {"saving", "preparing"}
  \/ stored.library[d] # None \/ \E t \in Tabs : Entered(t, d)

\* The request that uploads a document is its first, and only its success makes
\* the document known.
UploadIsSafe(d) ==
  /\ raw[d].status = "uploaded" => raw[d] = AllFiles
  /\ call[d].stage = 0 /\ call[d].reply = "ok" => raw[d] = AllFiles
  /\ Known(d) => raw[d] = AllFiles /\ (call[d].stage > 0 \/ call[d].reply = "ok")
  /\ flow[d].at = "idle" => ~Known(d)

\* Every upload is safe.
UploadsAreSafe == \A d \in Docs : UploadIsSafe(d)

\* The document is shown as ready.
Ready(d) == stored.library[d] = "ready" \/ \E t \in Tabs : library[t][d] = "ready"

\* The stages are requested in turn, and completed in turn.
PreparationIsSafe(d) ==
  /\ done[d] <= call[d].stage /\ (call[d].reply = "ok" => done[d] = call[d].stage)
  /\ flow[d].at \in {"idle", "uploading", "saving"} => call[d].stage = 0
  /\ flow[d].at = "preparing" => d \in pdf
  /\ Ready(d) => done[d] = Len(Stages) /\ d \in pdf

\* Every preparation is safe.
PreparationsAreSafe == \A d \in Docs : PreparationIsSafe(d)

\* Of a document, what an action about another one, or about none, may change:
\* what a tab has in its library is stored, or what is stored comes to a tab.
Untouched(d) ==
  /\ raw'[d] = raw[d] /\ done'[d] = done[d] /\ call'[d] = call[d]
  /\ flow'[d] = flow[d] \/ flow'[d].at = "lost"
  /\ d \in pdf' <=> d \in pdf
  /\ \A t \in Tabs : library'[t][d] \in {library[t][d], stored.library[d]}
  /\ stored'.library[d] = stored.library[d] \/ \E t \in Tabs : stored'.library[d] = library[t][d]

\* What is about another document leaves this one safe.
LEMMA UntouchedStaysSafe ==
  ASSUME NEW d \in Docs, UploadIsSafe(d), PreparationIsSafe(d), Untouched(d)
  PROVE  UploadIsSafe(d)' /\ PreparationIsSafe(d)'
<1>1. Known(d)' => Known(d)
  BY DEF Untouched, Known, Entered
<1>2. Ready(d)' => Ready(d)
  BY DEF Untouched, Ready
<1>3. UploadIsSafe(d)'
  <2>1. flow'[d].at = "idle" => flow[d].at = "idle"
    BY DEF Untouched
  <2>. QED
    BY <1>1, <2>1 DEF Untouched, UploadIsSafe
<1>4. PreparationIsSafe(d)'
  BY <1>2 DEF Untouched, PreparationIsSafe
<1>. QED
  BY <1>3, <1>4

\* The backend's own steps.
LEMMA BackendIsSafe ==
  ASSUME Types, NEW d \in Docs, UploadIsSafe(d), PreparationIsSafe(d), Ingest(d) \/ RunStage(d)
  PROVE  UploadIsSafe(d)' /\ PreparationIsSafe(d)'
<1>1. /\ UNCHANGED <<flow, pdf, library, stored>>
      /\ call'[d].stage = call[d].stage /\ call'[d].reply \in {"ok", "error"}
      /\ call[d].stage \in 0..5 /\ done[d] \in 0..5
  BY FiveStages DEF Ingest, RunStage, client, Reply, Types, BackendTypes, Call
<1>2. CASE Ingest(d)
  <2>1. call[d].stage = 0 /\ call[d].reply = "waiting" /\ done' = done
    BY <1>2 DEF Ingest
  <2>2. ~Known(d)
    BY <2>1 DEF UploadIsSafe
  <2>3. ~Known(d)' /\ ~Ready(d)
    <3>1. Ready(d) => done[d] = 5
      BY FiveStages DEF PreparationIsSafe
    <3>. QED
      BY <1>1, <2>1, <2>2, <3>1 DEF Known, Entered
  <2>4. /\ raw'[d].status = "uploaded" => raw'[d] = AllFiles
        /\ call'[d].reply = "ok" => raw'[d] = AllFiles
    <3>1. \/ raw'[d] = AllFiles
          \/ raw'[d] = raw[d] /\ call'[d].reply = "error"
          \/ call'[d].reply = "error" /\ raw'[d].status \in {"none", "torn", "failed"}
      BY <1>2 DEF Ingest, Reply, WrittenUpTo, Types, BackendTypes, Call
    <3>. QED
      BY <3>1 DEF UploadIsSafe
  <2>5. done[d] = 0
    BY <1>1, <2>1 DEF PreparationIsSafe
  <2>6. Ready(d)' <=> Ready(d)
    BY <1>1 DEF Ready
  <2>. QED
    BY <1>1, <2>1, <2>3, <2>4, <2>5, <2>6 DEF UploadIsSafe, PreparationIsSafe
<1>3. CASE RunStage(d)
  <2>1. call[d].stage > 0 /\ raw' = raw
    BY <1>3 DEF RunStage
  <2>2. \/ done'[d] = call[d].stage
        \/ done'[d] = done[d] /\ call'[d].reply = "error"
    BY <1>3 DEF RunStage, Reply, Types, BackendTypes, Call
  <2>3. Known(d) /\ raw[d] = AllFiles /\ flow[d].at # "idle"
    BY <2>1 DEF Known, UploadIsSafe
  <2>4. Ready(d)' <=> Ready(d)
    BY <1>1 DEF Ready
  <2>5. done'[d] <= call[d].stage /\ (Ready(d) => done'[d] = 5)
    BY <1>1, <2>2, FiveStages DEF PreparationIsSafe
  <2>. QED
    BY <1>1, <2>1, <2>2, <2>3, <2>4, <2>5, FiveStages DEF UploadIsSafe, PreparationIsSafe
<1>. QED
  BY <1>2, <1>3

\* The steps of an upload, for its own document.
LEMMA UploadingIsSafe ==
  ASSUME Types, NEW t \in Tabs, NEW d \in Docs, UploadIsSafe(d), PreparationIsSafe(d),
         StartUpload(t, d) \/ UploadStep(t, d) \/ Remove(t, d)
  PROVE  UploadIsSafe(d)' /\ PreparationIsSafe(d)'
<1>. USE DEF Types, BackendTypes, UploadTypes
<1>1. /\ raw' = raw /\ done' = done
      /\ call[d].stage \in 0..5 /\ done[d] \in 0..5
  BY FiveStages DEF Call, StartUpload, UploadStep, Uploaded, UploadFails, SaveBlob, SaveFails,
     StageCompleted, Prepared, StageFails, Remove, backend
<1>2. CASE StartUpload(t, d)
  <2>1. /\ flow[d].at = "idle" /\ flow'[d].at = "uploading"
        /\ call'[d].stage = 0 /\ call'[d].reply = "waiting"
        /\ library' = library /\ stored' = stored /\ pdf' = pdf
    BY <1>2 DEF StartUpload, Send
  <2>2. call[d].stage = 0 /\ done[d] = 0 /\ ~Known(d)
    BY <1>1, <2>1 DEF UploadIsSafe, PreparationIsSafe
  <2>3. ~Known(d)' /\ (Ready(d)' <=> Ready(d))
    BY <1>1, <2>1, <2>2 DEF Known, Entered, Ready
  <2>. QED
    BY <1>1, <2>1, <2>2, <2>3 DEF UploadIsSafe, PreparationIsSafe
<1>3. CASE Uploaded(t, d)
  <2>1. /\ flow[d].at = "uploading" /\ flow'[d].at = "saving" /\ call[d].reply = "ok"
        /\ call' = call /\ pdf' = pdf
        /\ library' = [library EXCEPT ![t] = [library[t] EXCEPT ![d] = "preparing"]]
        /\ stored'.library[d] = "preparing"
    BY <1>3 DEF Uploaded, Running, GoOn, SetLibrary, backend, Library
  <2>2. call[d].stage = 0 /\ raw[d] = AllFiles
    BY <2>1 DEF UploadIsSafe, PreparationIsSafe
  <2>3. Ready(d)' => Ready(d)
    BY <2>1 DEF Ready, Library
  <2>. QED
    BY <1>1, <2>1, <2>2, <2>3 DEF UploadIsSafe, PreparationIsSafe
<1>4. CASE UploadFails(t, d) \/ SaveFails(t, d)
  <2>1. /\ flow'[d].at \in {"ended", "unsaved"}
        /\ call' = call /\ pdf' = pdf /\ library' = library /\ stored' = stored
    <3>1. GoOn(d, "ended") \/ GoOn(d, "unsaved")
      BY <1>4 DEF UploadFails, SaveFails
    <3>2. flow'[d].at \in {"ended", "unsaved"}
      BY <3>1 DEF GoOn, Flow
    <3>. QED
      BY <1>4, <3>2 DEF UploadFails, SaveFails, backend
  <2>2. (Known(d)' => Known(d)) /\ (Ready(d)' <=> Ready(d))
    BY <1>1, <2>1 DEF Known, Entered, Ready
  <2>. QED
    BY <1>1, <2>1, <2>2 DEF UploadIsSafe, PreparationIsSafe
<1>5. CASE SaveBlob(t, d)
  <2>1. /\ flow[d].at = "saving" /\ flow'[d].at = "preparing" /\ d \in pdf'
        /\ call'[d].stage = 1 /\ call'[d].reply = "waiting"
        /\ library' = library /\ stored'.library[d] = library[t][d]
    BY <1>5 DEF SaveBlob, Running, GoOn, Send, SetPipelineStage, SetLibrary
  <2>2. call[d].stage = 0 /\ done[d] = 0 /\ raw[d] = AllFiles
    BY <1>1, <2>1 DEF UploadIsSafe, PreparationIsSafe, Known
  <2>3. Ready(d)' => Ready(d)
    BY <2>1 DEF Ready
  <2>. QED
    BY <1>1, <2>1, <2>2, <2>3 DEF UploadIsSafe, PreparationIsSafe
<1>6. CASE StageCompleted(t, d)
  <2>1. /\ flow[d].at = "preparing" /\ flow' = flow /\ pdf' = pdf /\ call[d].reply = "ok"
        /\ call'[d].stage = call[d].stage + 1 /\ call'[d].reply = "waiting"
        /\ library' = library /\ stored'.library[d] = library[t][d]
    BY <1>6 DEF StageCompleted, Running, Send, SetPipelineStage, SetLibrary
  <2>2. raw[d] = AllFiles
    BY <2>1 DEF UploadIsSafe, Known
  <2>3. Ready(d)' => Ready(d)
    BY <2>1 DEF Ready
  <2>. QED
    BY <1>1, <2>1, <2>2, <2>3 DEF UploadIsSafe, PreparationIsSafe
<1>7. CASE Prepared(t, d)
  <2>1. /\ flow[d].at = "preparing" /\ flow'[d].at = "ended" /\ pdf' = pdf
        /\ call[d].reply = "ok" /\ call[d].stage = 5 /\ call' = call
    BY <1>7, FiveStages DEF Prepared, Running, IsLast, GoOn, backend
  <2>2. done[d] = 5 /\ d \in pdf /\ raw[d] = AllFiles
    BY <2>1 DEF UploadIsSafe, PreparationIsSafe, Known
  <2>. QED
    BY <1>1, <2>1, <2>2, FiveStages DEF UploadIsSafe, PreparationIsSafe
<1>8. CASE StageFails(t, d)
  <2>1. /\ flow[d].at = "preparing" /\ flow'[d].at = "ended" /\ call' = call /\ pdf' = pdf
    BY <1>8 DEF StageFails, Running, GoOn, backend
  <2>2. Known(d)
    BY <2>1 DEF Known
  <2>3. Ready(d)' => Ready(d)
    <3>1. \/ library' = library /\ stored'.library[d] = library[t][d]
          \/ /\ library' = [library EXCEPT ![t] = [library[t] EXCEPT ![d] = "failed"]]
             /\ stored'.library[d] = "failed"
      <4>1. CASE Entered(t, d)
        BY <1>8, <4>1 DEF StageFails, SetStatus, SetLibrary, Library, StoredTypes
      <4>2. CASE ~Entered(t, d)
        BY <1>8, <4>2 DEF StageFails, SetStatus, SetLibrary, Library, StoredTypes
      <4>. QED
        BY <4>1, <4>2
    <3>. QED
      BY <3>1 DEF Ready, Library
  <2>. QED
    BY <1>1, <2>1, <2>2, <2>3 DEF UploadIsSafe, PreparationIsSafe
<1>9. CASE Remove(t, d)
  <2>1. /\ flow' = flow /\ call' = call /\ pdf' = pdf /\ Known(d)
        /\ library' = [library EXCEPT ![t] = [library[t] EXCEPT ![d] = None]]
        /\ stored'.library[d] = None
    BY <1>9 DEF Remove, backend, Known, SetLibrary, Library
  <2>2. Ready(d)' => Ready(d)
    BY <2>1, NoneIsNoStatus DEF Ready, Library
  <2>. QED
    BY <1>1, <2>1, <2>2 DEF UploadIsSafe, PreparationIsSafe
<1>. QED
  BY <1>2, <1>3, <1>4, <1>5, <1>6, <1>7, <1>8, <1>9 DEF UploadStep

\* All other steps, and those of other documents.
LEMMA OthersAreUntouched ==
  ASSUME Types, NEW d \in Docs,
         \/ \E x \in Docs \ {d} : Ingest(x) \/ RunStage(x)
         \/ \E t \in Tabs, x \in Docs \ {d} : StartUpload(t, x) \/ UploadStep(t, x) \/ Remove(t, x)
         \/ \E t \in Tabs, x \in Docs, q \in Questions : Ask(t, x, q)
         \/ \E t \in Tabs, q \in Questions : Settle(t, q)
         \/ \E t \in Tabs, x \in Docs : Clear(t, x)
         \/ \E t \in Tabs : Navigate(t) \/ Reload(t)
         \/ UNCHANGED vars
  PROVE  Untouched(d)
<1>. USE DEF Types, BackendTypes, UploadTypes
<1>1. ASSUME NEW x \in Docs \ {d}, Ingest(x) \/ RunStage(x)
      PROVE  Untouched(d)
  <2>1. UNCHANGED <<flow, pdf, library, stored>>
    BY <1>1 DEF Ingest, RunStage, client
  <2>2. raw'[d] = raw[d] /\ done'[d] = done[d] /\ call'[d] = call[d]
    BY <1>1 DEF Ingest, RunStage, Reply
  <2>. QED
    BY <2>1, <2>2 DEF Untouched
<1>2. ASSUME NEW t \in Tabs, NEW x \in Docs \ {d}, StartUpload(t, x) \/ UploadStep(t, x) \/ Remove(t, x)
      PROVE  Untouched(d)
  <2>1. raw' = raw /\ done' = done
    BY <1>2 DEF StartUpload, UploadStep, Uploaded, UploadFails, SaveBlob, SaveFails, StageCompleted,
       Prepared, StageFails, Remove, backend
  <2>2. call'[d] = call[d]
    BY <1>2 DEF StartUpload, UploadStep, Uploaded, UploadFails, SaveBlob, SaveFails, StageCompleted,
       Prepared, StageFails, Remove, backend, Send
  <2>3. flow'[d] = flow[d]
    BY <1>2 DEF StartUpload, UploadStep, Uploaded, UploadFails, SaveBlob, SaveFails, StageCompleted,
       Prepared, StageFails, Remove, GoOn
  <2>4. d \in pdf' <=> d \in pdf
    BY <1>2 DEF StartUpload, UploadStep, Uploaded, UploadFails, SaveBlob, SaveFails, StageCompleted,
       Prepared, StageFails, Remove
  <2>5. \/ library' = library /\ stored' = stored
        \/ \E entries \in Library : SetLibrary(t, entries) /\ entries[d] = library[t][d]
    <3>1. \A status \in Entries :
            /\ [library[t] EXCEPT ![x] = status] \in Library
            /\ [library[t] EXCEPT ![x] = status][d] = library[t][d]
      BY DEF Library
    <3>2. library[t] \in Library /\ {None, "preparing", "ready", "failed"} \subseteq Entries
      BY EntriesKeepTypes
    <3>. QED
      BY <1>2, <3>1, <3>2 DEF StartUpload, UploadStep, Uploaded, UploadFails, SaveBlob, SaveFails,
         StageCompleted, Prepared, StageFails, Remove, SetStatus, SetPipelineStage
  <2>6. /\ \A s \in Tabs : library'[s][d] = library[s][d]
        /\ stored'.library[d] \in {stored.library[d], library[t][d]}
    <3>1. CASE library' = library /\ stored' = stored
      BY <3>1
    <3>2. ASSUME NEW entries \in Library, SetLibrary(t, entries), entries[d] = library[t][d]
          PROVE  /\ \A s \in Tabs : library'[s][d] = library[s][d]
                 /\ stored'.library[d] = library[t][d]
      BY <3>2 DEF SetLibrary, StoredTypes
    <3>. QED
      BY <2>5, <3>1, <3>2
  <2>. QED
    BY <2>1, <2>2, <2>3, <2>4, <2>6 DEF Untouched
<1>3. ASSUME UNCHANGED <<backend, flow, pdf, library>>, stored'.library = stored.library
      PROVE  Untouched(d)
  BY <1>3 DEF Untouched, backend
<1>4. ASSUME NEW t \in Tabs, Reload(t)
      PROVE  Untouched(d)
  <2>1. flow'[d] = flow[d] \/ flow'[d].at = "lost"
    BY <1>4 DEF Reload, Lost, Flow
  <2>2. \A s \in Tabs : library'[s][d] \in {library[s][d], stored.library[d]}
    BY <1>4 DEF Reload
  <2>. QED
    BY <1>4, <2>1, <2>2 DEF Reload, Untouched, backend
<1>5. ASSUME NEW t \in Tabs, NEW conversations, SetTurns(t, conversations)
      PROVE  stored'.library = stored.library
  BY <1>5 DEF SetTurns, StoredTypes
<1>6. ASSUME \/ \E t \in Tabs, x \in Docs, q \in Questions : Ask(t, x, q)
             \/ \E t \in Tabs, q \in Questions : Settle(t, q)
             \/ \E t \in Tabs, x \in Docs : Clear(t, x)
             \/ \E t \in Tabs : Navigate(t)
             \/ UNCHANGED vars
      PROVE  Untouched(d)
  <2>1. UNCHANGED <<backend, flow, pdf, library>>
    BY <1>6 DEF Ask, Settle, Clear, Navigate, vars, client
  <2>2. stored'.library = stored.library
    BY <1>5, <1>6 DEF Ask, Settle, Clear, Navigate, vars, client
  <2>. QED
    BY <1>3, <2>1, <2>2
<1>. QED
  BY <1>1, <1>2, <1>4, <1>6

\* Every step keeps every document safe.
LEMMA StepIsSafe ==
  ASSUME Types, UploadsAreSafe, PreparationsAreSafe, [Next]_vars
  PROVE  UploadsAreSafe' /\ PreparationsAreSafe'
<1>1. SUFFICES ASSUME NEW d \in Docs
               PROVE  UploadIsSafe(d)' /\ PreparationIsSafe(d)'
  BY DEF UploadsAreSafe, PreparationsAreSafe
<1>2. UploadIsSafe(d) /\ PreparationIsSafe(d)
  BY DEF UploadsAreSafe, PreparationsAreSafe
<1>3. CASE Ingest(d) \/ RunStage(d)
  BY <1>2, <1>3, BackendIsSafe
<1>4. CASE \E t \in Tabs : StartUpload(t, d) \/ UploadStep(t, d) \/ Remove(t, d)
  BY <1>2, <1>4, UploadingIsSafe
<1>5. CASE Untouched(d)
  BY <1>2, <1>5, UntouchedStaysSafe
<1>. QED
  BY <1>3, <1>4, <1>5, OthersAreUntouched DEF Next

\* At the start there is nothing that is not.
LEMMA SafeFromTheStart ==
  ASSUME Init
  PROVE  UploadsAreSafe /\ PreparationsAreSafe
<1>1. SUFFICES ASSUME NEW d \in Docs
               PROVE  UploadIsSafe(d) /\ PreparationIsSafe(d)
  BY DEF UploadsAreSafe, PreparationsAreSafe
<1>2. /\ raw[d].status = "none" /\ done[d] = 0 /\ call[d].stage = 0 /\ call[d].reply = None
      /\ flow[d].at = "idle" /\ stored.library[d] = None /\ \A t \in Tabs : library[t][d] = None
  BY DEF Init, NoFiles, NoEntry
<1>3. ~Known(d) /\ ~Ready(d)
  BY <1>2, NoneIsNoStatus DEF Known, Entered, Ready
<1>4. None # "ok"
  BY NoneIsNoReply
<1>. QED
  BY <1>2, <1>3, <1>4 DEF UploadIsSafe, PreparationIsSafe

\* A status that says uploaded has the files beside it, and only such a document
\* gets into a library or is prepared, for any number of tabs and documents
\* (ingestion/service.py, use-upload-document.ts).
THEOREM UploadsComplete == Spec => []UploadsAreComplete
<1>1. Types /\ UploadsAreSafe => UploadsAreComplete
  BY DEF UploadsAreSafe, UploadIsSafe, Known, UploadsAreComplete
<1>. QED
  BY <1>1, StepIsSafe, SafeFromTheStart, TypeCorrect, TypesByPart, PTL DEF Spec

\* A document is ready only when every stage was completed for it and the viewer
\* has its bytes, whatever times out, is answered late or overwrites local
\* storage (prepare-document.ts).
THEOREM ReadyPrepared == Spec => []ReadyIsPrepared
<1>1. PreparationsAreSafe => ReadyIsPrepared
  BY DEF PreparationsAreSafe, PreparationIsSafe, Ready, ReadyIsPrepared
<1>. QED
  BY <1>1, StepIsSafe, SafeFromTheStart, TypeCorrect, TypesByPart, PTL DEF Spec

-----------------------------------------------------------------------------
(* What late answers leave alone.                                          *)

\* A document that was removed in a tab does not come back with the answer of
\* a stage, for any number of tabs and documents (the setters of the document
\* library store); only an upload or a reload makes an entry.
THEOREM RemovedRemains == Spec => RemovedStaysRemoved
<1> DEFINE Comes(t, d) == ~Entered(t, d) /\ library'[t][d] # None
<1>1. ASSUME Types, NEW t \in Tabs, NEW d \in Docs, Comes(t, d), [Next]_vars
      PROVE  Reload(t) \/ Uploaded(t, d)
  <2>. USE DEF Types, UploadTypes
  <2>1. library'[t][d] # library[t][d] /\ library[t][d] = None
    BY <1>1 DEF Entered
  <2>2. ASSUME NEW s \in Tabs, NEW entries, SetLibrary(s, entries)
        PROVE  /\ s = t => library'[t] = entries
               /\ s # t => library'[t] = library[t]
    <3>1. library' = [library EXCEPT ![s] = entries] /\ library \in [Tabs -> Library]
      BY <1>1, <2>2 DEF SetLibrary
    <3>. QED
      BY <3>1, Zenon
  <2>3. ASSUME NEW s \in Tabs, NEW x \in Docs, Uploaded(s, x)
        PROVE  s = t /\ x = d
    <3>1. SetLibrary(s, [library[s] EXCEPT ![x] = "preparing"])
      BY <2>3 DEF Uploaded
    <3>2. s = t
      BY <2>1, <2>2, <3>1
    <3>3. library'[t] = [library[t] EXCEPT ![x] = "preparing"]
      BY <2>2, <3>1, <3>2
    <3>. QED
      BY <2>1, <3>2, <3>3 DEF Library
  <2>4. ASSUME NEW s \in Tabs, NEW x \in Docs, SaveBlob(s, x) \/ StageCompleted(s, x)
        PROVE  FALSE
    BY <2>1, <2>2, <2>4 DEF SaveBlob, StageCompleted, SetPipelineStage
  <2>5. ASSUME NEW s \in Tabs, NEW x \in Docs, Prepared(s, x) \/ StageFails(s, x)
        PROVE  FALSE
    <3>1. \E status : SetStatus(s, x, status)
      BY <2>5 DEF Prepared, StageFails
    <3>2. PICK status : SetStatus(s, x, status)
      BY <3>1
    <3>3. CASE Entered(s, x)
      <4>1. s = t => x # d
        BY <2>1, <3>3 DEF Entered
      <4>. QED
        <5>1. SetLibrary(s, [library[s] EXCEPT ![x] = status])
          BY <3>2, <3>3 DEF SetStatus
        <5>2. s = t
          BY <2>1, <2>2, <5>1
        <5>3. library'[t] = [library[t] EXCEPT ![x] = status] /\ library[t] \in Library
          BY <1>1, <2>2, <5>1, <5>2
        <5>. QED
          BY <2>1, <4>1, <5>2, <5>3 DEF Library
    <3>4. CASE ~Entered(s, x)
      BY <2>1, <2>2, <3>2, <3>4 DEF SetStatus
    <3>. QED
      BY <3>3, <3>4
  <2>6. ASSUME NEW s \in Tabs, NEW x \in Docs, Remove(s, x)
        PROVE  FALSE
    BY <1>1, <2>1, <2>2, <2>6 DEF Remove, Library
  <2>7. ASSUME NEW s \in Tabs, Reload(s)
        PROVE  s = t
    BY <2>1, <2>7 DEF Reload
  <2>8. library' # library
    BY <2>1
  <2>. QED
    BY <1>1, <2>3, <2>4, <2>5, <2>6, <2>7, <2>8
    DEF Next, Ingest, RunStage, UploadStep, StartUpload, UploadFails, SaveFails, Ask, Settle, Clear,
        Navigate, vars, client
<1>2. Types /\ [Next]_vars =>
        [\A t \in Tabs, d \in Docs :
           ~Entered(t, d) /\ library'[t][d] # None => Reload(t) \/ Uploaded(t, d)]_vars
  BY <1>1
<1>. QED
  BY <1>2, TypeCorrect, TypesByPart, PTL DEF Spec, RemovedStaysRemoved

\* No turn of the conversation is the question's; all of them are open.
NoneAsks(conversation, q) == \A k \in DOMAIN conversation : conversation[k].id # q
AllOpen(conversation, q)  ==
  \A k \in DOMAIN conversation : conversation[k].id = q => conversation[k].status = "pending"

\* A question that is not asked has no turn anywhere, and one that is asked has
\* only open turns in its tab.
QuestionIsSafe(q) ==
  /\ asked[q].at = "idle" =>
       \A d \in Docs : NoneAsks(stored.turns[d], q) /\ \A t \in Tabs : NoneAsks(turns[t][d], q)
  /\ \A t \in Tabs :
       asked[q].at = "waiting" /\ asked[q].tab = t => \A d \in Docs : AllOpen(turns[t][d], q)

\* Every question is safe.
QuestionsAreSafe == \A q \in Questions : QuestionIsSafe(q)

\* What a turn that is added or settled means for a question.
LEMMA AddedTurn ==
  ASSUME NEW conversation \in Seq(Turn), NEW q \in Questions, NEW p \in Questions
  PROVE  LET longer == Append(conversation, [id |-> q, status |-> "pending"])
         IN  /\ p # q /\ NoneAsks(conversation, p) => NoneAsks(longer, p)
             /\ AllOpen(conversation, p) => AllOpen(longer, p)
             /\ \A k \in DOMAIN conversation : k \in DOMAIN longer /\ longer[k] = conversation[k]
<1> DEFINE turn == [id |-> q, status |-> "pending"]
           longer == Append(conversation, turn)
<1>1. turn \in Turn /\ turn.id = q /\ turn.status = "pending"
  BY DEF Turn
<1>2. /\ Len(conversation) \in Nat /\ DOMAIN conversation = 1..Len(conversation)
      /\ DOMAIN longer = 1..(Len(conversation) + 1)
      /\ \A k \in 1..Len(conversation) : longer[k] = conversation[k]
      /\ longer[Len(conversation) + 1] = turn
  <2>. HIDE DEF turn
  <2>. QED
    BY <1>1, AppendProperties, LenProperties
<1>3. \A k \in DOMAIN longer : k \in DOMAIN conversation \/ longer[k] = turn
  BY <1>2
<1>. HIDE DEF longer, turn
<1>4. \A k \in DOMAIN conversation : k \in DOMAIN longer /\ longer[k] = conversation[k]
  BY <1>2
<1>5. (p # q /\ NoneAsks(conversation, p) => NoneAsks(longer, p)) /\ (AllOpen(conversation, p) => AllOpen(longer, p))
  BY <1>1, <1>2, <1>3, <1>4 DEF NoneAsks, AllOpen
<1>. QED
  BY <1>4, <1>5 DEF longer, turn

\* What a turn that is settled means for a question.
LEMMA SettledTurn ==
  ASSUME NEW conversation \in Seq(Turn), NEW q \in Questions, NEW p \in Questions,
         NEW status \in {"complete", "failed"}
  PROVE  LET settled == SettleTurn(conversation, q, status)
         IN  /\ NoneAsks(conversation, p) => NoneAsks(settled, p)
             /\ p # q /\ AllOpen(conversation, p) => AllOpen(settled, p)
             /\ \A k \in DOMAIN conversation :
                  k \in DOMAIN settled /\ (conversation[k].id # q => settled[k] = conversation[k])
<1>1. \A k \in DOMAIN conversation : conversation[k] \in Turn
  BY ElementOfSeq, LenProperties
<1>2. \A turn \in Turn :
        [turn EXCEPT !.status = status].id = turn.id
  BY DEF Turn
<1>3. DOMAIN SettleTurn(conversation, q, status) = DOMAIN conversation
  BY DEF SettleTurn
<1>4. \A k \in DOMAIN conversation :
        /\ SettleTurn(conversation, q, status)[k].id = conversation[k].id
        /\ conversation[k].id # q => SettleTurn(conversation, q, status)[k] = conversation[k]
  BY <1>1, <1>2 DEF SettleTurn
<1>. QED
  BY <1>3, <1>4 DEF NoneAsks, AllOpen

\* Steps that are about no conversation.
LEMMA OtherStepsKeepQuestions ==
  ASSUME UNCHANGED <<turns, asked>>, stored'.turns = stored.turns, QuestionsAreSafe
  PROVE  QuestionsAreSafe'
  BY DEF QuestionsAreSafe, QuestionIsSafe, NoneAsks, AllOpen

\* A question that is asked is asked for the first time.
LEMMA AskKeepsQuestions ==
  ASSUME Types, QuestionsAreSafe, NEW t \in Tabs, NEW d \in Docs, NEW q \in Questions, Ask(t, d, q)
  PROVE  QuestionsAreSafe'
<1> DEFINE longer == Append(turns[t][d], [id |-> q, status |-> "pending"])
<1>1. turns \in [Tabs -> Turns] /\ turns[t] \in Turns /\ turns[t][d] \in Seq(Turn)
  BY DEF Types, TurnTypes, Turns
<1>2. /\ turns' = [turns EXCEPT ![t] = [turns[t] EXCEPT ![d] = longer]]
      /\ stored'.turns = [turns[t] EXCEPT ![d] = longer]
      /\ asked' = [asked EXCEPT ![q] = [tab |-> t, doc |-> d, at |-> "waiting"]]
      /\ asked[q].at = "idle"
  BY DEF Ask, SetTurns, Types, StoredTypes
<1>3. /\ turns'[t][d] = longer /\ stored'.turns[d] = longer
      /\ \A x \in Docs \ {d} : turns'[t][x] = turns[t][x] /\ stored'.turns[x] = turns[t][x]
      /\ \A s \in Tabs \ {t} : turns'[s] = turns[s]
  <2>. HIDE DEF longer
  <2>. QED
    BY <1>1, <1>2 DEF Turns
<1>4. SUFFICES ASSUME NEW p \in Questions
               PROVE  QuestionIsSafe(p)'
  BY DEF QuestionsAreSafe
<1>5. QuestionIsSafe(p) /\ QuestionIsSafe(q)
  BY DEF QuestionsAreSafe
<1>6. /\ p # q /\ NoneAsks(turns[t][d], p) => NoneAsks(longer, p)
      /\ AllOpen(turns[t][d], p) => AllOpen(longer, p)
  BY <1>1, AddedTurn
<1>. HIDE DEF longer
<1>7. CASE p = q
  <2>1. asked'[p].at = "waiting" /\ asked'[p].tab = t
    BY <1>2, <1>7 DEF Types, TurnTypes
  <2>2. \A x \in Docs : AllOpen(turns[t][x], p)
    BY <1>2, <1>5, <1>7 DEF QuestionIsSafe, NoneAsks, AllOpen
  <2>3. \A x \in Docs : AllOpen(turns'[t][x], p)
    BY <1>3, <1>6, <2>2
  <2>. QED
    BY <2>1, <2>3 DEF QuestionIsSafe, AllOpen
<1>8. CASE p # q
  <2>1. asked'[p] = asked[p]
    BY <1>2, <1>8
  <2>2. ASSUME asked[p].at = "idle", NEW x \in Docs
        PROVE  NoneAsks(stored'.turns[x], p) /\ \A s \in Tabs : NoneAsks(turns'[s][x], p)
    <3>1. \A s \in Tabs : NoneAsks(turns[s][x], p)
      BY <1>5, <2>2 DEF QuestionIsSafe
    <3>. QED
      BY <1>3, <1>6, <1>8, <3>1
  <2>3. ASSUME NEW s \in Tabs, asked[p].at = "waiting", asked[p].tab = s, NEW x \in Docs
        PROVE  AllOpen(turns'[s][x], p)
    <3>1. AllOpen(turns[s][x], p)
      BY <1>5, <2>3 DEF QuestionIsSafe
    <3>. QED
      BY <1>3, <1>6, <3>1
  <2>. QED
    BY <2>1, <2>2, <2>3 DEF QuestionIsSafe, NoneAsks, AllOpen
<1>. QED
  BY <1>7, <1>8

\* The answer settles the turns of its question and of no other.
LEMMA SettleKeepsQuestions ==
  ASSUME Types, QuestionsAreSafe, NEW t \in Tabs, NEW q \in Questions, Settle(t, q)
  PROVE  QuestionsAreSafe'
<1>1. turns \in [Tabs -> Turns] /\ turns[t] \in Turns
  BY DEF Types, TurnTypes
<1>2. PICK status \in {"complete", "failed"} :
        SetTurns(t, [turns[t] EXCEPT ![asked[q].doc] = SettleTurn(@, q, status)])
  BY DEF Settle
<1> DEFINE new(x) == IF x = asked[q].doc THEN SettleTurn(turns[t][x], q, status) ELSE turns[t][x]
<1>3. /\ \A x \in Docs : turns'[t][x] = new(x) /\ stored'.turns[x] = new(x)
      /\ \A s \in Tabs \ {t} : turns'[s] = turns[s]
  BY <1>1, <1>2 DEF SetTurns, Types, StoredTypes, Turns
<1>4. asked[q].at = "waiting" /\ asked' = [asked EXCEPT ![q].at = "settled"]
  BY DEF Settle
<1>5. SUFFICES ASSUME NEW p \in Questions
               PROVE  QuestionIsSafe(p)'
  BY DEF QuestionsAreSafe
<1>6. \A x \in Docs : /\ NoneAsks(turns[t][x], p) => NoneAsks(new(x), p)
                      /\ p # q /\ AllOpen(turns[t][x], p) => AllOpen(new(x), p)
  BY <1>1, SettledTurn DEF Turns
<1>. HIDE DEF new
<1>7. QuestionIsSafe(p)
  BY DEF QuestionsAreSafe
<1>8. CASE p = q
  <2>1. asked'[p].at = "settled"
    BY <1>4, <1>8 DEF Types, TurnTypes, Question
  <2>. QED
    BY <2>1 DEF QuestionIsSafe
<1>9. CASE p # q
  <2>1. asked'[p] = asked[p]
    BY <1>4, <1>9
  <2>2. ASSUME asked[p].at = "idle", NEW x \in Docs
        PROVE  NoneAsks(stored'.turns[x], p) /\ \A s \in Tabs : NoneAsks(turns'[s][x], p)
    BY <1>3, <1>6, <1>7, <2>2 DEF QuestionIsSafe
  <2>3. ASSUME NEW s \in Tabs, asked[p].at = "waiting", asked[p].tab = s, NEW x \in Docs
        PROVE  AllOpen(turns'[s][x], p)
    <3>1. AllOpen(turns[s][x], p)
      BY <1>7, <2>3 DEF QuestionIsSafe
    <3>. QED
      BY <1>3, <1>6, <1>9, <3>1
  <2>. QED
    BY <2>1, <2>2, <2>3 DEF QuestionIsSafe, NoneAsks, AllOpen
<1>. QED
  BY <1>8, <1>9

\* A conversation that is cleared has no turns.
LEMMA ClearKeepsQuestions ==
  ASSUME Types, QuestionsAreSafe, NEW t \in Tabs, NEW d \in Docs, Clear(t, d)
  PROVE  QuestionsAreSafe'
<1>1. turns \in [Tabs -> Turns] /\ turns[t] \in Turns
  BY DEF Types, TurnTypes
<1>2. /\ \A x \in Docs : turns'[t][x] \in {turns[t][x], <<>>} /\ stored'.turns[x] = turns'[t][x]
      /\ \A s \in Tabs \ {t} : turns'[s] = turns[s]
      /\ asked' = asked
  BY <1>1 DEF Clear, SetTurns, Types, StoredTypes, Turns
<1>3. SUFFICES ASSUME NEW p \in Questions
               PROVE  QuestionIsSafe(p)'
  BY DEF QuestionsAreSafe
<1>4. QuestionIsSafe(p)
  BY DEF QuestionsAreSafe
<1>5. NoneAsks(<<>>, p) /\ AllOpen(<<>>, p)
  BY DEF NoneAsks, AllOpen
<1>6. ASSUME asked[p].at = "idle", NEW x \in Docs
      PROVE  NoneAsks(stored'.turns[x], p) /\ \A s \in Tabs : NoneAsks(turns'[s][x], p)
  BY <1>2, <1>4, <1>5, <1>6 DEF QuestionIsSafe
<1>7. ASSUME NEW s \in Tabs, asked[p].at = "waiting", asked[p].tab = s, NEW x \in Docs
      PROVE  AllOpen(turns'[s][x], p)
  <2>1. AllOpen(turns[s][x], p)
    BY <1>4, <1>7 DEF QuestionIsSafe
  <2>. QED
    BY <1>2, <1>5, <2>1
<1>. QED
  BY <1>2, <1>6, <1>7 DEF QuestionIsSafe, NoneAsks, AllOpen

\* A tab that is reloaded waits for nothing.
LEMMA ReloadKeepsQuestions ==
  ASSUME Types, QuestionsAreSafe, NEW t \in Tabs, Reload(t)
  PROVE  QuestionsAreSafe'
<1>1. /\ turns' = [turns EXCEPT ![t] = stored.turns] /\ stored' = stored
      /\ \A q \in Questions : asked'[q] = Lost(t, asked[q])
  BY DEF Reload, Types, TurnTypes
<1>2. SUFFICES ASSUME NEW p \in Questions
               PROVE  QuestionIsSafe(p)'
  BY DEF QuestionsAreSafe
<1>3. QuestionIsSafe(p) /\ asked[p] \in Question
  BY DEF QuestionsAreSafe, Types, TurnTypes
<1>4. \/ asked'[p] = asked[p] /\ (asked[p].tab # t \/ asked[p].at = "settled")
      \/ asked'[p].at = "lost"
  BY <1>1, <1>3 DEF Lost, Question
<1>5. CASE asked'[p].at = "lost"
  BY <1>5 DEF QuestionIsSafe
<1>6. CASE asked'[p] = asked[p] /\ (asked[p].tab # t \/ asked[p].at = "settled")
  <2>1. ASSUME asked[p].at = "idle", NEW x \in Docs
        PROVE  NoneAsks(stored'.turns[x], p) /\ \A s \in Tabs : NoneAsks(turns'[s][x], p)
    BY <1>1, <1>3, <2>1 DEF QuestionIsSafe, Types, TurnTypes
  <2>2. ASSUME NEW s \in Tabs, asked[p].at = "waiting", asked[p].tab = s, NEW x \in Docs
        PROVE  AllOpen(turns'[s][x], p)
    <3>1. s # t
      BY <1>6, <2>2
    <3>. QED
      BY <1>1, <1>3, <2>2, <3>1 DEF QuestionIsSafe, Types, TurnTypes
  <2>. QED
    BY <1>6, <2>1, <2>2 DEF QuestionIsSafe, NoneAsks, AllOpen
<1>. QED
  BY <1>4, <1>5, <1>6

\* Every step keeps every question safe.
LEMMA StepKeepsQuestions ==
  ASSUME Types, QuestionsAreSafe, [Next]_vars
  PROVE  QuestionsAreSafe'
<1>1. ASSUME NEW s \in Tabs, NEW entries, SetLibrary(s, entries)
      PROVE  stored'.turns = stored.turns
  BY <1>1 DEF SetLibrary, Types, StoredTypes
<1>2. ASSUME NEW t \in Tabs, NEW d \in Docs, UploadStep(t, d) \/ Remove(t, d) \/ StartUpload(t, d)
      PROVE  UNCHANGED <<turns, asked>> /\ stored'.turns = stored.turns
  <2>1. UNCHANGED <<turns, asked>>
    BY <1>2 DEF UploadStep, Uploaded, UploadFails, SaveBlob, SaveFails, StageCompleted, Prepared,
       StageFails, Remove, StartUpload
  <2>2. stored' = stored \/ \E entries : SetLibrary(t, entries)
    BY <1>2 DEF UploadStep, Uploaded, UploadFails, SaveBlob, SaveFails, StageCompleted, Prepared,
       StageFails, Remove, StartUpload, SetStatus, SetPipelineStage
  <2>. QED
    BY <1>1, <2>1, <2>2
<1>3. ASSUME NEW d \in Docs, Ingest(d) \/ RunStage(d)
      PROVE  UNCHANGED <<turns, asked>> /\ stored'.turns = stored.turns
  BY <1>3 DEF Ingest, RunStage, client
<1>4. ASSUME NEW t \in Tabs, Navigate(t)
      PROVE  UNCHANGED <<turns, asked>> /\ stored'.turns = stored.turns
  BY <1>4 DEF Navigate
<1>5. UNCHANGED vars => UNCHANGED <<turns, asked>> /\ stored'.turns = stored.turns
  BY DEF vars, client
<1>. QED
  BY <1>2, <1>3, <1>4, <1>5, OtherStepsKeepQuestions, AskKeepsQuestions, SettleKeepsQuestions,
     ClearKeepsQuestions, ReloadKeepsQuestions DEF Next

\* A turn that is settled keeps its place and its outcome, whatever answers come
\* late, until the conversation is cleared or the tab loaded again; and only the
\* mutation that asked it settles it (the setters of the conversation store).
THEOREM SettledRemains == Spec => SettledTurnsStay
<1>1. Init => QuestionsAreSafe
  BY DEF Init, NoTurns, QuestionsAreSafe, QuestionIsSafe, NoneAsks
<1>2. ASSUME Types, QuestionsAreSafe, [Next]_vars, NEW t \in Tabs, NEW d \in Docs,
             NEW k \in DOMAIN turns[t][d]
      PROVE  \/ Reload(t) \/ Clear(t, d)
             \/ k \in DOMAIN turns'[t][d] /\ turns'[t][d][k] = turns[t][d][k]
             \/ turns[t][d][k].status = "pending" /\ Settle(t, turns[t][d][k].id)
  <2>0. /\ turns \in [Tabs -> Turns] /\ \A s \in Tabs : turns[s] \in Turns
        /\ turns[t][d] \in Seq(Turn)
    BY <1>2 DEF Types, TurnTypes, Turns
  <2>1. ASSUME NEW s \in Tabs, NEW conversations, SetTurns(s, conversations)
        PROVE  turns'[t] = IF s = t THEN conversations ELSE turns[t]
    <3>1. turns' = [turns EXCEPT ![s] = conversations]
      BY <2>1 DEF SetTurns
    <3>. QED
      BY <2>0, <3>1
  <2>2. ASSUME turns'[t][d] = turns[t][d]
        PROVE  k \in DOMAIN turns'[t][d] /\ turns'[t][d][k] = turns[t][d][k]
    BY <2>2
  <2>3. ASSUME NEW s \in Tabs, NEW x \in Docs, NEW q \in Questions, Ask(s, x, q)
        PROVE  k \in DOMAIN turns'[t][d] /\ turns'[t][d][k] = turns[t][d][k]
    <3>1. SetTurns(s, [turns[s] EXCEPT ![x] = Append(@, [id |-> q, status |-> "pending"])])
      BY <2>3 DEF Ask
    <3>2. CASE s = t /\ x = d
      <4>1. turns'[t][d] = Append(turns[t][d], [id |-> q, status |-> "pending"])
        BY <2>0, <2>1, <3>1, <3>2 DEF Turns
      <4>. QED
        BY <2>0, <4>1, AddedTurn
    <3>3. CASE ~(s = t /\ x = d)
      <4>1. turns'[t][d] = turns[t][d]
        BY <2>0, <2>1, <3>1, <3>3 DEF Turns
      <4>. QED
        BY <4>1
    <3>. QED
      BY <3>2, <3>3
  <2>4. ASSUME NEW s \in Tabs, NEW q \in Questions, Settle(s, q)
        PROVE  \/ k \in DOMAIN turns'[t][d] /\ turns'[t][d][k] = turns[t][d][k]
               \/ turns[t][d][k].status = "pending" /\ Settle(t, turns[t][d][k].id)
    <3>1. PICK status \in {"complete", "failed"} :
            SetTurns(s, [turns[s] EXCEPT ![asked[q].doc] = SettleTurn(@, q, status)])
      BY <2>4 DEF Settle
    <3>2. CASE s = t /\ asked[q].doc = d
      <4>1. turns'[t][d] = SettleTurn(turns[t][d], q, status)
        BY <2>0, <2>1, <3>1, <3>2 DEF Turns
      <4>2. k \in DOMAIN turns'[t][d] /\ (turns[t][d][k].id # q => turns'[t][d][k] = turns[t][d][k])
        BY <2>0, <4>1, SettledTurn
      <4>3. turns[t][d][k].id = q => turns[t][d][k].status = "pending"
        BY <1>2, <2>4, <3>2 DEF QuestionsAreSafe, QuestionIsSafe, AllOpen, Settle
      <4>. QED
        BY <2>4, <3>2, <4>2, <4>3
    <3>3. CASE ~(s = t /\ asked[q].doc = d)
      <4>1. turns'[t][d] = turns[t][d]
        BY <2>0, <2>1, <3>1, <3>3 DEF Turns
      <4>. QED
        BY <4>1
    <3>. QED
      BY <3>2, <3>3
  <2>5. ASSUME NEW s \in Tabs, NEW x \in Docs, Clear(s, x)
        PROVE  Clear(t, d) \/ turns'[t][d] = turns[t][d]
    <3>1. SetTurns(s, [turns[s] EXCEPT ![x] = <<>>])
      BY <2>5 DEF Clear
    <3>2. (s = t /\ x = d) \/ turns'[t][d] = turns[t][d]
      BY <2>0, <2>1, <3>1 DEF Turns
    <3>. QED
      BY <2>5, <3>2
  <2>6. ASSUME NEW s \in Tabs, Reload(s)
        PROVE  s = t \/ turns'[t][d] = turns[t][d]
    BY <2>0, <2>6 DEF Reload
  <2>7. ASSUME turns' = turns
        PROVE  turns'[t][d] = turns[t][d]
    BY <2>7
  <2>8. ASSUME NEW x \in Docs, Ingest(x) \/ RunStage(x)
        PROVE  turns' = turns
    BY <2>8 DEF Ingest, RunStage, client
  <2>9. ASSUME NEW s \in Tabs, NEW x \in Docs, StartUpload(s, x) \/ UploadStep(s, x) \/ Remove(s, x)
        PROVE  turns' = turns
    BY <2>9 DEF UploadStep, StartUpload, Uploaded, UploadFails, SaveBlob, SaveFails,
                StageCompleted, Prepared, StageFails, Remove
  <2>10. ASSUME NEW s \in Tabs, Navigate(s)
         PROVE  turns' = turns
    BY <2>10 DEF Navigate
  <2>11. CASE UNCHANGED vars
    BY <2>2, <2>7, <2>11 DEF vars, client
  <2>. QED
    BY <1>2, <2>2, <2>3, <2>4, <2>5, <2>6, <2>7, <2>8, <2>9, <2>10, <2>11 DEF Next
<1>3. Types /\ QuestionsAreSafe /\ [Next]_vars =>
        [\A t \in Tabs, d \in Docs : \A k \in DOMAIN turns[t][d] :
           \/ Reload(t) \/ Clear(t, d)
           \/ k \in DOMAIN turns'[t][d] /\ turns'[t][d][k] = turns[t][d][k]
           \/ turns[t][d][k].status = "pending" /\ Settle(t, turns[t][d][k].id)]_vars
  BY <1>2
<1>. QED
  BY <1>1, <1>3, StepKeepsQuestions, TypeCorrect, TypesByPart, PTL DEF Spec, SettledTurnsStay

=============================================================================
