---------------------------- MODULE WorkspaceState ----------------------------
(***************************************************************************)
(* What the browser and the backend keep while documents are uploaded and  *)
(* asked about.  A browser has several tabs; each has its own copy of the  *)
(* two persisted stores and writes all of it to local storage whenever it  *)
(* changes anything, and reads local storage only when it is loaded.       *)
(* A document has the identity of the one upload it came from.             *)
(***************************************************************************)
EXTENDS Naturals, Sequences

CONSTANTS
  Tabs,
  Docs,        \* documents that may be uploaded
  Questions,   \* ids of conversation turns
  MaxReloads,  \* bound on reloads
  None

ASSUME ReloadsAreBounded == MaxReloads \in Nat
ASSUME NoneIsNoStatus == None \notin {"preparing", "ready", "failed"}
ASSUME NoneIsNoReply  == None \notin {"waiting", "ok", "error"}

\* PREPARATION_SEQUENCE; an upload is what comes before its first stage.
Stages == <<"parsing", "representing", "embedding", "indexing", "graphing">>

VARIABLES
  raw,       \* per document, the files ingestion wrote
  done,      \* per document, how many stages completed in the backend
  call,      \* per document, its latest request: [stage, reply]
  flow,      \* per document, the mutation of useUploadDocument: [tab, at]
  pdf,       \* documents whose bytes are in IndexedDB
  library,   \* per tab, status of every document in the library or None
  turns,     \* per tab and document, the conversation
  stored,    \* local storage: both stores, as last written
  asked,     \* per question, the mutation of useAskQuestion: [tab, doc, at]
  shown,     \* per tab, the page: a document's workspace, or None for the landing page
  pending,   \* per tab, what the mutation of the mounted page waits for: a document or a question
  reloads    \* reloads so far

backend == <<raw, done, call>>
client  == <<flow, pdf, library, turns, stored, asked, shown, pending, reloads>>
vars    == <<backend, client>>

NoFiles == [pdf |-> "none", metadata |-> "none", status |-> "none"]
AllFiles == [pdf |-> "whole", metadata |-> "whole", status |-> "uploaded"]
NoTurns == [d \in Docs |-> <<>>]
NoEntry == [d \in Docs |-> None]

Init ==
  /\ raw = [d \in Docs |-> NoFiles] /\ done = [d \in Docs |-> 0]
  /\ call = [d \in Docs |-> [stage |-> 0, reply |-> None]]
  /\ flow = [d \in Docs |-> [tab |-> None, at |-> "idle"]]
  /\ pdf = {} /\ library = [t \in Tabs |-> NoEntry] /\ turns = [t \in Tabs |-> NoTurns]
  /\ stored = [library |-> NoEntry, turns |-> NoTurns]
  /\ asked = [q \in Questions |-> [tab |-> None, doc |-> None, at |-> "idle"]]
  /\ shown = [t \in Tabs |-> None] /\ pending = [t \in Tabs |-> None] /\ reloads = 0

\* set() of a persisted store: the tab's whole state goes to local storage.
SetLibrary(t, entries) ==
  /\ library' = [library EXCEPT ![t] = entries]
  /\ stored' = [stored EXCEPT !.library = entries]

SetTurns(t, conversations) ==
  /\ turns' = [turns EXCEPT ![t] = conversations]
  /\ stored' = [stored EXCEPT !.turns = conversations]

Entered(t, d) == library[t][d] # None

\* The workspace of a document is mounted only if it is ready.
Mounted(t, d) == shown[t] = d /\ Entered(t, d) /\ library[t][d] = "ready"

\* The tab shows page p; what the page before mounted is unmounted.
Show(t, p) ==
  /\ shown' = [shown EXCEPT ![t] = p]
  /\ pending' = [pending EXCEPT ![t] = IF shown[t] = p THEN @ ELSE None]

\* The mutation of the tab for x is over.
Over(t, x) == pending' = [pending EXCEPT ![t] = IF @ = x THEN None ELSE @]

=============================================================================
