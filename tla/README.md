# Knowledge-Infused Multimodal RAG: formal models

TLA+ models of the program in `src/`, the TLC configurations that check them on
small instances, and proofs that TLAPS checks for every instance. Line
references are to `src/`.

## 1. The system

A PDF is uploaded, parsed, turned into a knowledge representation (chunks and
relationships), embedded, indexed in Qdrant and planned into a Neo4j graph;
questions are then answered from what retrieval finds in the two stores. Every
stage is a REST call of its own (`backend/api/routes`). The routes are `async`
functions that call synchronous services, and `main.py` starts `uvicorn.run`
without workers, so **one process runs one handler at a time**;
`docs/SYSTEM_DESIGN.md:74` also allows several instances behind a load balancer,
and then handlers of different processes interleave at every file and store
access. There are no locks, no transactions over files, no queue.

| Component (source) | State it keeps | Operations | Hard behaviour | What makes it correct |
|---|---|---|---|---|
| Workspace storage (`backend/storage`) | a directory per document, JSON and PDF files | create, read, write (truncate, then write) | a process that dies in a write; check-then-create | a truncated file reads as an error, never as data |
| Ingestion (`backend/ingestion`) | `original.pdf`, `status.json` | upload, mark failed, status | a crash between the two files | a document with a status has its bytes |
| Parser (`backend/parser`) | `paper.json` and five files more, one per kind of entity | parse: convert, title, sections from a stack of open headings, abstract, references, placement, validation, six writes | headings of any level in any order; a write that fails between two others; failure between parse and status | the sections are a tree in the order of the headings; no text is lost; parsed exactly when the status says so |
| Knowledge builder (`backend/chunking/builder`, `strategies`) | none | reading order; merge, split and flush paragraphs; a unit per figure, table and reference; detect relationships; validate | two word limits at once; citations and figure mentions across a split; columns | every text is in one place, parts are bounded, mentions are linked, order is the document's |
| Knowledge representation (`backend/chunking/services`) | `knowledge_units.json`, `relationships.json` | represent: new chunk ids on every call, two writes | a crash or another call between the writes | nobody derives data from a mixed pair |
| Embedding (`backend/embeddings`) | `embeddings.json`, `manifest.json` | embed (`?force=`): freshness check, batches, two writes | representation changes between two reads; failing batches; crash between the writes | a fresh manifest is right about the artifacts |
| Indexing (`backend/search`) | Qdrant points, `index_manifest.json` | index (`?force=`): six reads, batched upserts, verification, manifest | artifacts change between reads; retried, failed and half-applied batches; points are never deleted | a fresh manifest is right about Qdrant |
| Knowledge graph (`backend/graph`) | the document's Neo4j subgraph, `graph_manifest.json` | build (`?force=`): hash, read, validate, replace in one transaction, manifest | the pair of files changes between hash and read; crash between store and manifest | no dangling edges; a fresh manifest is right about Neo4j |
| Retrieval (`backend/retrieval`) | none (one manifest written) | generate and expand candidates, evaluate, assemble | budgets of a breadth-first search; evidence and provenance of different runs | evidence is bounded, unique, and of the document |
| Generation (`backend/generation`) | none (one manifest written) | plan, fit context, prompt, call the model, ground, cite, format | budgets; model failures and retries; claims without evidence | cited evidence was in the prompt |
| Evaluation (`backend/evaluation`) | `benchmark.json`, `.md`, `.html` per run, `latest.json` | benchmark a dataset: load the baseline, run the cases, aggregate, compare, save; latest report | failing cases; a death between the summary and the pointer; two instances | the pointer leads to a complete summary; comparisons are fair |
| Frontend (`frontend/`) | document library, conversations, pending questions in local storage | upload and prepare, ask, remove, reload | timeouts racing the backend; reload in the middle; documents removed while pending | no entry waits for ever |

## 2. Modules

| Module | Models | Lines of the source |
|---|---|---|
| `PipelineState` | the shared files, stores and per-instance handler; torn writes; `Abort` (raise or die anywhere) | `storage/local_filesystem.py`, the artifact and manifest models |
| `RepresentStage` | `POST /represent` | `chunking/services/knowledge_representation_service.py` |
| `EmbedStage` | `POST /embed` | `embeddings/services`, `embeddings/repository` |
| `IndexStage` | `POST /index` | `search/services`, `search/repository`, `search/validator`, `search/providers` |
| `GraphStage` | `POST /graph` | `graph/services`, `graph/repository`, `graph/validator`, `graph/providers` |
| `DocumentPipeline` | composes the four stages; properties; refinement mappings; retrying clients | `api/routes/indexing.py` |
| `DerivedArtifact` | abstract specification of "an artifact and the claim that it is current" | - |
| `PipelineInvariant` | the inductive invariant of one process | - |
| `GraphPlan` | the graph planned for a representation | `graph/planner`, `graph/builders` |
| `GraphExpansion` | the bounded breadth-first search of retrieval, one action per loop iteration | `retrieval/expansion`, `retrieval/providers` |
| `EvidenceEvaluation` | the four signals and their rank fusion | `retrieval/evaluation` |
| `Retrieval` | `retrieve()` as the composition of its phases, assembly, the properties | `retrieval/services`, `candidate`, `assembly`, `validation` |
| `MCRetrieval` | small documents and settings for `Retrieval` | - |
| `ContextFitting` | which evidence fits the token budget, and the validator's own estimate | `generation/context`, `generation/prompt` |
| `AnswerGrounding` | verdicts on claims, citations, the status and the limitations of an answer | `generation/grounding`, `citations`, `quality`, `planner` |
| `Generation` | `generate()` phase by phase, its properties | `generation/services`, `planner`, `vision`, `providers`, `formatting`, `validation` |
| `WorkspaceState` | the stores of every tab, local storage, the requests and mutations under way, the backend's files | `frontend/store` |
| `Ingestion` | `POST /documents` with every way it can fail; which stages completed | `ingestion/service.py`, `parser/services` |
| `UploadFlow` | `useUploadDocument`, `prepareDocument`, the library store | `frontend/hooks`, `frontend/services`, `frontend/lib` |
| `Conversation` | `useAskQuestion`, the conversation store and its panel | `frontend/hooks`, `frontend/store`, `frontend/components/conversation` |
| `Workspace` | composes them; navigation, reloads, fairness, properties | `frontend/app`, `frontend/components` |
| `MCWorkspace` | names for TLC | - |
| `PaperParsing` | `POST /parse` from what Docling returns to the last file: one action per item and per write | `parser/mapper`, `parser/validator`, `parser/services`, `parser/providers` |
| `ParagraphSplitting` | merging of short blocks, splitting of long ones at sentences, overlap | `chunking/strategies/paragraph_strategy.py` |
| `ChunkBuilding` | `KnowledgeBuilder.build`: reading order, the walk with its paragraph buffer, the units, the relationships, the validator | `chunking/builder`, `chunking/strategies`, `chunking/validator` |
| `GraphValidation` | what the graph stage's validator accepts, over `GraphPlan` | `graph/validator/graph_validator.py` |
| `Knowledge` | a parse and a represent call one after the other; what the chunks and their graph owe to the document | - |
| `MCKnowledge` | four families of documents for `Knowledge` | - |
| `BenchmarkMetrics` | the metrics of an answer, their means, and the classification of a change as regression or improvement | `evaluation/metrics`, `evaluation/benchmark/regression.py` |
| `Evaluation` | `POST /evaluation/run` on instances that share the directory of the runs, one action per access to a file and per case | `evaluation/services`, `benchmark`, `repository`, `datasets`, `validation` |
| `MCEvaluation` | two cases and three answers for `Evaluation` | - |
| `MCGeneration` | bundles around the budget and answers for `Generation` | - |
| `MCPipeline` | instantiates `PipelineInvariant` for TLC | - |
| `PipelineProofs` | theorems for any number of processes, and for one, whose graph and embed stages implement `DerivedArtifact` | - |
| `WorkspaceProofs` | theorems of `Workspace` for any number of tabs, documents and questions | - |
| `ParagraphProofs` | facts about `ParagraphSplitting` for any text | - |
| `KnowledgeProofs` | theorems of `Knowledge` for any document | - |
| `RetrievalProofs` | theorems of `Retrieval` for any document and any limits | - |
| `GenerationProofs` | theorems of `Generation` for any bundle, question and answer | - |
| `EvaluationProofs` | theorems of `Evaluation` for any number of instances and runs | - |
| `SequenceFolds` | induction over numbers and sequences; what folds, flattening and sorting compute; used by the proofs about data | - |

State and actions follow the code one to one: a variable per file and per store,
a record `job[i]` with the locals of the handler that instance `i` is running,
and one action per access to shared state, named for what the handler does there
(`EmbedStart`, `EmbedBatches`, `WriteArtifacts`, `WriteEmbedManifest`, ...).
Early returns and raised errors are disjuncts that end the handler.

What is abstracted:

- contents are version numbers: a representation is the number of the call that
  minted its chunk ids, an embedding run the number of its call. A content hash
  is the version itself. Missing and truncated both read as 0;
- a write is one step unless the process dies in it; another process reading a
  file that is half written is not modelled;
- the paper has relationships between its chunks, so that two representations
  always differ in `relationships.json`;
- one embedding model and one collection; batches of one chunk (the finest);
- `EmbedStart` and `IndexStart` join the freshness check with the first read: a
  file that changes between the two has the effect of a call with `force`;
- `IndexReadChunks` joins two reads, of which only citation counts would differ.

For retrieval: similarities and lexical overlaps are any values (only their order
counts, and `1 / (1 + depth)` is the depth reversed); fused scores are fixed-point
numbers that know the rounding of a float sum, so that scores a float cannot tell
apart come in either order; the neighbours Neo4j returns for one relationship type
and direction come in any order; Qdrant may hold any of the chunks, so that
seeds without a node and nodes without a point occur. A call runs alone: it writes
only its own manifest.

For generation: a text is its length and which texts contain it; a question is the
markers it matches and its length; the rules of the prompt are their length, by type
of question. A model may give any answer: an answer is the labels each of its claims
cites, whether the words of the evidence under them support the claim, the labels
cited outside of any claim and the identities it cites. Confidence is left out.

For the workspace: a document has the identity of its upload; an entry of the library
is its status, a turn its id and its status; the answer of a question is whether there
is one. The stages of preparation only complete or fail, in any way `DocumentPipeline`
allows and more. A timeout is a failure that may come at any time, also while the
answer is on its way; the backend goes on with a request whose client has given up. A
lost connection shows as failing requests; that TanStack Query pauses mutations
that are started without one is not modelled. Next.js unmounts a page that is left, and
mutations outlive their components. `selected`, panels and names are left out.

For parsing and representation: what Docling finds is a sequence of items (a title, a
heading of some level, a text, a figure, a table, page furniture) from a set of documents. A text is
a sequence of pieces, the parts between two matches of the sentence pattern: its number
of words, whether it ends a sentence, what it cites and mentions, and what it leaves to
the next piece to mention (the "Fig." of "Fig. 2"). Names of headings are known only as far as
they decide something (abstract, references, the title). A bounding box is one number,
page before height, or 0 for none. Images are rendered or not. Authors, page sizes
and the context lines of a unit are left out.

For evaluation: a case is its relevant units and its expected citations, an answer the units
retrieved, those cited, and the counts the metrics use. Metrics are fractions; of the
gain of a rank in NDCG, `1 / log2(rank + 1)`, only its fall is kept (`Gains`, a parameter: in tenths in the run). A unit is
retrieved once, and an answer without a claim, which cannot be scored, ends the run like
any other exception. Latency, memory, CPU,
throughput, the dense comparison, breakdowns by difficulty and category and the
rendering of the reports are left out. A file that is being written is torn, also
to another instance; one whose writer dies stays so.

## 3. Runs

`Instances` is 1 or 2; `Units` is the positions of the chunks. Two chunks are
enough for a partial batch failure and for a strict subset; three representations
and three runs let a manifest be older than the artifacts, which are older than
the source, with one to spare; two faults let a failure hit the recovery from
another. The counters `represented`, `runs` and `faults` are guards, not code:
when they are spent the system may stop, so deadlock is not checked.

| Run | Instance | Shows |
|---|---|---|
| `pipeline_single` | 1 process, 2 chunks, 3 representations, 3 runs, failing batches, 2 deaths, force | every manifest that makes a stage skip is right; the graph never dangles; `Invariant`; the embed and graph stages implement `DerivedArtifact` |
| `pipeline_stable` | 2 processes, 1 representation, 3 runs, 1 death, force | with a representation that does not change, two processes may race embed, index and graph: the graph stays right and verification never fails spuriously |
| `pipeline_retry` | 1 process, 3 representations, 2 deaths | `RetriesHeal`: retries bring everything up to date for good |
| `reindex_after_represent` | 1 process, no fault | **finding**: represent, embed and index a second time and indexing can no longer verify, because old points are never deleted |
| `embed_while_representing` | 2 processes | **finding**: the embedding manifest can vouch for embeddings of older chunks, and the stage is then skipped |
| `retrieval` | documents of 3 to 5 chunks, 7 settings | paths are traversals; limits hold; a search that reports no cut is complete and its paths are shortest; dominance decides the ranking; every candidate is in one group or dropped for a limit |
| `generation` | bundles of 0 to 3 texts, default settings | what is left out of the context is redundant or too long; a fitted context makes an accepted prompt when the reserve is respected; the final checks never fail; status, limitations and evidence agree |
| `workspace` | 2 tabs, 1 document, 2 questions, 2 reloads | uploads are whole before anything relies on them; ready means prepared; removed documents and settled turns are left alone by late answers; what is under way ends |
| `document_overwritten` | 2 tabs, a document each | **finding**: a tab overwrites what another has stored, and the document is lost with the next reload |
| `knowledge` | four families of documents, limits of 2 and 4 words | sections nest as a table of contents does; no text is lost or shown twice; parts are within their limits when they can be; citations and mentions are linked across splits; one column keeps its order; no validator refuses what the stages before it make |
| `columns_interleaved` | a page of two columns | **finding**: the columns are interleaved line by line |
| `evaluation` | 2 instances, 2 runs, datasets of 0 to 2 cases, 3 answers | whatever dies and whoever interleaves, the pointer leads to a complete summary that accounts for every case; a report has no false regression and no false improvement |

The documents of `retrieval` have cycles, citations, a figure mentioned from another
section and chunks without section; between them its settings reach every limit and
none. Five candidates are the fewest with which a candidate can be ranked below one
that the search reached from it, which is when claimed evidence is tested.
A call ends with a bundle or an exception, so deadlock is not checked.

The lengths of `generation` are around the default budget of 6280 tokens: a text that
fills it, one that exceeds it, several that leave room for a small one only, texts
shorter than a token; the lengths of the rules are those of the prompt. Three texts
are the fewest in which one that is too long comes between two that fit. Two claims
with shown, unknown or no labels give every verdict and every mixture of two.

Two tabs and two reloads are enough for a tab to overwrite, load and overwrite again
what another stored, with one state in between; two questions to be open at once in one
conversation (the question box is free again after leaving and coming back). Documents
share nothing but the page that is shown and local storage: navigation to and from the
landing page stands for the first, `document_overwritten` has two for the second.

The four families of `knowledge` (`AllDocuments`) are: headings of three levels, the
abstract and the references in every order of four, and documents without a title;
runs of three paragraphs below, at and above both limits, some ending in mid-sentence
(two can be merged while a third is to be flushed); paragraphs that cite and mention, figures and a table in every
order of three, before five bibliographies that are numbered or not; pages of four items with and without
boxes. `MinWords` is 2 and `MaxWords` 4, the smallest limits with room for a block that is under, one that is
between and one that is over both, and for a sentence that is over by itself. A refused paper ends the call, so deadlock is
not checked.

Two instances with a run each are the fewest in which one instance reads the pointer
that the other is writing, and a baseline is complete, torn, missing or gone stale; two cases
give runs in which one fails and the other does not. An instance may stop anywhere.

Fairness of `Workspace`: a request ends with its answer or its timeout, a transaction of
IndexedDB with completion or an error, so every step of a mutation that is under way is
weakly fair. Nothing is assumed of users or of the backend. Deadlock is not checked: when
all is asked and uploaded and no reload is left, a browser with an unready document may
stop.

Fairness of the pipeline (`RetryFairness`). A handler that has started runs to its end (weak
fairness: it is synchronous code in a live process). Each stage is called again
and again by the client (strong fairness: a stage is only callable while the
process is idle). `RetryNext` restricts clients to calls without `force` and to
calling represent only while the representation on disk is incomplete; without
that restriction a client may represent for ever, or run into
`reindex_after_represent`. Deaths are bounded by `MaxFaults`, so eventually none
happens.

Observations that are not findings, because no text of the repository claims
otherwise:

- a *forced* embed that dies while it writes `embeddings.json` leaves a fresh
  manifest beside an unreadable file: plain retries skip embedding and indexing
  fails until a call with force;
- two processes that represent at once can leave the chunks of one and the
  relationships of the other, both reporting success; the graph stage then
  refuses (`GraphNeverDangles`) until represent is called again;
- `ExpansionResult.budget_exhausted` is documented as `None` when the frontier was
  exhausted; it is also `None` when the depth limit or a node's neighbour limit cut
  the search, which is why `UncutSearchIsComplete` speaks of the depth and assumes the
  neighbour limit out of the way; and the cost limit is tested between nodes, so it
  is exceeded by the neighbours of one node (`WithinLimits`);
- the reason "not selected: outranked by claimed evidence" of `assemble()` is never
  given (`CandidatesAreAccountedFor`);
- the reserve for "everything in the prompt that isn't evidence" is 512 tokens, but the
  rules for questions about figures take 624 and those about tables 557: evidence
  that fills its budget makes such a question fail (`TokenBudgetExceededError`), which is
  why `FittedPromptsAreSent` speaks of rules that fit in the reserve;
- a text is left out as redundant because a longer one contains it, and the longer one
  may then be left out as too long: neither is shown, although the shorter would fit
  (`ContextIsMaximal` allows it);
- without evidence the prompt is refused, so the status "insufficient evidence" and the
  rule for prompts without evidence are never used;
- an upload whose bytes cannot be saved in IndexedDB (`savePdfBlob` is outside of the
  `try`), and every upload or question under way when the page is reloaded, leaves an
  entry in preparation or a turn pending for ever: nothing resumes or fails it;
  `PreparationEnds` and `QuestionsEnd` except both;
- the comment "Duplicate submissions are prevented by the mutation's own pending state"
  (`use-ask-question.ts:11`) holds while the panel stays mounted: after navigating away
  and back a second question can be sent while the first is open;
- a document that becomes ready opens itself, whatever the user is doing, and also after
  it was removed;
- `DroppedAreExcluded` (`Retrieval`), what `retrieval_trace.py:30` says of a dropped candidate, is
  refuted by TLC with five chunks and one primary per section: `evidence_assembler.py:94` drops a
  candidate that a later group then claims as supporting, so a candidate is reported as excluded from the
  bundle that contains it;
- `VisionNeverFailsTheAnswer` (`Generation`), after `docs/ARCHITECTURE.md:300`, is refuted on the instance of
  `generation`: the description of a figure is added after fitting
  (`generation_service.py:136`), which can make the prompt too long and the question fail;
- with two processes the checksum of the index manifest can be of artifacts that were not
  indexed (`indexing_service.py:174` hashes again what was read before the upserts; `manifest.py:29` says
  otherwise): `ChecksumIsOfIndexedArtifacts` is checked and proved for one process only;
- a part may exceed `max_words` although none of its sentences does: the sentence repeated from the
  part before and the next one may do so together (`PartsAreBounded` allows it);
- `re.IGNORECASE` makes the Roman numerals of figure and table numbers match in lower case too
  (`numbering.py:17`), "[1, 2]" is not detected as a citation, and when text stands before the first
  bracket of the references, "[1]" resolves to that text (`MentionsAreLinked` speaks of bibliographies that
  start with a bracket);
- without a title the first heading serves as one, also if it reads "Abstract", whose text then
  stands in the body; a deeper heading after "References" (an appendix) is dropped and its text becomes part of the
  bibliography; a paper with nothing but abstract and references is refused as empty;
- a represent call after an interrupted parse can make chunks whose image file is missing;
- a torn `latest.json` raises an error that nothing catches and ends every later run and report
  until the file is removed;
- a run whose every case failed becomes the baseline of the next, with empty aggregates, and no
  regression can be seen against it; one whose report could not be written becomes it too;
- with a baseline of zero the threshold of a change is 0.0005, not the documented 0.01
  (`regression.py:24`, `:159`, `:175`), and 5 % of the baseline is not the same threshold in both directions, so a change may
  be a regression one way and no improvement the other;
- runs with different failed cases are compared over different samples: only the version of the
  dataset must match. `ReportsAreFair` speaks of runs that completed the same cases;
- an exception in a case that is neither `RetrievalError` nor `GenerationError` ends the run;
- with two instances the baseline of a report need not be the latest run when it is saved;
- with two processes and two representations `FreshGraphIsCurrent` fails: a
  build overtaken by another and by a represent call records its own hash last.
  The runs therefore check it with one process, and with two on a document that
  is represented once.

## 4. Proofs

Assumptions on the constants: `BoundsAreNatural`, `UnitsAreFinite`,
`SwitchesAreBoolean` (`PipelineState`); the single-process theorems also assume
`SingleInstance`. No bound on any constant is assumed.

The pipeline (`PipelineProofs`). For any number of processes:

- `TypeCorrect`: `Spec => []TypeOK`, one lemma per stage;
- `GraphSafe`: `Spec => []GraphNeverDangles`. A handler at `graph.replace` holds a
  pair the validator passed, in locals that no other process can touch;
- `IndexingSucceeds`: `Spec => []IndexingVerifies` for a document that is represented once and whose
  batches do not fail (`Stable`). The invariant `AllIndexed` says that whoever embeds or
  indexes has all the chunks in hand and that points are never taken from the store.
  `reindex_after_represent` shows that the first hypothesis is needed.

For one process the promises are not inductive, and the
strengthening is `PipelineInvariant!Invariant`, proved in a chain in which each
link uses the ones before:

1. `VersionsAreOrdered`: what represent is about to write is newer than anything
   recorded, so a manifest that is stale never matches again;
2. `GraphPartHolds`, `EmbedPartHolds`: a running graph or embed call works on the
   files as they are, hence its manifest is true of what it just wrote;
3. `RunsAreOrdered`: runs are numbered in the order they write, and a manifest with the
   number of the artifacts beside it records the representation they embed;
4. `IndexPartHolds`: what an indexing call has upserted is in the store as built, and
   when it verified, nothing else is.

The theorems `FreshGraphs`, `FreshEmbeddings`, `FreshIndexes`, `ChecksumsAreOfIndexedArtifacts` and
`SingleProcess` follow.

From the same invariant it is proved that in one process the graph stage and the embed stage implement
`DerivedArtifact` (`GraphImplements`, `EmbeddingImplements`): one lemma per stage says which
abstract action, or a stutter, each of its steps maps to. `ChangeSource` is where
`VersionsAreOrdered` is needed, `Derive` and `Certify` where the running call's locals are. What the abstract
specification promises follows for both (`GraphClaimIsTrue`, `EmbeddingClaimIsTrue`).

For the workspace (`WorkspaceProofs`; assumptions `ReloadsAreBounded`, `NoneIsNoStatus`,
`NoneIsNoReply`): any number of tabs, documents and questions.

- `TypeCorrect`; `UploadsComplete` and `ReadyPrepared`, from two invariants over
  document by document and tab by tab: `UploadIsSafe` (the status file is written
  after the bytes, and whoever knows a document got its id from a completed upload) and
  `PreparationIsSafe` (a mutation that has come to stage *s* has seen the stages before it completed,
  and stages are never undone, so late and repeated answers do no harm);
- `RemovedRemains`: the setters change entries that are there;
- `SettledRemains`, from `QuestionIsSafe`: two mutations never ask the same turn, and
  a mutation that still asks has a turn that is pending in its tab or was cleared there.

For parsing and representation (`KnowledgeProofs`; assumptions `DocumentsAreSequences`,
`PiecesHavePlaces`, `WordLimitsAreNatural`): any documents, any word limits. `PiecesHavePlaces` only
says that the pieces of a document are told apart.

- `TypeCorrect`: every entity is an item of the document;
- `SectionsNested`: `SectionsAreNested` is not inductive without the stack of open sections. The invariant
  says that the stack rises in rank and in order (`OpenAreOrdered`), that a section that was
  closed lies between two open ones and is of no higher rank than the lower of them
  (`ClosedBetween`, `ClosedLast`), so popping it gives the next heading its parent;
- `HierarchyAccepted`: the hierarchy validator never refuses;
- `ContentIsPlaced`: what the mapper places is a paragraph that is not blank, a table or a figure;
- `ValidatorsNeverRefuse`: `ValidatorsAccept`, for the three validators. The invariant `BuildIsSound` says
  what the builder has made so far is well formed (`BuildIsTyped`) and that no relationship is there twice.
  The walk over the sections ends, and lists placed items only, because a section comes after its parent
  (`DepthFirstIsSeq`, from `SectionsNested`); merging and splitting make parts that are not blank
  (`MergeIsTyped`, `SplitIsTyped`); a flush links only chunks that are new (`FlushedLinksAreNew`); and the references
  detected for a chunk go to different chunks, and are of other types than the links before
  (`DetectedIsTyped`). `GraphIsAccepted` is then about the plan alone: the endpoints of its edges are nodes,
  chunks and sections are tied to the document, and as many relationships are projected as were found;
- `TextIsKept`: `NoTextIsLost`, along the way of a text from the document to the chunks:
  1. `TextStaysDivided`: the mapper puts every block in the abstract, the bibliography or the body, once;
  2. `ReadingOrderIsWhole`: the reading order has every placed item once, because the depth-first visit
     goes down the table of contents (`VisitGoesDown`) and so comes to every section and to none twice;
  3. `PartsAreWhole` (`ParagraphProofs`): what is cut before sentences is the text (`CutIsWhole`), merging
     and splitting keep the pieces in order, and a part after the first begins with a sentence
     that the part before ends with and that is a sentence of the part too (`FirstSentence`), so leaving it out
     leaves what the part adds (`FreshIsOwn`);
  4. `FlushShows`: a flush therefore adds the text of the buffer to what the chunks show, since the
     links it makes are to its own chunks and say which of them begin with a repeated sentence;
  5. `TextIsAccounted`, the inductive invariant: what the chunks show is the text of a sequence of items, and these,
     the buffer, what is to do and the bibliography until it is used share no item and have every block
     among them. At the end nothing waits, and the first four facts make it `NoTextIsLost`.
- `SingleColumnsStayInOrder`: `SingleColumnsKeepTheirOrder`. What is placed later belongs to the same section or a
  later one (`PlacedInOrder`), and the depth-first visit goes down the sections in the order in which they were made, so in one
  column the reading order is that of the document (`ReadingOrderGoesDown`). The inductive invariant
  `OrderIsKept` says that the chunks so far begin in order, that the buffer and what is to do are in order, and that
  no chunk begins after them. A flush keeps to it because parts begin in the order of the text (`PartsBeginInOrder`): a
  part after the first begins with the last sentence of the part before it (`SplitOverlaps`), so no earlier than that part
  and no later than what follows.
- `PartsStayBounded`: `PartsAreBounded`. Words are counted piece by piece, so a text has those of its two halves
  (`WordsOfConcat`). A part of a block is a row of sentences, and one over the limit has one, or two of which
  the first is shared (`LimitedPart`, `SplitStepIsLimited`), so it adds one at most (`LongAddLittle`). What merging
  is done with reaches the floor (`MergedIsEnough`) and a block that is split is too long to be below it, so a part below
  the floor that neither continues nor is continued is the only one of its run (`ShortAreAlone`). The inductive invariant
  `BoundsAreKept` says that the chunks so far keep the bounds, that a link between parts joins
  neighbours (`LinksAreSteps`), and that the buffer is of one section which the last chunk is not a text of (`RunStandsApart`):
  so the chunks of a flush stand apart from those before (`BoundsExtend`);
- `MentionsStayLinked`: `MentionsAreLinked`. A piece and the one after it stand together in some part, however
  paragraphs are merged and blocks split (`PartsKeepNeighbours`): merging separates no neighbours, and splitting only at
  the border of two sentences, where the next part begins with the last sentence of the part before
  (`SplitStepIsTogether`). So what is found in a paragraph, also across two pieces ("Fig. 2"), is found in the text of a chunk
  that has them (`NeighboursAreFound`). The inductive invariant `ContentIsFollowed` says that what was placed waits or is
  among the chunks, neighbours together (`IsAmong`), that every table, figure and reference chunk is what it
  says (`IsGenuine`), and that after the detection everything found in a chunk that has a target is linked to one
  (`FoundIsLinked`; a step of the detection adds no second link to a chunk, but then one is there, `LinkStepLinks`). If anything is
  about what a mention names, the mention has a target and every target of it is about that (`TargetsAreMeant`): for figures and tables the
  first with the number is placed and so among the chunks, and a bibliography that is numbered in order is cut right
  before its numbers (`EntriesBeginWithTheirNumber`).

For retrieval (`RetrievalProofs`; assumptions `NodesAreDistinct`, `CasesHaveLimits`, `CasesAreDocuments`,
`NoneIsNoLimit`, `ScaleIsFine`): any document, any graph of it, any limits.

- `RetrievalIsTyped`; it needs `WorkIsOnPath`: what is still to be expanded was visited, and the
  neighbours still to be looked at are those of the node being expanded;
- `DiscoveriesAreReal`, from `PathsAreSound`: a path is only extended from a node on it to a node
  never visited, so it stays a simple path of the graph (`LongerPathLeads`, `LongerPathIsSimple`);
- `LimitsHold`: the search's limits from `SearchIsBounded` (a node still to expand is nearer to a seed
  than the level allows; a node is only expanded while the cost is below its limit), those of the groups
  from `AssemblyIsSound`. That a document has finitely many chunks is needed for the cost to be a number;
- `UncutSearchesAreComplete`: a search that no limit cut has discovered every chunk within its depth, each by
  a shortest path. The invariant `SearchIsComplete` is that of a breadth-first search: between levels, all
  nodes within so many hops were visited and the frontier is the last level of them (`LevelsAreVisited`); within a
  level, a node of the previous one still waits, or its neighbours were visited or are pending
  (`LevelIsExplored`). It is stated for every function that satisfies the equations of the reference
  `Within` (`Reaches`), which is then shown to be one (`WithinReaches`);
- `StrongerCandidatesComeFirst`: a candidate that is at least as good in every signal and better in one is ranked
  before the other, although the ranks that are fused depend on all the others. A better rank
  changes the fused score by more than the rounding that `Indistinguishable` stands for, which is what
  `ScaleIsFine` says of the fixed-point scale; the ranking keeps to it (`RankingIsFair`);
- `EveryCandidateIsAccountedFor`, from `AssemblyIsSound`: a candidate that was passed is in a group or
  had no room, and a limit that is reached stays reached.

For generation (`GenerationProofs`; assumptions `BundlesAreRetrieved`, `TokensAreNatural`, `NoneIsNothing`,
`SettingsAreMeaningful`): any bundle, question and answer. All follow from `PhasesRelyOn`: what a phase
concluded is about the context and the answer the later ones still use.

- `GenerationIsTyped`;
- `ContextsAreMaximal`: what the folds of `ContextFitting` compute is evidence of the bundle in rank order, no text
  in a longer one shown before it, within the budget, and to which nothing could be added that is not redundant or too
  long (`Optimal`, by induction over the evidence: `Irredundant`, `FilledUp`);
- `PromptsOfFittedContextsAreSent`: with rules and a question that fit in the reserve, the validator's own
  estimate, which rounds once and not per text, stays in the budget;
- `FinalChecksPass`: the consistency checks on the assembled response never refuse it;
- `StatusAndLimitationsAgree`;
- `StatusIsBackedByCitations` and with it `EvidenceBacksEveryStatus`: evidence is shown with every answer, and a
  sufficient one cites it.

For evaluation (`EvaluationProofs`; assumptions `BoundIsPositive`, `DatasetsAreSequences`, `CasesNameUnits`,
`AnswersCanBeScored`, `KValuesArePositive`, `GainsFall`, `FileStatesAreDistinct`): any number of instances, runs
and cases, any cutoffs, any gains that fall with the rank.

- `LatestComplete`: `LatestIsComplete`. The invariant
  adds that a run belongs to one instance, that its results and failures are of the cases looked at so
  far, one each, and that an instance that moves the pointer has completed its summary.
- `ReportsStayFair`: `ReportsAreFair`. An answer that is as good scores no worse in any metric (`ScoresNoWorse`):
  each relevant rank of the other has one for itself that is no later, so the gains are no less
  (`EarlierGainsMore`, by induction over the ranks). Fractions that are added keep their order (`SumsInOrder`) and can be
  added in any order (`ScoreSumTakes`), so results of the same cases, one each, are summed pair by pair (`SumsNoWorse`)
  and the means are no worse; equal means are never marked, also not from zero (`DirectionsAreFair`). The invariant
  `ReportsCompareRuns` says that a run has one result per case, and that the summary an instance compares with is
  complete and stays so while it runs (`CompleteSummariesStand`).

How data is reasoned about. The induction theorems of the library take a predicate as an operator, which the
provers cannot instantiate; `SequenceFolds` states induction over numbers and over sequences with a set
in the place of the predicate, derived from the well-foundedness of `<`, and says what
`FoldLeft` and `FlattenSeq` compute with a function in the place of the
operator (`FoldGoesByElement`, `FlattenByPart`): each proof about a fold defines that function, shows that
it makes steps of the right kind, and cites these facts. For `FoldSet`, whose order is unknown, it says that any
element can be taken first when the steps can change places (`AnyCanBeFirst`). The library's `SortSeq` cannot be expanded by the prover,
so the model sorts by counting (`Ascending`, `InPlace`: the n-th of a set is the one that
n - 1 others come before), and `SortedIsInOrder` says that this lists a finite set in order.

`PlacedAreContent` and `BuildIsSound` hold on the instance of `knowledge` and `Invariant` is checked in
`pipeline_single`; the other invariants that a proof adds are proved only.

Every safety invariant that a passing run checks is proved. Only model-checked: the liveness properties
`RetriesHeal`, `PreparationEnds` and `QuestionsEnd`, which are out of the prover's reach.

## 5. Not modelled

Routing, schemas and exception translation; Docling itself; of the evaluation its command
line, the breakdowns, the measurements of time and memory and the layout of reports; the rendering components of the frontend; the language, vision and
embedding models, and the Qdrant and Neo4j servers beyond what the code relies
on. The components that are planned and not yet modelled are listed in section 6
and, with reasons, in `PROJECT.json`.

## 6. Plan

In this order, the behaviour with most interleaving first:

1. *Done*: the onboarding pipeline, its invariants proved.
2. *Done*: ingestion with the workspace; the parser file by file with the knowledge builder.
3. *Done*: retrieval for one question. Left: evidence and its provenance composed with
   `DocumentPipeline`.
4. *Done*: generation of one answer.
5. *Done*: the workspace, its safety proved. Left: its stages composed with those of
   `DocumentPipeline`.
6. *Done*: evaluation. Left: retrieval and generation in place of any answer.
7. *Done*: the safety invariants of retrieval and generation; that no validator refuses what is built, and that no
   text is lost on the way, a single column keeps its order, parts keep their bounds and mentions are
   followed (section 4).
8. *Done*: that reports are fair (section 4).
9. *Done*: a theorem for every safety invariant that a passing run checks (section 4).
