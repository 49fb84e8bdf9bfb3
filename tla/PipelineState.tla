---------------------------- MODULE PipelineState ----------------------------
(***************************************************************************)
(* The state the onboarding stages of ONE document share: the JSON files   *)
(* each stage leaves in its workspace, the document's points in Qdrant and *)
(* its graph in Neo4j, and the request handler each backend instance is    *)
(* running.  A handler is a plain synchronous call, so one instance runs   *)
(* one handler at a time (job); it is split at every read and write of the *)
(* shared state, because another instance may act there and because the    *)
(* process may die there.                                                  *)
(*                                                                         *)
(* Data are version numbers.  A knowledge representation is the number of  *)
(* the represent call that minted its chunk ids (uuid4: never reused), an  *)
(* embedding run the number of the embed call that wrote it.  A file that  *)
(* is missing or truncated reads as number 0: WorkspaceStorage raises a    *)
(* StorageError for both.  The paper has relationships between its units,  *)
(* so relationships.json differs from one representation to the next.      *)
(***************************************************************************)
EXTENDS Naturals, FiniteSets

CONSTANTS
  Instances,            \* backend processes serving requests
  Units,                \* positions of the document's knowledge units
  ForceValues,                \* values of ?force= clients send: {FALSE} or BOOLEAN
  PartialFailures,      \* whether a batch may fail after its retries
  MaxRepresentations,   \* bound: represent calls that reach persistence
  MaxRuns,              \* bound: embed calls that go past the freshness check
  MaxFaults             \* bound: handlers that raise or die half-way

ASSUME BoundsAreNatural ==
  MaxRepresentations \in Nat /\ MaxRuns \in Nat /\ MaxFaults \in Nat

ASSUME UnitsAreFinite == IsFiniteSet(Units) /\ Units # {}

ASSUME SwitchesAreBoolean ==
  PartialFailures \in BOOLEAN /\ ForceValues \subseteq BOOLEAN

VARIABLES
  units,           \* knowledge_units.json: a representation
  relationships,   \* relationships.json: a representation
  embeddings,      \* embeddings.json
  embedManifest,   \* embeddings' manifest.json
  points,          \* Qdrant: what each chunk id's point was built from
  indexManifest,   \* index_manifest.json
  graph,           \* Neo4j: what the document's subgraph was built from
  graphManifest,   \* graph_manifest.json
  job,             \* the handler each instance is running
  represented,     \* number of representations minted so far
  runs,            \* number of embedding runs begun so far
  faults           \* number of handlers that raised or died so far

files  == <<units, relationships, embeddings, embedManifest, indexManifest, graphManifest>>
stores == <<points, graph>>
counts == <<represented, runs, faults>>
vars   == <<units, relationships, embeddings, embedManifest, points, indexManifest,
            graph, graphManifest, job, represented, runs, faults>>

Representations == 1..MaxRepresentations
ChunkIds        == Representations \X Units

\* The chunk ids representation r minted.
ChunksOf(r) == {c \in ChunkIds : c[1] = r}

Artifacts     == [run: Nat, ids: SUBSET ChunkIds]
EmbedManifest == [run: Nat, rep: Nat]
Point         == [run: Nat, stamp: Nat]
IndexManifest == [source: Nat, checksum: Nat, count: Nat]
Graph         == [rep: Nat, rel: Nat]

NoArtifacts     == [run |-> 0, ids |-> {}]
NoEmbedManifest == [run |-> 0, rep |-> 0]
NoPoint         == [run |-> 0, stamp |-> 0]
NoIndexManifest == [source |-> 0, checksum |-> 0, count |-> 0]
NoGraph         == [rep |-> 0, rel |-> 0]

\* Where a handler stands: the read or write it performs next.
RepresentSteps == {"represent.units", "represent.relationships"}
EmbedSteps     == {"embed.version", "embed.artifacts", "embed.manifest"}
IndexSteps     == {"index.manifest", "index.chunks", "index.upsert", "index.source",
                   "index.checksum", "index.write"}
GraphSteps     == {"graph.hash", "graph.units", "graph.relationships", "graph.replace",
                   "graph.write"}
Steps          == {"idle"} \cup RepresentSteps \cup EmbedSteps \cup IndexSteps \cup GraphSteps

\* A handler's local variables; a handler leaves those of other stages at 0.
Job == [at:       Steps,
        rep:      Nat,                \* the units minted (represent) or read (embed, graph)
        rel:      Nat,                \* the relationships read (graph)
        hashed:   Nat,                \* the units whose content hash was taken
        hashedRel: Nat,               \* the relationships whose content hash was taken (graph)
        run:      Nat,                \* this run (embed), the run of the artifacts read (index)
        todo:     SUBSET ChunkIds,    \* points still to upsert (index)
        done:     SUBSET ChunkIds,    \* chunks embedded, points upserted
        source:   Nat,                \* the embedding manifest hashed (index)
        checksum: Nat]                \* the artifacts hashed (index)

Idle == [at |-> "idle", rep |-> 0, rel |-> 0, hashed |-> 0, hashedRel |-> 0, run |-> 0,
         todo |-> {}, done |-> {}, source |-> 0, checksum |-> 0]

Init ==
  /\ units = 0 /\ relationships = 0
  /\ embeddings = NoArtifacts /\ embedManifest = NoEmbedManifest
  /\ points = [c \in ChunkIds |-> NoPoint] /\ indexManifest = NoIndexManifest
  /\ graph = NoGraph /\ graphManifest = NoGraph
  /\ job = [i \in Instances |-> Idle]
  /\ represented = 0 /\ runs = 0 /\ faults = 0

\* The ids of the document's points: what count() with the document_id filter counts.
Stored == {c \in ChunkIds : points[c].run # 0}

\* Instance i is about to perform step s.
At(i, s) == job[i].at = s

\* Handler i goes on; Return(i) ends it, with a response or with an exception.
Continue(i, next) == job' = [job EXCEPT ![i] = next]
Return(i)         == Continue(i, Idle)

\* What a write to file f, begun at step s, may have left when it did not end:
\* write_bytes truncates before it writes, and a truncated document is not JSON.
Torn(i, s, f, none) == IF At(i, s) THEN {f, none} ELSE {f}

(***************************************************************************)
(* A handler raises in the middle (a storage, provider or store error its  *)
(* service does not absorb) or its process dies: the locals are gone, what *)
(* it wrote stays, and the file it was writing may be left truncated.      *)
(***************************************************************************)
Abort(i) ==
  /\ ~At(i, "idle")
  /\ faults < MaxFaults
  /\ faults' = faults + 1
  /\ units' \in Torn(i, "represent.units", units, 0)
  /\ relationships' \in Torn(i, "represent.relationships", relationships, 0)
  /\ embeddings' \in Torn(i, "embed.artifacts", embeddings, NoArtifacts)
  /\ embedManifest' \in Torn(i, "embed.manifest", embedManifest, NoEmbedManifest)
  /\ indexManifest' \in Torn(i, "index.write", indexManifest, NoIndexManifest)
  /\ graphManifest' \in Torn(i, "graph.write", graphManifest, NoGraph)
  /\ Return(i)
  /\ UNCHANGED <<stores, represented, runs>>

=============================================================================
