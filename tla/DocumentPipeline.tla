--------------------------- MODULE DocumentPipeline ---------------------------
(***************************************************************************)
(* Onboarding one document: clients call the represent, embed, index and   *)
(* graph stages in any order and any number of times, with or without      *)
(* force, on any backend instance.                                         *)
(***************************************************************************)
EXTENDS RepresentStage, EmbedStage, IndexStage, GraphStage

Handle(i) == Represent(i) \/ Embed(i) \/ Index(i) \/ BuildGraph(i)

Next == \E i \in Instances : Handle(i) \/ Abort(i)

Spec == Init /\ [][Next]_vars

\* What one complete, undisturbed pass of the four stages leaves.
RepresentationIsComplete == units # 0 /\ relationships = units

AllCurrent ==
  /\ RepresentationIsComplete
  /\ ~EmbeddingIsStale /\ embeddings = [run |-> embedManifest.run, ids |-> ChunksOf(units)]
  /\ ~IndexIsStale /\ Stored = ChunksOf(units)
  /\ graph = [rep |-> units, rel |-> units] /\ graphManifest = graph

\* A client that retries the stages without force, and calls represent again
\* only when it did not end well (an assumption about clients, not about the
\* backend); a handler whose process lives runs to its end.
RetryNext == Next /\ (represented' # represented => ~RepresentationIsComplete)

RetryFairness ==
  \A i \in Instances :
    /\ WF_vars(~At(i, "idle") /\ Handle(i))
    /\ SF_vars(~RepresentationIsComplete /\ RepresentStart(i))
    /\ SF_vars(EmbedStart(i)) /\ SF_vars(IndexStart(i)) /\ SF_vars(GraphStart(i))

RetrySpec == Init /\ [][RetryNext]_vars /\ RetryFairness

\* One backend process, as uvicorn.run starts it.
SingleInstance == \A i, j \in Instances : i = j

-----------------------------------------------------------------------------
(* Invariants.                                                             *)

\* Every file, store and local variable is of its type.
TypeOK ==
  /\ units \in Nat /\ relationships \in Nat
  /\ embeddings \in Artifacts /\ embedManifest \in EmbedManifest
  /\ points \in [ChunkIds -> Point] /\ indexManifest \in IndexManifest
  /\ graph \in Graph /\ graphManifest \in Graph
  /\ job \in [Instances -> Job]
  /\ represented \in 0..MaxRepresentations /\ runs \in Nat /\ faults \in Nat

\* The graph never has an edge to a chunk of another representation, however
\* represent and graph calls interleave and wherever they die: a mixed pair of
\* files is what two racing represent calls, or one that dies between its two
\* writes, leave behind, and the validator is what stops it.
GraphNeverDangles == graph.rep = graph.rel

\* A graph manifest that makes build_graph skip (it records the hash of the
\* representation as it is now) is right: Neo4j holds the graph of exactly
\* that representation.
FreshGraphIsCurrent ==
  graphManifest # NoGraph /\ graphManifest = [rep |-> units, rel |-> relationships]
    => graph = graphManifest

\* An embedding manifest that makes embed_document skip is right about the
\* artifacts beside it, if they can be read: they embed chunks of the current
\* representation, and at least one.
FreshEmbeddingsAreCurrent ==
  ~EmbeddingIsStale /\ embeddings.run # 0
    => embeddings.ids # {} /\ embeddings.ids \subseteq ChunksOf(units)

\* An index manifest that makes index_document skip is right about Qdrant:
\* when the embedding manifest is that of the artifacts beside it, the
\* document's points are points of those artifacts and nothing else, stamped
\* with the representation they embed, and no fewer than were counted.
FreshIndexServesItsArtifacts ==
  ~IndexIsStale /\ embeddings.run = embedManifest.run =>
    /\ \A c \in Stored : /\ c \in embeddings.ids
                         /\ points[c].run = embeddings.run
                         /\ points[c].stamp = c[1]
    /\ indexManifest.count <= Cardinality(Stored)
    /\ indexManifest.count # 0

\* index_manifest.json's checksum is the "hash of the embedding artifacts
\* actually indexed" (IndexManifest's docstring): the one an indexing call is
\* about to record is of the artifacts it read and upserted.
ChecksumIsOfIndexedArtifacts ==
  \A i \in Instances : At(i, "index.write") => job[i].checksum = job[i].run

\* Re-running a stage is safe: an indexing call all of whose batches succeeded
\* finds as many points as it upserted.
IndexingVerifies ==
  \A i \in Instances :
    At(i, "index.upsert") /\ job[i].todo = {} /\ ~PartialFailures => CountMatches(i)

\* "A partial failure part-way through onboarding a document doesn't require
\* manually cleaning up before retrying": wherever handlers raise or die, once
\* they stop doing so plain retries bring every artifact up to date for good.
RetriesHeal == <>[]AllCurrent

-----------------------------------------------------------------------------
(* Refinement: the embed and the graph stage each implement the abstract   *)
(* specification of a derived artifact.                                    *)

EmbeddingOf == INSTANCE DerivedArtifact WITH
  Unreadable <- 0,
  source     <- units,
  derived    <- IF embeddings.run = 0 THEN 0 ELSE (CHOOSE c \in embeddings.ids : TRUE)[1],
  claim      <- embedManifest.rep

\* In one instance the embeddings are a derived artifact of the chunks, and
\* their manifest the claim: its version is only ever that of the artifacts
\* written just before it.
EmbeddingsAreDerived == EmbeddingOf!Spec

GraphPair(g) == IF g.rep = 0 \/ g.rel = 0 THEN NoGraph ELSE g

GraphOf == INSTANCE DerivedArtifact WITH
  Unreadable <- NoGraph,
  source     <- GraphPair([rep |-> units, rel |-> relationships]),
  derived    <- graph,
  claim      <- graphManifest

\* In one instance the graph is a derived artifact of the pair of
\* representation files, and its manifest the claim.
GraphIsDerived == GraphOf!Spec

=============================================================================
