---------------------------- MODULE PipelineProofs ----------------------------
(***************************************************************************)
(* Proofs about DocumentPipeline, for every document size and bound.       *)
(*                                                                         *)
(* On any number of backend processes: types, that a graph never dangles   *)
(* within one call, and that indexing succeeds when the document is        *)
(* represented once.  On one backend process: the conjuncts of             *)
(* PipelineInvariant are proved inductive one after the other, each from   *)
(* those before it.  From them it follows that the graph stage and the     *)
(* embed stage implement DerivedArtifact: initial states map to initial    *)
(* states, and every step to a step of the abstract specification or to a  *)
(* stutter.                                                                *)
(***************************************************************************)
EXTENDS PipelineInvariant, FiniteSetTheorems, TLAPS

\* A document has finitely many chunk ids, so any set of them has a size.
LEMMA ChunksAreFinite ==
  ASSUME NEW S \in SUBSET ChunkIds
  PROVE  IsFiniteSet(S) /\ Cardinality(S) \in Nat
<1>1. IsFiniteSet(Representations)
  BY FS_Interval, BoundsAreNatural DEF Representations
<1>2. IsFiniteSet(ChunkIds)
  BY <1>1, FS_Product, UnitsAreFinite DEF ChunkIds
<1>. QED
  BY <1>2, FS_Subset, FS_CardinalityType

-----------------------------------------------------------------------------
(* Types.                                                                  *)

\* The initial files, stores and jobs are of their types.
LEMMA InitTypeOK == Init => TypeOK
  BY BoundsAreNatural DEF Init, TypeOK, Idle, Job, Steps, NoArtifacts, NoEmbedManifest, NoPoint,
     NoIndexManifest, NoGraph, Artifacts, EmbedManifest, Point, IndexManifest, Graph

\* A handler that goes on with locals of their types leaves the others' alone.
LEMMA Continued ==
  ASSUME job \in [Instances -> Job], NEW i \in Instances, NEW next \in Job, Continue(i, next)
  PROVE  /\ job' \in [Instances -> Job]
         /\ job'[i] = next
         /\ \A j \in Instances \ {i} : job'[j] = job[j]
  BY DEF Continue

\* An idle handler's locals are of their types.
LEMMA IdleIsJob == Idle \in Job
  BY DEF Idle, Job, Steps

\* A represent call keeps every type.
LEMMA RepresentTypeOK ==
  ASSUME TypeOK, NEW i \in Instances, Represent(i)
  PROVE  TypeOK'
<1>. USE DEF files, stores, counts
<1>0. job[i] \in Job
  BY DEF TypeOK
<1>1. CASE RepresentStart(i)
  <2>1. represented' \in 0..MaxRepresentations /\ represented' \in Nat
    BY <1>1, BoundsAreNatural DEF RepresentStart, TypeOK
  <2>2. [Idle EXCEPT !.at = "represent.units", !.rep = represented + 1] \in Job
    BY IdleIsJob, <2>1, <1>1 DEF Job, Steps, RepresentSteps, RepresentStart
  <2>3. job' \in [Instances -> Job]
    BY <1>1, <2>2, Continued DEF RepresentStart, TypeOK
  <2>. QED
    BY <1>1, <2>1, <2>3 DEF RepresentStart, TypeOK
<1>2. CASE WriteUnits(i)
  <2>1. job' \in [Instances -> Job]
    BY <1>0, <1>2, Continued DEF WriteUnits, TypeOK, Job, Steps, RepresentSteps
  <2>. QED
    BY <1>0, <1>2, <2>1 DEF WriteUnits, TypeOK, Job
<1>3. CASE WriteRelationships(i)
  <2>1. job' \in [Instances -> Job]
    BY <1>3, IdleIsJob, Continued DEF WriteRelationships, Return, TypeOK
  <2>. QED
    BY <1>0, <1>3, <2>1 DEF WriteRelationships, TypeOK, Job
<1>. QED
  BY <1>1, <1>2, <1>3 DEF Represent

\* An embed call keeps every type.
LEMMA EmbedTypeOK ==
  ASSUME TypeOK, NEW i \in Instances, Embed(i)
  PROVE  TypeOK'
<1>. USE DEF files, stores, counts
<1>0. job[i] \in Job
  BY DEF TypeOK
<1>1. CASE EmbedStart(i)
  <2>1. units \in Nat /\ runs + 1 \in Nat
    BY DEF TypeOK
  <2>2. [Idle EXCEPT !.at = "embed.version", !.rep = units, !.run = runs + 1] \in Job
    BY IdleIsJob, <2>1 DEF Job, Steps, EmbedSteps
  <2>3. job' \in [Instances -> Job]
    BY <1>1, <2>2, Continued DEF EmbedStart, TypeOK
  <2>. QED
    BY <1>1, <2>1, <2>3 DEF EmbedStart, TypeOK
<1>2. CASE EmbedBatches(i)
  <2>1. \A ids \in Survivors(job[i].rep) : ids \in SUBSET ChunkIds
    BY DEF Survivors, ChunksOf
  <2>2. job' \in [Instances -> Job]
    BY <1>0, <1>2, <2>1, Continued, IdleIsJob DEF EmbedBatches, TypeOK, Job, Steps, EmbedSteps, Return
  <2>. QED
    BY <1>0, <1>2, <2>1, <2>2 DEF EmbedBatches, TypeOK, Job
<1>3. CASE WriteArtifacts(i)
  <2>1. job' \in [Instances -> Job]
    BY <1>0, <1>3, Continued DEF WriteArtifacts, TypeOK, Job, Steps, EmbedSteps
  <2>. QED
    BY <1>0, <1>3, <2>1 DEF WriteArtifacts, TypeOK, Job, Artifacts
<1>4. CASE WriteEmbedManifest(i)
  <2>1. job' \in [Instances -> Job]
    BY <1>0, <1>4, Continued, IdleIsJob DEF WriteEmbedManifest, TypeOK, Job, Return
  <2>. QED
    BY <1>0, <1>4, <2>1 DEF WriteEmbedManifest, TypeOK, Job, EmbedManifest
<1>. QED
  BY <1>1, <1>2, <1>3, <1>4 DEF Embed

\* An index call keeps every type.
LEMMA IndexTypeOK ==
  ASSUME TypeOK, NEW i \in Instances, Index(i)
  PROVE  TypeOK'
<1>. USE DEF files, stores, counts
<1>0. job[i] \in Job
  BY DEF TypeOK
<1>1. CASE IndexStart(i)
  <2>1. [Idle EXCEPT !.at = "index.manifest", !.run = embeddings.run, !.todo = embeddings.ids] \in Job
    BY IdleIsJob DEF TypeOK, Job, Steps, IndexSteps, Artifacts
  <2>2. job' \in [Instances -> Job]
    BY <1>0, <1>1, <2>1, Continued DEF IndexStart, TypeOK, Job, Steps, IndexSteps
  <2>. QED
    BY <1>0, <1>1, <2>1, <2>2 DEF IndexStart, TypeOK, Job
<1>2. CASE IndexReadManifest(i)
  <2>1. job' \in [Instances -> Job]
    BY <1>0, <1>2, Continued, IdleIsJob DEF IndexReadManifest, TypeOK, Job, Steps, IndexSteps, Return, EmbedManifest
  <2>. QED
    BY <1>0, <1>2, <2>1 DEF IndexReadManifest, TypeOK, Job
<1>3. CASE IndexReadChunks(i)
  <2>1. job' \in [Instances -> Job]
    BY <1>0, <1>3, Continued, IdleIsJob DEF IndexReadChunks, TypeOK, Job, Steps, IndexSteps, Return
  <2>. QED
    BY <1>0, <1>3, <2>1 DEF IndexReadChunks, TypeOK, Job
<1>4. CASE IndexUpsert(i)
  <2>1. BuildPoint(i) \in Point
    BY <1>0 DEF BuildPoint, Point, Job
  <2>2. PICK c \in job[i].todo : Continue(i, [job[i] EXCEPT !.todo = @ \ {c}, !.done = @ \cup {c}])
    BY <1>4 DEF IndexUpsert
  <2>3. [job[i] EXCEPT !.todo = @ \ {c}, !.done = @ \cup {c}] \in Job
    BY <1>0, <2>2 DEF Job
  <2>4. job' \in [Instances -> Job]
    BY <2>2, <2>3, Continued DEF TypeOK
  <2>. QED
    BY <1>4, <2>1, <2>4 DEF IndexUpsert, TypeOK
<1>5. CASE IndexBatchFails(i)
  <2>1. BuildPoint(i) \in Point
    BY <1>0 DEF BuildPoint, Point, Job
  <2>2. job' \in [Instances -> Job]
    BY <1>0, <1>5, <2>1, Continued DEF IndexBatchFails, TypeOK, Job, Steps, IndexSteps
  <2>. QED
    BY <1>0, <1>5, <2>1, <2>2 DEF IndexBatchFails, TypeOK, Job
<1>6. CASE IndexVerify(i)
  <2>1. job' \in [Instances -> Job]
    BY <1>0, <1>6, Continued, IdleIsJob DEF IndexVerify, TypeOK, Job, Steps, IndexSteps, Return
  <2>. QED
    BY <1>0, <1>6, <2>1 DEF IndexVerify, TypeOK, Job
<1>7. CASE IndexHashManifest(i)
  <2>1. job' \in [Instances -> Job]
    BY <1>0, <1>7, Continued, IdleIsJob DEF IndexHashManifest, TypeOK, Job, Steps, IndexSteps, Return, EmbedManifest
  <2>. QED
    BY <1>0, <1>7, <2>1 DEF IndexHashManifest, TypeOK, Job
<1>8. CASE IndexHashArtifacts(i)
  <2>1. job' \in [Instances -> Job]
    BY <1>0, <1>8, Continued, IdleIsJob DEF IndexHashArtifacts, TypeOK, Job, Steps, IndexSteps, Return, Artifacts
  <2>. QED
    BY <1>0, <1>8, <2>1 DEF IndexHashArtifacts, TypeOK, Job
<1>9. CASE WriteIndexManifest(i)
  <2>1. Cardinality(job[i].done) \in Nat
    BY <1>0, ChunksAreFinite DEF Job
  <2>2. job' \in [Instances -> Job]
    BY <1>0, <1>9, <2>1, Continued, IdleIsJob DEF WriteIndexManifest, TypeOK, Job, Return
  <2>. QED
    BY <1>0, <1>9, <2>1, <2>2 DEF WriteIndexManifest, TypeOK, Job, IndexManifest
<1>. QED
  BY <1>1, <1>2, <1>3, <1>4, <1>5, <1>6, <1>7, <1>8, <1>9 DEF Index

\* A graph call keeps every type.
LEMMA GraphTypeOK ==
  ASSUME TypeOK, NEW i \in Instances, BuildGraph(i)
  PROVE  TypeOK'
<1>. USE DEF files, stores, counts
<1>0. job[i] \in Job
  BY DEF TypeOK
<1>1. CASE GraphStart(i)
  <2>1. [Idle EXCEPT !.at = "graph.hash", !.hashed = units] \in Job
    BY IdleIsJob DEF TypeOK, Job, Steps, GraphSteps
  <2>2. job' \in [Instances -> Job]
    BY <1>0, <1>1, <2>1, Continued DEF GraphStart, TypeOK, Job, Steps, GraphSteps
  <2>. QED
    BY <1>0, <1>1, <2>1, <2>2 DEF GraphStart, TypeOK, Job
<1>2. CASE GraphCheckFresh(i)
  <2>1. job' \in [Instances -> Job]
    BY <1>0, <1>2, Continued, IdleIsJob DEF GraphCheckFresh, TypeOK, Job, Steps, GraphSteps, Return
  <2>. QED
    BY <1>0, <1>2, <2>1 DEF GraphCheckFresh, TypeOK, Job
<1>3. CASE GraphReadUnits(i)
  <2>1. job' \in [Instances -> Job]
    BY <1>0, <1>3, Continued, IdleIsJob DEF GraphReadUnits, TypeOK, Job, Steps, GraphSteps, Return
  <2>. QED
    BY <1>0, <1>3, <2>1 DEF GraphReadUnits, TypeOK, Job
<1>4. CASE GraphReadRelationships(i)
  <2>1. job' \in [Instances -> Job]
    BY <1>0, <1>4, Continued, IdleIsJob DEF GraphReadRelationships, TypeOK, Job, Steps, GraphSteps, Return
  <2>. QED
    BY <1>0, <1>4, <2>1 DEF GraphReadRelationships, TypeOK, Job
<1>5. CASE GraphReplace(i)
  <2>1. job' \in [Instances -> Job]
    BY <1>0, <1>5, Continued DEF GraphReplace, TypeOK, Job, Steps, GraphSteps
  <2>. QED
    BY <1>0, <1>5, <2>1 DEF GraphReplace, TypeOK, Job, Graph
<1>6. CASE WriteGraphManifest(i)
  <2>1. job' \in [Instances -> Job]
    BY <1>0, <1>6, Continued, IdleIsJob DEF WriteGraphManifest, TypeOK, Job, Return
  <2>. QED
    BY <1>0, <1>6, <2>1 DEF WriteGraphManifest, TypeOK, Job, Graph
<1>. QED
  BY <1>1, <1>2, <1>3, <1>4, <1>5, <1>6 DEF BuildGraph

\* A handler that raises or dies, with whatever it leaves truncated, keeps every type.
LEMMA AbortTypeOK ==
  ASSUME TypeOK, NEW i \in Instances, Abort(i)
  PROVE  TypeOK'
<1>1. job' \in [Instances -> Job]
  BY IdleIsJob, Continued DEF Abort, Return, TypeOK
<1>2. NoArtifacts \in Artifacts /\ NoEmbedManifest \in EmbedManifest
      /\ NoIndexManifest \in IndexManifest /\ NoGraph \in Graph
  BY DEF NoArtifacts, NoEmbedManifest, NoIndexManifest, NoGraph, Artifacts, EmbedManifest,
         IndexManifest, Graph
<1>. QED
  BY <1>1, <1>2 DEF Abort, Torn, TypeOK, stores

\* Every file, store and local variable keeps its type, on any number of instances.
THEOREM TypeCorrect == Spec => []TypeOK
<1>1. TypeOK /\ [Next]_vars => TypeOK'
  <2>. SUFFICES ASSUME TypeOK, [Next]_vars PROVE TypeOK'
    OBVIOUS
  <2>1. CASE UNCHANGED vars
    BY <2>1 DEF vars, TypeOK
  <2>2. ASSUME NEW i \in Instances, Handle(i) \/ Abort(i) PROVE TypeOK'
    BY <2>2, RepresentTypeOK, EmbedTypeOK, IndexTypeOK, GraphTypeOK, AbortTypeOK DEF Handle
  <2>. QED
    BY <2>1, <2>2 DEF Next
<1>. QED
  BY <1>1, InitTypeOK, PTL DEF Spec

-----------------------------------------------------------------------------
(* What a call of each stage leaves alone, whichever step it is at.        *)

\* Handler i ends or stands at one of its stage's steps; the others stand still.
OnlyMoves(i, steps) ==
  /\ job'[i].at \in {"idle"} \cup steps
  /\ \A j \in Instances \ {i} : job'[j] = job[j]

\* A handler that ends moves nobody else.
LEMMA ReturnMoves ==
  ASSUME TypeOK, NEW i \in Instances, Return(i), NEW steps
  PROVE  OnlyMoves(i, steps)
  BY IdleIsJob, Continued DEF Return, OnlyMoves, TypeOK, Idle

\* A represent call writes the two representation files, and nothing else.
LEMMA RepresentFrame ==
  ASSUME TypeOK, NEW i \in Instances, Represent(i)
  PROVE  /\ OnlyMoves(i, RepresentSteps)
         /\ UNCHANGED <<embeddings, embedManifest, indexManifest, graphManifest, stores, runs, faults>>
<1>. USE DEF files, stores, counts
<1>0. job \in [Instances -> Job] /\ job[i] \in Job
  BY DEF TypeOK
<1>1. CASE RepresentStart(i)
  BY <1>0, <1>1 DEF RepresentStart, Continue, OnlyMoves, Job, Idle, RepresentSteps
<1>2. CASE WriteUnits(i)
  BY <1>0, <1>2 DEF WriteUnits, Continue, OnlyMoves, Job, Idle, RepresentSteps
<1>3. CASE WriteRelationships(i)
  BY <1>3, ReturnMoves DEF WriteRelationships
<1>. QED
  BY <1>1, <1>2, <1>3 DEF Represent

\* An embed call writes the artifacts and their manifest, and nothing else.
LEMMA EmbedFrame ==
  ASSUME TypeOK, NEW i \in Instances, Embed(i)
  PROVE  /\ OnlyMoves(i, EmbedSteps)
         /\ UNCHANGED <<units, relationships, indexManifest, graphManifest, stores, represented, faults>>
<1>. USE DEF files, stores, counts
<1>0. job \in [Instances -> Job] /\ job[i] \in Job
  BY DEF TypeOK
<1>1. CASE EmbedStart(i)
  BY <1>0, <1>1 DEF EmbedStart, Continue, OnlyMoves, Job, Idle, EmbedSteps
<1>2. CASE EmbedBatches(i)
  <2>1. CASE Return(i)
    BY <1>2, <2>1, ReturnMoves DEF EmbedBatches
  <2>2. CASE ~Return(i)
    BY <1>0, <1>2, <2>2 DEF EmbedBatches, Continue, OnlyMoves, Job, EmbedSteps
  <2>. QED
    BY <2>1, <2>2
<1>3. CASE WriteArtifacts(i)
  BY <1>0, <1>3 DEF WriteArtifacts, Continue, OnlyMoves, Job, Idle, EmbedSteps
<1>4. CASE WriteEmbedManifest(i)
  BY <1>4, ReturnMoves DEF WriteEmbedManifest
<1>. QED
  BY <1>1, <1>2, <1>3, <1>4 DEF Embed

\* An index call writes points and the index manifest, and nothing else.
LEMMA IndexFrame ==
  ASSUME TypeOK, NEW i \in Instances, Index(i)
  PROVE  /\ OnlyMoves(i, IndexSteps)
         /\ UNCHANGED <<units, relationships, embeddings, embedManifest, graphManifest, graph, counts>>
<1>. USE DEF files, stores, counts
<1>0. job \in [Instances -> Job] /\ job[i] \in Job
  BY DEF TypeOK
<1>1. CASE IndexStart(i)
  BY <1>0, <1>1 DEF IndexStart, Continue, OnlyMoves, Job, Idle, IndexSteps
<1>2. CASE IndexReadManifest(i)
  <2>1. CASE Return(i)
    BY <1>2, <2>1, ReturnMoves DEF IndexReadManifest
  <2>2. CASE ~Return(i)
    BY <1>0, <1>2, <2>2 DEF IndexReadManifest, Continue, OnlyMoves, Job, IndexSteps
  <2>. QED
    BY <2>1, <2>2
<1>3. CASE IndexReadChunks(i)
  <2>1. CASE Return(i)
    BY <1>3, <2>1, ReturnMoves DEF IndexReadChunks
  <2>2. CASE ~Return(i)
    BY <1>0, <1>3, <2>2 DEF IndexReadChunks, Continue, OnlyMoves, Job, IndexSteps
  <2>. QED
    BY <2>1, <2>2
<1>4. CASE IndexUpsert(i)
  BY <1>0, <1>4 DEF IndexUpsert, Continue, OnlyMoves, Job, Idle, IndexSteps, At
<1>5. CASE IndexBatchFails(i)
  BY <1>0, <1>5 DEF IndexBatchFails, Continue, OnlyMoves, Job, Idle, IndexSteps, At
<1>6. CASE IndexVerify(i)
  <2>1. CASE Return(i)
    BY <1>6, <2>1, ReturnMoves DEF IndexVerify
  <2>2. CASE ~Return(i)
    BY <1>0, <1>6, <2>2 DEF IndexVerify, Continue, OnlyMoves, Job, IndexSteps
  <2>. QED
    BY <2>1, <2>2
<1>7. CASE IndexHashManifest(i)
  <2>1. CASE Return(i)
    BY <1>7, <2>1, ReturnMoves DEF IndexHashManifest
  <2>2. CASE ~Return(i)
    BY <1>0, <1>7, <2>2 DEF IndexHashManifest, Continue, OnlyMoves, Job, IndexSteps
  <2>. QED
    BY <2>1, <2>2
<1>8. CASE IndexHashArtifacts(i)
  <2>1. CASE Return(i)
    BY <1>8, <2>1, ReturnMoves DEF IndexHashArtifacts
  <2>2. CASE ~Return(i)
    <3>1. job' = [job EXCEPT ![i] = [job[i] EXCEPT !.at = "index.write",
                                                   !.checksum = embeddings.run]]
      BY <1>8, <2>2 DEF IndexHashArtifacts, Continue
    <3>2. UNCHANGED <<files, stores, counts>>
      BY <1>8 DEF IndexHashArtifacts
    <3>. QED
      BY <1>0, <3>1, <3>2 DEF OnlyMoves, Job, IndexSteps
  <2>. QED
    BY <2>1, <2>2
<1>9. CASE WriteIndexManifest(i)
  BY <1>9, ReturnMoves DEF WriteIndexManifest
<1>. QED
  BY <1>1, <1>2, <1>3, <1>4, <1>5, <1>6, <1>7, <1>8, <1>9 DEF Index

\* A graph call writes the graph and the graph manifest, and nothing else.
LEMMA BuildGraphFrame ==
  ASSUME TypeOK, NEW i \in Instances, BuildGraph(i)
  PROVE  /\ OnlyMoves(i, GraphSteps)
         /\ UNCHANGED <<units, relationships, embeddings, embedManifest, indexManifest, points, counts>>
<1>. USE DEF files, stores, counts
<1>0. job \in [Instances -> Job] /\ job[i] \in Job
  BY DEF TypeOK
<1>1. CASE GraphStart(i)
  BY <1>0, <1>1 DEF GraphStart, Continue, OnlyMoves, Job, Idle, GraphSteps
<1>2. CASE GraphCheckFresh(i)
  <2>1. CASE Return(i)
    BY <1>2, <2>1, ReturnMoves DEF GraphCheckFresh
  <2>2. CASE ~Return(i)
    BY <1>0, <1>2, <2>2 DEF GraphCheckFresh, Continue, OnlyMoves, Job, GraphSteps
  <2>. QED
    BY <2>1, <2>2
<1>3. CASE GraphReadUnits(i)
  <2>1. CASE Return(i)
    BY <1>3, <2>1, ReturnMoves DEF GraphReadUnits
  <2>2. CASE ~Return(i)
    BY <1>0, <1>3, <2>2 DEF GraphReadUnits, Continue, OnlyMoves, Job, GraphSteps
  <2>. QED
    BY <2>1, <2>2
<1>4. CASE GraphReadRelationships(i)
  <2>1. CASE Return(i)
    BY <1>4, <2>1, ReturnMoves DEF GraphReadRelationships
  <2>2. CASE ~Return(i)
    BY <1>0, <1>4, <2>2 DEF GraphReadRelationships, Continue, OnlyMoves, Job, GraphSteps
  <2>. QED
    BY <2>1, <2>2
<1>5. CASE GraphReplace(i)
  BY <1>0, <1>5 DEF GraphReplace, Continue, OnlyMoves, Job, Idle, GraphSteps
<1>6. CASE WriteGraphManifest(i)
  BY <1>6, ReturnMoves DEF WriteGraphManifest
<1>. QED
  BY <1>1, <1>2, <1>3, <1>4, <1>5, <1>6 DEF BuildGraph

-----------------------------------------------------------------------------
(* The graph never dangles, on any number of instances.                    *)

\* What a handler is about to put into Neo4j is of one representation: the
\* validator saw the very chunks and edges that are written.
ReplacesWithOne ==
  \A i \in Instances : At(i, "graph.replace") => job[i].rep = job[i].rel

\* A step that neither writes the graph nor brings handler i to the write.
LEMMA GraphWritesUntouched ==
  ASSUME ReplacesWithOne, GraphNeverDangles, NEW i \in Instances, NEW steps,
         OnlyMoves(i, steps), "graph.replace" \notin {"idle"} \cup steps, graph' = graph
  PROVE  (ReplacesWithOne /\ GraphNeverDangles)'
  BY DEF ReplacesWithOne, GraphNeverDangles, OnlyMoves, At

\* A graph call reaches its write only past the validator.
LEMMA GraphCallNeverDangles ==
  ASSUME TypeOK, ReplacesWithOne, GraphNeverDangles, NEW i \in Instances, BuildGraph(i)
  PROVE  (ReplacesWithOne /\ GraphNeverDangles)'
<1>. USE DEF stores, Continue
<1>0. job \in [Instances -> Job] /\ job[i] \in Job
  BY DEF TypeOK
<1>1. CASE /\ job' = [job EXCEPT ![i] = [job[i] EXCEPT !.at = "graph.replace",
                                                      !.rel = relationships]]
           /\ ~Dangles(job[i].rep, relationships)
           /\ graph' = graph
  <2>1. /\ job'[i].rep = job[i].rep /\ job'[i].rel = relationships
        /\ \A j \in Instances \ {i} : job'[j] = job[j]
    BY <1>0, <1>1 DEF Job
  <2>. QED
    BY <1>1, <2>1 DEF Dangles, ReplacesWithOne, GraphNeverDangles, At
<1>2. CASE GraphReplace(i)
  <2>1. job'[i].at = "graph.write" /\ \A j \in Instances \ {i} : job'[j] = job[j]
    BY <1>0, <1>2 DEF GraphReplace, Job
  <2>. QED
    BY <1>2, <2>1 DEF GraphReplace, ReplacesWithOne, GraphNeverDangles, At
<1>3. CASE Return(i) /\ graph' = graph
  <2>1. OnlyMoves(i, {})
    BY <1>3, ReturnMoves
  <2>. QED
    BY <1>3, <2>1, GraphWritesUntouched
<1>4. CASE job'[i].at # "graph.replace" /\ graph' = graph
  <2>1. \A j \in Instances \ {i} : job'[j] = job[j]
    BY BuildGraphFrame DEF OnlyMoves
  <2>. QED
    BY <1>4, <2>1 DEF ReplacesWithOne, GraphNeverDangles, At
<1>5. CASE GraphReadRelationships(i)
  BY <1>1, <1>3, <1>5 DEF GraphReadRelationships
<1>6. CASE GraphStart(i) \/ GraphCheckFresh(i) \/ GraphReadUnits(i) \/ WriteGraphManifest(i)
  <2>1. graph' = graph
    BY <1>6 DEF GraphStart, GraphCheckFresh, GraphReadUnits, WriteGraphManifest
  <2>2. CASE Return(i)
    BY <1>3, <2>1, <2>2
  <2>3. CASE ~Return(i)
    BY <1>0, <1>4, <1>6, <2>1, <2>3
       DEF GraphStart, GraphCheckFresh, GraphReadUnits, WriteGraphManifest, Job, Idle
  <2>. QED
    BY <2>2, <2>3
<1>. QED
  BY <1>2, <1>5, <1>6 DEF BuildGraph

\* However represent and graph calls interleave and wherever they die, Neo4j
\* never holds an edge to a chunk of another representation.
THEOREM GraphSafe == Spec => []GraphNeverDangles
<1>1. Init => ReplacesWithOne /\ GraphNeverDangles
  BY DEF Init, ReplacesWithOne, GraphNeverDangles, At, Idle, NoGraph
<1>2. TypeOK /\ ReplacesWithOne /\ GraphNeverDangles /\ [Next]_vars
        => (ReplacesWithOne /\ GraphNeverDangles)'
  <2>. SUFFICES ASSUME TypeOK, ReplacesWithOne, GraphNeverDangles, [Next]_vars
                PROVE  (ReplacesWithOne /\ GraphNeverDangles)'
    OBVIOUS
  <2>1. CASE UNCHANGED vars
    BY <2>1 DEF vars, ReplacesWithOne, GraphNeverDangles, At
  <2>2. ASSUME NEW i \in Instances, Represent(i) \/ Embed(i) \/ Index(i)
        PROVE  (ReplacesWithOne /\ GraphNeverDangles)'
    BY <2>2, RepresentFrame, EmbedFrame, IndexFrame, GraphWritesUntouched
       DEF stores, RepresentSteps, EmbedSteps, IndexSteps
  <2>3. ASSUME NEW i \in Instances, BuildGraph(i)
        PROVE  (ReplacesWithOne /\ GraphNeverDangles)'
    BY <2>3, GraphCallNeverDangles
  <2>4. ASSUME NEW i \in Instances, Abort(i)
        PROVE  (ReplacesWithOne /\ GraphNeverDangles)'
    <3>1. OnlyMoves(i, {}) /\ graph' = graph
      BY <2>4, ReturnMoves DEF Abort, stores
    <3>. QED
      BY <3>1, GraphWritesUntouched
  <2>. QED
    BY <2>1, <2>2, <2>3, <2>4 DEF Next, Handle
<1>. QED
  BY <1>1, <1>2, TypeCorrect, PTL DEF Spec

-----------------------------------------------------------------------------
(* A document that is represented once, and whose batches all succeed.     *)

\* Nothing is represented again and no batch fails.
Stable == MaxRepresentations = 1 /\ ~PartialFailures

\* Where an index run has the points of a batch in hand.
Uploading == {"index.manifest", "index.chunks", "index.upsert"}

\* Whoever embeds or indexes has all the chunks in hand, and what it upserted
\* stays in the store.
WorksOnAll(i) ==
  /\ job[i].at \in RepresentSteps \cup EmbedSteps => job[i].rep = 1
  /\ At(i, "embed.artifacts") => job[i].done = ChunkIds
  /\ job[i].at \in Uploading =>
       job[i].run # 0 /\ job[i].todo \cup job[i].done = ChunkIds /\ job[i].done \subseteq Stored

\* What there is, is of every chunk.
AllIndexed ==
  /\ units \in {0, 1}
  /\ embeddings.run # 0 => embeddings.ids = ChunkIds
  /\ \A i \in Instances : WorksOnAll(i)

\* All chunks are chunks of the only representation.
LEMMA OnlyOne ==
  ASSUME Stable
  PROVE  ChunksOf(1) = ChunkIds /\ Survivors(1) = {ChunkIds}
<1>1. \A c \in ChunkIds : c[1] = 1
  BY DEF Stable, ChunkIds, Representations
<1>. QED
  BY <1>1 DEF Stable, ChunksOf, Survivors

\* What a call leaves alone stays so for the other handlers.
LEMMA OthersWorkOnAll ==
  ASSUME AllIndexed, NEW i \in Instances, NEW steps, OnlyMoves(i, steps),
         points' = points \/ Stored \subseteq Stored'
  PROVE  \A j \in Instances \ {i} : WorksOnAll(j)'
  BY DEF AllIndexed, WorksOnAll, OnlyMoves, At, Stored

\* A handler that ends, or dies and tears a file, keeps it.
LEMMA IdleWorksOnAll ==
  ASSUME TypeOK, AllIndexed, NEW i \in Instances, Return(i), points' = points,
         units' = units \/ units' = 0, embeddings' = embeddings \/ embeddings' = NoArtifacts
  PROVE  AllIndexed'
<1>1. OnlyMoves(i, {})
  BY ReturnMoves
<1>2. \A j \in Instances \ {i} : WorksOnAll(j)'
  BY <1>1, OthersWorkOnAll
<1>3. WorksOnAll(i)'
  BY <1>1 DEF OnlyMoves, WorksOnAll, At, RepresentSteps, EmbedSteps, Uploading
<1>. QED
  BY <1>2, <1>3 DEF AllIndexed, NoArtifacts

\* A represent call writes the only representation.
LEMMA RepresentKeepsAllIndexed ==
  ASSUME Stable, TypeOK, AllIndexed, NEW i \in Instances, Represent(i)
  PROVE  AllIndexed'
<1>. USE DEF files, stores, counts
<1>0. job \in [Instances -> Job] /\ job[i] \in Job
  BY DEF TypeOK
<1>1. points' = points /\ embeddings' = embeddings
  BY RepresentFrame
<1>2. \A j \in Instances \ {i} : WorksOnAll(j)'
  BY <1>1, RepresentFrame, OthersWorkOnAll
<1>3. CASE RepresentStart(i)
  <2>1. job'[i].at = "represent.units" /\ job'[i].rep = 1
    BY <1>0, <1>3 DEF RepresentStart, Continue, Idle, Stable, TypeOK
  <2>. QED
    BY <1>1, <1>2, <1>3, <2>1 DEF RepresentStart, AllIndexed, WorksOnAll, At, Uploading
<1>4. CASE WriteUnits(i)
  <2>1. job'[i].at = "represent.relationships" /\ job'[i].rep = job[i].rep
    BY <1>0, <1>4 DEF WriteUnits, Continue, Job
  <2>. QED
    BY <1>1, <1>2, <1>4, <2>1 DEF WriteUnits, AllIndexed, WorksOnAll, At, Uploading, RepresentSteps
<1>5. CASE WriteRelationships(i)
  BY <1>1, <1>5, IdleWorksOnAll DEF WriteRelationships
<1>. QED
  BY <1>3, <1>4, <1>5 DEF Represent

\* An embed call embeds all chunks.
LEMMA EmbedKeepsAllIndexed ==
  ASSUME Stable, TypeOK, AllIndexed, NEW i \in Instances, Embed(i)
  PROVE  AllIndexed'
<1>. USE DEF files, stores, counts
<1>0. job \in [Instances -> Job] /\ job[i] \in Job
  BY DEF TypeOK
<1>1. points' = points /\ units' = units
  BY EmbedFrame
<1>2. \A j \in Instances \ {i} : WorksOnAll(j)'
  BY <1>1, EmbedFrame, OthersWorkOnAll
<1>3. CASE EmbedStart(i)
  <2>1. job'[i].at = "embed.version" /\ job'[i].rep = units /\ units = 1
    BY <1>0, <1>3 DEF EmbedStart, Continue, Idle, AllIndexed
  <2>. QED
    BY <1>1, <1>2, <1>3, <2>1 DEF EmbedStart, AllIndexed, WorksOnAll, At, Uploading
<1>4. CASE EmbedBatches(i)
  <2>1. CASE Return(i)
    BY <1>1, <1>4, <2>1, IdleWorksOnAll DEF EmbedBatches
  <2>2. CASE ~Return(i)
    <3>1. job[i].rep = 1
      BY <1>4 DEF EmbedBatches, AllIndexed, WorksOnAll, At, EmbedSteps
    <3>2. PICK ids \in Survivors(job[i].rep) :
            Continue(i, [job[i] EXCEPT !.at = "embed.artifacts", !.hashed = units, !.done = ids])
      BY <1>4, <2>2 DEF EmbedBatches
    <3>3. ids = ChunkIds
      BY <3>1, OnlyOne
    <3>4. job'[i].at = "embed.artifacts" /\ job'[i].rep = 1 /\ job'[i].done = ChunkIds
      BY <1>0, <3>1, <3>2, <3>3 DEF Continue, Job
    <3>. QED
      BY <1>1, <1>2, <1>4, <3>4 DEF EmbedBatches, AllIndexed, WorksOnAll, At, Uploading
  <2>. QED
    BY <2>1, <2>2
<1>5. CASE WriteArtifacts(i)
  <2>1. job'[i].at = "embed.manifest" /\ job'[i].rep = job[i].rep
    BY <1>0, <1>5 DEF WriteArtifacts, Continue, Job
  <2>2. embeddings'.ids = ChunkIds /\ job[i].rep = 1
    BY <1>5 DEF WriteArtifacts, AllIndexed, WorksOnAll, At, EmbedSteps
  <2>. QED
    BY <1>1, <1>2, <2>1, <2>2 DEF AllIndexed, WorksOnAll, At, Uploading
<1>6. CASE WriteEmbedManifest(i)
  BY <1>1, <1>6, IdleWorksOnAll DEF WriteEmbedManifest
<1>. QED
  BY <1>3, <1>4, <1>5, <1>6 DEF Embed

\* Points are added to the store, never taken from it.
LEMMA StoreGrows ==
  ASSUME TypeOK, AllIndexed, NEW i \in Instances, Index(i)
  PROVE  Stored \subseteq Stored'
<1>1. ASSUME points' = points
      PROVE  Stored \subseteq Stored'
  BY <1>1 DEF Stored
<1>2. ASSUME At(i, "index.upsert"), NEW c \in job[i].todo, points' = [points EXCEPT ![c] = BuildPoint(i)]
      PROVE  Stored \subseteq Stored'
  <2>1. BuildPoint(i).run # 0
    BY <1>2 DEF BuildPoint, AllIndexed, WorksOnAll, At, Uploading
  <2>. QED
    BY <1>2, <2>1 DEF Stored, TypeOK
<1>3. CASE IndexUpsert(i) \/ IndexBatchFails(i)
  BY <1>1, <1>2, <1>3 DEF IndexUpsert, IndexBatchFails
<1>4. CASE IndexStart(i) \/ IndexReadManifest(i) \/ IndexReadChunks(i) \/ IndexVerify(i)
           \/ IndexHashManifest(i) \/ IndexHashArtifacts(i) \/ WriteIndexManifest(i)
  BY <1>1, <1>4 DEF IndexStart, IndexReadManifest, IndexReadChunks, IndexVerify, IndexHashManifest,
     IndexHashArtifacts, WriteIndexManifest, stores
<1>. QED
  BY <1>3, <1>4 DEF Index

\* An indexing call takes up all chunks and stores one after the other.
LEMMA IndexKeepsAllIndexed ==
  ASSUME Stable, TypeOK, AllIndexed, NEW i \in Instances, Index(i)
  PROVE  AllIndexed'
<1>. USE DEF files, stores, counts
<1>0. job \in [Instances -> Job] /\ job[i] \in Job
  BY DEF TypeOK
<1>1. Stored \subseteq Stored' /\ units' = units /\ embeddings' = embeddings
  BY StoreGrows, IndexFrame
<1>2. \A j \in Instances \ {i} : WorksOnAll(j)'
  BY <1>1, IndexFrame, OthersWorkOnAll
<1>3. SUFFICES WorksOnAll(i)'
  BY <1>1, <1>2 DEF AllIndexed
<1>4. ASSUME Return(i)
      PROVE  WorksOnAll(i)'
  <2>1. job'[i].at = "idle"
    BY <1>0, <1>4 DEF Return, Continue, Idle
  <2>. QED
    BY <2>1 DEF WorksOnAll, At, RepresentSteps, EmbedSteps, Uploading
<1>5. ASSUME job'[i].at \in IndexSteps \ Uploading
      PROVE  WorksOnAll(i)'
  BY <1>5 DEF WorksOnAll, At, RepresentSteps, EmbedSteps, IndexSteps
<1>6. ASSUME job'[i].at \in Uploading, job'[i].run # 0, job'[i].todo \cup job'[i].done = ChunkIds,
             job'[i].done \subseteq Stored'
      PROVE  WorksOnAll(i)'
  BY <1>6 DEF WorksOnAll, At, RepresentSteps, EmbedSteps, Uploading
<1>7. job[i].at \in Uploading =>
        job[i].run # 0 /\ job[i].todo \cup job[i].done = ChunkIds /\ job[i].done \subseteq Stored
  BY DEF AllIndexed, WorksOnAll
<1>8. CASE IndexStart(i)
  BY <1>0, <1>6, <1>8 DEF IndexStart, Continue, Idle, AllIndexed, Uploading
<1>9. CASE IndexReadManifest(i)
  <2>1. CASE ~Return(i)
    <3>1. /\ At(i, "index.manifest") /\ job'[i].at = "index.chunks" /\ job'[i].run = job[i].run
          /\ job'[i].todo = job[i].todo /\ job'[i].done = job[i].done
      BY <1>0, <1>9, <2>1 DEF IndexReadManifest, Continue, Job
    <3>. QED
      BY <1>1, <1>6, <1>7, <3>1 DEF At, Uploading
  <2>. QED
    BY <1>4, <2>1
<1>10. CASE IndexReadChunks(i)
  <2>1. CASE ~Return(i)
    <3>1. /\ At(i, "index.chunks") /\ job'[i].at = "index.upsert" /\ job'[i].run = job[i].run
          /\ job'[i].todo = job[i].todo /\ job'[i].done = job[i].done
      BY <1>0, <1>10, <2>1 DEF IndexReadChunks, Continue, Job
    <3>. QED
      BY <1>1, <1>6, <1>7, <3>1 DEF At, Uploading
  <2>. QED
    BY <1>4, <2>1
<1>11. CASE IndexUpsert(i)
  <2>1. PICK c \in job[i].todo :
          /\ At(i, "index.upsert") /\ points' = [points EXCEPT ![c] = BuildPoint(i)]
          /\ Continue(i, [job[i] EXCEPT !.todo = @ \ {c}, !.done = @ \cup {c}])
    BY <1>11 DEF IndexUpsert
  <2>2. /\ job'[i].at = "index.upsert" /\ job'[i].run = job[i].run
        /\ job'[i].todo = job[i].todo \ {c} /\ job'[i].done = job[i].done \cup {c}
    BY <1>0, <2>1 DEF Continue, Job, At
  <2>3. job[i].run # 0 /\ job[i].todo \cup job[i].done = ChunkIds /\ job[i].done \subseteq Stored
    BY <1>7, <2>1 DEF At, Uploading
  <2>4. c \in ChunkIds
    BY <2>3
  <2>5. c \in Stored'
    BY <2>1, <2>3, <2>4 DEF Stored, BuildPoint, TypeOK
  <2>. QED
    BY <1>1, <1>6, <2>2, <2>3, <2>5 DEF Uploading
<1>12. CASE IndexVerify(i)
  <2>1. CASE ~Return(i)
    <3>1. job'[i].at = "index.source"
      BY <1>0, <1>12, <2>1 DEF IndexVerify, Continue, Job
    <3>. QED
      BY <1>5, <3>1 DEF IndexSteps, Uploading
  <2>. QED
    BY <1>4, <2>1
<1>13. CASE IndexHashManifest(i)
  <2>1. CASE ~Return(i)
    <3>1. job'[i].at = "index.checksum"
      BY <1>0, <1>13, <2>1 DEF IndexHashManifest, Continue, Job
    <3>. QED
      BY <1>5, <3>1 DEF IndexSteps, Uploading
  <2>. QED
    BY <1>4, <2>1
<1>14. CASE IndexHashArtifacts(i)
  <2>1. CASE ~Return(i)
    <3>1. job'[i].at = "index.write"
      BY <1>0, <1>14, <2>1 DEF IndexHashArtifacts, Continue, Job
    <3>. QED
      BY <1>5, <3>1 DEF IndexSteps, Uploading
  <2>. QED
    BY <1>4, <2>1
<1>15. CASE WriteIndexManifest(i)
  BY <1>4, <1>15 DEF WriteIndexManifest
<1>. QED
  BY <1>8, <1>9, <1>10, <1>11, <1>12, <1>13, <1>14, <1>15 DEF Index, IndexBatchFails, Stable

\* A graph call leaves all of this alone.
LEMMA GraphKeepsAllIndexed ==
  ASSUME TypeOK, AllIndexed, NEW i \in Instances, BuildGraph(i)
  PROVE  AllIndexed'
<1>1. points' = points /\ units' = units /\ embeddings' = embeddings
  BY BuildGraphFrame
<1>2. \A j \in Instances \ {i} : WorksOnAll(j)'
  BY <1>1, BuildGraphFrame, OthersWorkOnAll
<1>3. WorksOnAll(i)'
  BY BuildGraphFrame
     DEF OnlyMoves, WorksOnAll, At, RepresentSteps, EmbedSteps, GraphSteps, Uploading
<1>. QED
  BY <1>1, <1>2, <1>3 DEF AllIndexed

\* While a document is represented once and no batch fails, an indexing call
\* that has upserted everything finds as many points as it upserted, however
\* many processes index, embed and die at the same time (search/validator).
THEOREM IndexingSucceeds ==
  ASSUME Stable
  PROVE  Spec => []IndexingVerifies
<1>1. Init => AllIndexed
  BY DEF Init, AllIndexed, WorksOnAll, At, Idle, NoArtifacts, RepresentSteps, EmbedSteps, Uploading
<1>2. TypeOK /\ AllIndexed /\ [Next]_vars => AllIndexed'
  <2>. SUFFICES ASSUME TypeOK, AllIndexed, [Next]_vars
                PROVE  AllIndexed'
    OBVIOUS
  <2>1. CASE UNCHANGED vars
    BY <2>1 DEF vars, AllIndexed, WorksOnAll, At, Stored
  <2>2. ASSUME NEW i \in Instances, Abort(i)
        PROVE  AllIndexed'
    BY <2>2, IdleWorksOnAll DEF Abort, Torn, stores
  <2>. QED
    BY <2>1, <2>2, RepresentKeepsAllIndexed, EmbedKeepsAllIndexed, IndexKeepsAllIndexed,
       GraphKeepsAllIndexed DEF Next, Handle
<1>3. AllIndexed => IndexingVerifies
  <2>1. ASSUME AllIndexed, NEW i \in Instances, At(i, "index.upsert"), job[i].todo = {}
        PROVE  Stored = job[i].done
    BY <2>1 DEF AllIndexed, WorksOnAll, At, Uploading, Stored
  <2>. QED
    BY <2>1 DEF IndexingVerifies, CountMatches
<1>. QED
  BY <1>1, <1>2, <1>3, TypeCorrect, PTL DEF Spec

-----------------------------------------------------------------------------
(* One backend process.                                                    *)

\* Instance i is the only one.
Alone(i) == \A j \in Instances : j = i

-----------------------------------------------------------------------------
(* Versions.                                                               *)

\* A handler that ends keeps the versions in order.
LEMMA ReturnKeepsVersionsGrow ==
  ASSUME TypeOK, VersionsGrow, NEW i \in Instances, Alone(i), Return(i),
         UNCHANGED <<files, stores, counts>>
  PROVE  VersionsGrow'
  BY DEF TypeOK, VersionsGrow, Alone, Return, Continue, At, Idle, RepresentSteps, EmbedSteps,
     GraphSteps, files, stores, counts

\* A represent call keeps the versions in order, step by step.
LEMMA RepresentKeepsVersionsGrow ==
  ASSUME TypeOK, VersionsGrow, NEW i \in Instances, Alone(i), Represent(i)
  PROVE  VersionsGrow'
<1>. USE DEF VersionsGrow, Alone, At, Continue, files, stores, counts, RepresentSteps,
   EmbedSteps, GraphSteps, EmbedManifest, Graph
<1>0. job \in [Instances -> Job] /\ job[i] \in Job
  BY DEF TypeOK
<1>1. CASE RepresentStart(i)
  BY <1>0, <1>1 DEF RepresentStart, Idle, Job, TypeOK
<1>2. CASE WriteUnits(i)
  BY <1>0, <1>2 DEF WriteUnits, Idle, Job, TypeOK
<1>3. CASE WriteRelationships(i)
  BY <1>0, <1>3 DEF WriteRelationships, Return, Idle, Job, TypeOK
<1>. QED
  BY <1>1, <1>2, <1>3 DEF Represent

\* An embed call keeps the versions in order, step by step.
LEMMA EmbedKeepsVersionsGrow ==
  ASSUME TypeOK, VersionsGrow, NEW i \in Instances, Alone(i), Embed(i)
  PROVE  VersionsGrow'
<1>. USE DEF VersionsGrow, Alone, At, Continue, files, stores, counts, RepresentSteps,
   EmbedSteps, GraphSteps, EmbedManifest, Graph
<1>0. job \in [Instances -> Job] /\ job[i] \in Job
  BY DEF TypeOK
<1>1. CASE EmbedStart(i)
  BY <1>0, <1>1 DEF EmbedStart, Idle, Job, TypeOK
<1>2. CASE EmbedBatches(i)
  <2>1. At(i, "embed.version") /\ UNCHANGED <<files, stores, counts>>
    BY <1>2 DEF EmbedBatches
  <2>2. CASE Return(i)
    BY <2>1, <2>2, ReturnKeepsVersionsGrow
  <2>3. ASSUME NEW ids \in Survivors(job[i].rep), units # 0,
               Continue(i, [job[i] EXCEPT !.at = "embed.artifacts", !.hashed = units,
                                          !.done = ids])
        PROVE  VersionsGrow'
    BY <1>0, <2>1, <2>3 DEF Job, TypeOK
  <2>. QED
    BY <1>2, <2>2, <2>3 DEF EmbedBatches
<1>3. CASE WriteArtifacts(i)
  BY <1>0, <1>3 DEF WriteArtifacts, Idle, Job, TypeOK
<1>4. CASE WriteEmbedManifest(i)
  BY <1>0, <1>4 DEF WriteEmbedManifest, Return, Idle, Job, TypeOK
<1>. QED
  BY <1>1, <1>2, <1>3, <1>4 DEF Embed

\* An index call touches nothing the versions speak of.
LEMMA IndexKeepsVersionsGrow ==
  ASSUME TypeOK, VersionsGrow, NEW i \in Instances, Alone(i), Index(i)
  PROVE  VersionsGrow'
  BY IndexFrame DEF Alone, OnlyMoves, VersionsGrow, At, RepresentSteps, EmbedSteps, IndexSteps,
     GraphSteps, stores, counts

\* A graph call keeps the versions in order, step by step.
LEMMA BuildGraphKeepsVersionsGrow ==
  ASSUME TypeOK, VersionsGrow, NEW i \in Instances, Alone(i), BuildGraph(i)
  PROVE  VersionsGrow'
<1>. USE DEF VersionsGrow, Alone, At, Continue, files, stores, counts, RepresentSteps,
   EmbedSteps, GraphSteps, EmbedManifest, Graph
<1>0. job \in [Instances -> Job] /\ job[i] \in Job
  BY DEF TypeOK
<1>1. CASE GraphStart(i)
  BY <1>0, <1>1 DEF GraphStart, Idle, Job, TypeOK
<1>2. CASE GraphCheckFresh(i)
  <2>1. At(i, "graph.hash") /\ UNCHANGED <<files, stores, counts>>
    BY <1>2 DEF GraphCheckFresh
  <2>2. CASE Return(i)
    BY <2>1, <2>2, ReturnKeepsVersionsGrow
  <2>3. CASE relationships # 0
          /\ Continue(i, [job[i] EXCEPT !.at = "graph.units", !.hashedRel = relationships])
    BY <1>0, <2>1, <2>3 DEF Job, TypeOK
  <2>. QED
    BY <1>2, <2>2, <2>3 DEF GraphCheckFresh
<1>3. CASE GraphReadUnits(i)
  <2>1. At(i, "graph.units") /\ UNCHANGED <<files, stores, counts>>
    BY <1>3 DEF GraphReadUnits
  <2>2. CASE Return(i)
    BY <2>1, <2>2, ReturnKeepsVersionsGrow
  <2>3. CASE units # 0
          /\ Continue(i, [job[i] EXCEPT !.at = "graph.relationships", !.rep = units])
    BY <1>0, <2>1, <2>3 DEF Job, TypeOK
  <2>. QED
    BY <1>3, <2>2, <2>3 DEF GraphReadUnits
<1>4. CASE GraphReadRelationships(i)
  <2>1. At(i, "graph.relationships") /\ UNCHANGED <<files, stores, counts>>
    BY <1>4 DEF GraphReadRelationships
  <2>2. CASE Return(i)
    BY <2>1, <2>2, ReturnKeepsVersionsGrow
  <2>3. CASE relationships # 0
          /\ Continue(i, [job[i] EXCEPT !.at = "graph.replace", !.rel = relationships])
    BY <1>0, <2>1, <2>3 DEF Job, TypeOK
  <2>. QED
    BY <1>4, <2>2, <2>3 DEF GraphReadRelationships
<1>5. CASE GraphReplace(i)
  BY <1>0, <1>5 DEF GraphReplace, Idle, Job, TypeOK
<1>6. CASE WriteGraphManifest(i)
  BY <1>0, <1>6 DEF WriteGraphManifest, Return, Idle, Job, TypeOK
<1>. QED
  BY <1>1, <1>2, <1>3, <1>4, <1>5, <1>6 DEF BuildGraph

\* A handler that dies, and what it leaves truncated, keeps it.
LEMMA AbortKeepsVersionsGrow ==
  ASSUME TypeOK, VersionsGrow, NEW i \in Instances, Alone(i), Abort(i)
  PROVE  VersionsGrow'
  BY DEF TypeOK, VersionsGrow, Alone, Abort, Torn, Return, Continue, At, Idle, stores,
     NoEmbedManifest, NoGraph, Graph, EmbedManifest

\* A represent call always writes a version newer than any that a file records, so
\* no stale manifest can ever come to match the files again.
THEOREM VersionsAreOrdered ==
  ASSUME SingleInstance
  PROVE  Spec => []VersionsGrow
<1>1. Init => VersionsGrow
  BY DEF Init, VersionsGrow, At, Idle, NoEmbedManifest, NoGraph
<1>2. TypeOK /\ VersionsGrow /\ [Next]_vars => VersionsGrow'
  <2>. SUFFICES ASSUME TypeOK, VersionsGrow, [Next]_vars
                PROVE  VersionsGrow'
    OBVIOUS
  <2>1. CASE UNCHANGED vars
    BY <2>1 DEF vars, VersionsGrow, At
  <2>2. ASSUME NEW i \in Instances, Handle(i) \/ Abort(i)
        PROVE  VersionsGrow'
    <3>1. Alone(i)
      BY DEF Alone, SingleInstance
    <3>. QED
      BY <2>2, <3>1, RepresentKeepsVersionsGrow, EmbedKeepsVersionsGrow, IndexKeepsVersionsGrow,
         BuildGraphKeepsVersionsGrow, AbortKeepsVersionsGrow DEF Handle
  <2>. QED
    BY <2>1, <2>2 DEF Next
<1>. QED
  BY <1>1, <1>2, TypeCorrect, PTL DEF Spec

-----------------------------------------------------------------------------
(* The graph.                                                              *)

\* What PipelineInvariant says of the graph.
GraphPart == GraphWorksOnFiles /\ FreshGraphIsCurrent

\* A handler that ends keeps the graph part.
LEMMA ReturnKeepsGraphPart ==
  ASSUME TypeOK, GraphPart, NEW i \in Instances, Alone(i), Return(i),
         UNCHANGED <<files, stores, counts>>
  PROVE  GraphPart'
  BY DEF TypeOK, GraphPart, Alone, Return, Continue, At, Idle, files, stores, counts,
     GraphWorksOnFiles, FreshGraphIsCurrent, GraphSteps

\* A represent call keeps the graph part, step by step.
LEMMA RepresentKeepsGraphPart ==
  ASSUME TypeOK, VersionsGrow, GraphPart, NEW i \in Instances, Alone(i), Represent(i)
  PROVE  GraphPart'
<1>. USE DEF GraphPart, VersionsGrow, Alone, At, Continue, files, stores, counts,
   GraphWorksOnFiles, FreshGraphIsCurrent, GraphSteps, RepresentSteps, EmbedSteps, IndexSteps,
   Graph, NoGraph
<1>0. job \in [Instances -> Job] /\ job[i] \in Job
  BY DEF TypeOK
<1>1. CASE RepresentStart(i)
  BY <1>0, <1>1 DEF RepresentStart, Idle, Job, TypeOK
<1>2. CASE WriteUnits(i)
  BY <1>0, <1>2 DEF WriteUnits, Idle, Job, TypeOK
<1>3. CASE WriteRelationships(i)
  BY <1>0, <1>3 DEF WriteRelationships, Return, Idle, Job, TypeOK
<1>. QED
  BY <1>1, <1>2, <1>3 DEF Represent

\* An embed call touches nothing the graph part speaks of.
LEMMA EmbedKeepsGraphPart ==
  ASSUME TypeOK, GraphPart, NEW i \in Instances, Alone(i), Embed(i)
  PROVE  GraphPart'
  BY EmbedFrame DEF Alone, OnlyMoves, GraphPart, GraphWorksOnFiles, FreshGraphIsCurrent, At,
     GraphSteps, EmbedSteps, stores, counts

\* An index call touches nothing the graph part speaks of.
LEMMA IndexKeepsGraphPart ==
  ASSUME TypeOK, GraphPart, NEW i \in Instances, Alone(i), Index(i)
  PROVE  GraphPart'
  BY IndexFrame DEF Alone, OnlyMoves, GraphPart, GraphWorksOnFiles, FreshGraphIsCurrent, At,
     GraphSteps, IndexSteps, stores, counts

\* A graph call keeps the graph part, step by step.
LEMMA BuildGraphKeepsGraphPart ==
  ASSUME TypeOK, GraphPart, NEW i \in Instances, Alone(i), BuildGraph(i)
  PROVE  GraphPart'
<1>. USE DEF GraphPart, Alone, At, Continue, files, stores, counts, GraphWorksOnFiles,
   FreshGraphIsCurrent, GraphSteps, RepresentSteps, EmbedSteps, IndexSteps, Graph, NoGraph
<1>0. job \in [Instances -> Job] /\ job[i] \in Job
  BY DEF TypeOK
<1>1. CASE GraphStart(i)
  BY <1>0, <1>1 DEF GraphStart, Idle, Job, TypeOK
<1>2. CASE GraphCheckFresh(i)
  <2>1. At(i, "graph.hash") /\ UNCHANGED <<files, stores, counts>>
    BY <1>2 DEF GraphCheckFresh
  <2>2. CASE Return(i)
    BY <2>1, <2>2, ReturnKeepsGraphPart
  <2>3. CASE relationships # 0
          /\ Continue(i, [job[i] EXCEPT !.at = "graph.units", !.hashedRel = relationships])
    BY <1>0, <2>1, <2>3 DEF Job, TypeOK
  <2>. QED
    BY <1>2, <2>2, <2>3 DEF GraphCheckFresh
<1>3. CASE GraphReadUnits(i)
  <2>1. At(i, "graph.units") /\ UNCHANGED <<files, stores, counts>>
    BY <1>3 DEF GraphReadUnits
  <2>2. CASE Return(i)
    BY <2>1, <2>2, ReturnKeepsGraphPart
  <2>3. CASE units # 0
          /\ Continue(i, [job[i] EXCEPT !.at = "graph.relationships", !.rep = units])
    BY <1>0, <2>1, <2>3 DEF Job, TypeOK
  <2>. QED
    BY <1>3, <2>2, <2>3 DEF GraphReadUnits
<1>4. CASE GraphReadRelationships(i)
  <2>1. At(i, "graph.relationships") /\ UNCHANGED <<files, stores, counts>>
    BY <1>4 DEF GraphReadRelationships
  <2>2. CASE Return(i)
    BY <2>1, <2>2, ReturnKeepsGraphPart
  <2>3. CASE relationships # 0
          /\ Continue(i, [job[i] EXCEPT !.at = "graph.replace", !.rel = relationships])
    BY <1>0, <2>1, <2>3 DEF Job, TypeOK
  <2>. QED
    BY <1>4, <2>2, <2>3 DEF GraphReadRelationships
<1>5. CASE GraphReplace(i)
  BY <1>0, <1>5 DEF GraphReplace, Idle, Job, TypeOK
<1>6. CASE WriteGraphManifest(i)
  BY <1>0, <1>6 DEF WriteGraphManifest, Return, Idle, Job, TypeOK
<1>. QED
  BY <1>1, <1>2, <1>3, <1>4, <1>5, <1>6 DEF BuildGraph

\* A handler that dies, and what it leaves truncated, keeps it.
LEMMA AbortKeepsGraphPart ==
  ASSUME TypeOK, VersionsGrow, GraphPart, NEW i \in Instances, Alone(i), Abort(i)
  PROVE  GraphPart'
  BY DEF TypeOK, GraphPart, Alone, Abort, Torn, Return, Continue, At, Idle, stores,
     GraphWorksOnFiles, FreshGraphIsCurrent, GraphSteps, NoGraph, Graph

\* A graph manifest that makes build_graph skip is right about Neo4j.
THEOREM GraphPartHolds ==
  ASSUME SingleInstance
  PROVE  Spec => []GraphPart
<1>1. Init => GraphPart
  BY DEF Init, GraphPart, At, Idle, NoGraph, GraphWorksOnFiles, FreshGraphIsCurrent, GraphSteps
<1>2. TypeOK /\ VersionsGrow /\ GraphPart /\ [Next]_vars => GraphPart'
  <2>. SUFFICES ASSUME TypeOK, VersionsGrow, GraphPart, [Next]_vars
                PROVE  GraphPart'
    OBVIOUS
  <2>1. CASE UNCHANGED vars
    BY <2>1 DEF vars, GraphPart, At, GraphWorksOnFiles, FreshGraphIsCurrent, GraphSteps
  <2>2. ASSUME NEW i \in Instances, Handle(i) \/ Abort(i)
        PROVE  GraphPart'
    <3>1. Alone(i)
      BY DEF Alone, SingleInstance
    <3>. QED
      BY <2>2, <3>1, RepresentKeepsGraphPart, EmbedKeepsGraphPart, IndexKeepsGraphPart,
         BuildGraphKeepsGraphPart, AbortKeepsGraphPart DEF Handle
  <2>. QED
    BY <2>1, <2>2 DEF Next
<1>. QED
  BY <1>1, <1>2, TypeCorrect, VersionsAreOrdered, PTL DEF Spec

-----------------------------------------------------------------------------
(* The embeddings.                                                         *)

\* What PipelineInvariant says of the embeddings.
EmbedPart == EmbedWorksOnUnits /\ FreshEmbeddingsAreCurrent

\* A representation has chunks.
LEMMA ChunksExist ==
  ASSUME NEW r \in Representations
  PROVE  ChunksOf(r) # {}
<1>1. PICK u \in Units : TRUE
  BY UnitsAreFinite
<1>2. <<r, u>> \in ChunksOf(r)
  BY <1>1 DEF ChunksOf, ChunkIds
<1>. QED
  BY <1>2

\* A run that did not fail altogether embedded some of its chunks.
LEMMA SurvivorsAreChunks ==
  ASSUME NEW r \in Representations, NEW ids \in Survivors(r)
  PROVE  ids # {} /\ ids \subseteq ChunksOf(r)
<1>1. CASE PartialFailures
  BY <1>1 DEF Survivors
<1>2. CASE ~PartialFailures
  BY <1>2, ChunksExist DEF Survivors
<1>. QED
  BY <1>1, <1>2

\* A handler that ends keeps the embedding part.
LEMMA ReturnKeepsEmbedPart ==
  ASSUME TypeOK, EmbedPart, NEW i \in Instances, Alone(i), Return(i),
         UNCHANGED <<files, stores, counts>>
  PROVE  EmbedPart'
  BY DEF TypeOK, EmbedPart, Alone, Return, Continue, At, Idle, files, stores, counts,
     EmbedWorksOnUnits, FreshEmbeddingsAreCurrent, EmbeddingIsStale, EmbedSteps

\* A represent call keeps the embedding part, step by step.
LEMMA RepresentKeepsEmbedPart ==
  ASSUME TypeOK, VersionsGrow, EmbedPart, NEW i \in Instances, Alone(i), Represent(i)
  PROVE  EmbedPart'
<1>. USE DEF EmbedPart, VersionsGrow, Alone, At, Continue, files, stores, counts,
   EmbedWorksOnUnits, FreshEmbeddingsAreCurrent, EmbeddingIsStale, EmbedSteps, RepresentSteps,
   EmbedManifest, Artifacts
<1>0. job \in [Instances -> Job] /\ job[i] \in Job
  BY DEF TypeOK
<1>1. CASE RepresentStart(i)
  BY <1>0, <1>1 DEF RepresentStart, Idle, Job, TypeOK
<1>2. CASE WriteUnits(i)
  BY <1>0, <1>2 DEF WriteUnits, Idle, Job, TypeOK
<1>3. CASE WriteRelationships(i)
  BY <1>0, <1>3 DEF WriteRelationships, Return, Idle, Job, TypeOK
<1>. QED
  BY <1>1, <1>2, <1>3 DEF Represent

\* An embed call keeps the embedding part, step by step.
LEMMA EmbedKeepsEmbedPart ==
  ASSUME TypeOK, VersionsGrow, EmbedPart, NEW i \in Instances, Alone(i), Embed(i)
  PROVE  EmbedPart'
<1>. USE DEF EmbedPart, Alone, At, Continue, files, stores, counts, EmbedWorksOnUnits,
   FreshEmbeddingsAreCurrent, EmbeddingIsStale, EmbedSteps, RepresentSteps, EmbedManifest,
   Artifacts
<1>0. job \in [Instances -> Job] /\ job[i] \in Job
  BY DEF TypeOK
<1>1. CASE EmbedStart(i)
  BY <1>0, <1>1 DEF EmbedStart, Idle, Job, TypeOK
<1>2. CASE EmbedBatches(i)
  <2>1. At(i, "embed.version") /\ UNCHANGED <<files, stores, counts>>
    BY <1>2 DEF EmbedBatches
  <2>2. CASE Return(i)
    BY <2>1, <2>2, ReturnKeepsEmbedPart
  <2>3. ASSUME NEW ids \in Survivors(job[i].rep), units # 0,
               Continue(i, [job[i] EXCEPT !.at = "embed.artifacts", !.hashed = units,
                                          !.done = ids])
        PROVE  EmbedPart'
    <3>1. job[i].rep = units
      BY <2>1
    <3>2. units \in Representations
      BY <2>3, BoundsAreNatural DEF TypeOK, VersionsGrow, Representations
    <3>3. ids # {} /\ ids \subseteq ChunksOf(units)
      BY <3>1, <3>2, SurvivorsAreChunks
    <3>. QED
      BY <1>0, <2>1, <2>3, <3>1, <3>3 DEF Job, TypeOK
  <2>. QED
    BY <1>2, <2>2, <2>3 DEF EmbedBatches
<1>3. CASE WriteArtifacts(i)
  BY <1>0, <1>3 DEF WriteArtifacts, Idle, Job, TypeOK
<1>4. CASE WriteEmbedManifest(i)
  BY <1>0, <1>4 DEF WriteEmbedManifest, Return, Idle, Job, TypeOK
<1>. QED
  BY <1>1, <1>2, <1>3, <1>4 DEF Embed

\* An index call touches nothing the embedding part speaks of.
LEMMA IndexKeepsEmbedPart ==
  ASSUME TypeOK, EmbedPart, NEW i \in Instances, Alone(i), Index(i)
  PROVE  EmbedPart'
  BY IndexFrame DEF Alone, OnlyMoves, EmbedPart, EmbedWorksOnUnits, FreshEmbeddingsAreCurrent,
     EmbeddingIsStale, At, EmbedSteps, IndexSteps, stores, counts

\* A graph call touches nothing the embedding part speaks of.
LEMMA BuildGraphKeepsEmbedPart ==
  ASSUME TypeOK, EmbedPart, NEW i \in Instances, Alone(i), BuildGraph(i)
  PROVE  EmbedPart'
  BY BuildGraphFrame DEF Alone, OnlyMoves, EmbedPart, EmbedWorksOnUnits,
     FreshEmbeddingsAreCurrent,
     EmbeddingIsStale, At, EmbedSteps, GraphSteps, stores, counts

\* A handler that dies, and what it leaves truncated, keeps it.
LEMMA AbortKeepsEmbedPart ==
  ASSUME TypeOK, VersionsGrow, EmbedPart, NEW i \in Instances, Alone(i), Abort(i)
  PROVE  EmbedPart'
  BY DEF TypeOK, EmbedPart, Alone, Abort, Torn, Return, Continue, At, Idle, stores,
     EmbedWorksOnUnits, FreshEmbeddingsAreCurrent, EmbeddingIsStale, NoArtifacts,
     NoEmbedManifest, Artifacts, EmbedManifest, EmbedSteps

\* An embedding manifest that makes embed_document skip is right about the artifacts.
THEOREM EmbedPartHolds ==
  ASSUME SingleInstance
  PROVE  Spec => []EmbedPart
<1>1. Init => EmbedPart
  BY DEF Init, EmbedPart, At, Idle, NoArtifacts, NoEmbedManifest, EmbedWorksOnUnits,
     FreshEmbeddingsAreCurrent, EmbeddingIsStale, EmbedSteps
<1>2. TypeOK /\ VersionsGrow /\ EmbedPart /\ [Next]_vars => EmbedPart'
  <2>. SUFFICES ASSUME TypeOK, VersionsGrow, EmbedPart, [Next]_vars
                PROVE  EmbedPart'
    OBVIOUS
  <2>1. CASE UNCHANGED vars
    BY <2>1 DEF vars, EmbedPart, At, EmbedWorksOnUnits, FreshEmbeddingsAreCurrent,
       EmbeddingIsStale, EmbedSteps
  <2>2. ASSUME NEW i \in Instances, Handle(i) \/ Abort(i)
        PROVE  EmbedPart'
    <3>1. Alone(i)
      BY DEF Alone, SingleInstance
    <3>. QED
      BY <2>2, <3>1, RepresentKeepsEmbedPart, EmbedKeepsEmbedPart, IndexKeepsEmbedPart,
         BuildGraphKeepsEmbedPart, AbortKeepsEmbedPart DEF Handle
  <2>. QED
    BY <2>1, <2>2 DEF Next
<1>. QED
  BY <1>1, <1>2, TypeCorrect, VersionsAreOrdered, PTL DEF Spec

-----------------------------------------------------------------------------
(* Embedding runs.                                                         *)

\* A handler that ends keeps the runs in order.
LEMMA ReturnKeepsRunsGrow ==
  ASSUME TypeOK, RunsGrow, NEW i \in Instances, Alone(i), Return(i),
         UNCHANGED <<files, stores, counts>>
  PROVE  RunsGrow'
  BY DEF TypeOK, RunsGrow, Alone, Return, Continue, At, Idle, files, stores, counts, EmbedSteps,
     IndexSteps

\* A represent call touches nothing that records a run.
LEMMA RepresentKeepsRunsGrow ==
  ASSUME TypeOK, RunsGrow, NEW i \in Instances, Alone(i), Represent(i)
  PROVE  RunsGrow'
  BY RepresentFrame DEF Alone, OnlyMoves, RunsGrow, At, EmbedSteps, IndexSteps, RepresentSteps,
     stores, counts

\* A graph call touches nothing that records a run.
LEMMA BuildGraphKeepsRunsGrow ==
  ASSUME TypeOK, RunsGrow, NEW i \in Instances, Alone(i), BuildGraph(i)
  PROVE  RunsGrow'
  BY BuildGraphFrame DEF Alone, OnlyMoves, RunsGrow, At, EmbedSteps, IndexSteps, GraphSteps,
     stores, counts

\* An embed call keeps the runs in order, step by step.
LEMMA EmbedKeepsRunsGrow ==
  ASSUME TypeOK, EmbedPart, RunsGrow, NEW i \in Instances, Alone(i), Embed(i)
  PROVE  RunsGrow'
<1>. USE DEF RunsGrow, EmbedPart, EmbedWorksOnUnits, Alone, At, Continue, files, stores, counts,
   EmbedSteps, IndexSteps, EmbedManifest, Artifacts, IndexManifest
<1>0. job \in [Instances -> Job] /\ job[i] \in Job
  BY DEF TypeOK
<1>1. CASE EmbedStart(i)
  BY <1>0, <1>1 DEF EmbedStart, Idle, Job, TypeOK
<1>2. CASE EmbedBatches(i)
  <2>1. At(i, "embed.version") /\ UNCHANGED <<files, stores, counts>>
    BY <1>2 DEF EmbedBatches
  <2>2. CASE Return(i)
    BY <2>1, <2>2, ReturnKeepsRunsGrow
  <2>3. ASSUME NEW ids \in Survivors(job[i].rep), units # 0,
               Continue(i, [job[i] EXCEPT !.at = "embed.artifacts", !.hashed = units,
                                          !.done = ids])
        PROVE  RunsGrow'
    BY <1>0, <2>1, <2>3 DEF Job, TypeOK
  <2>. QED
    BY <1>2, <2>2, <2>3 DEF EmbedBatches
<1>3. CASE WriteArtifacts(i)
  BY <1>0, <1>3 DEF WriteArtifacts, Idle, Job, TypeOK
<1>4. CASE WriteEmbedManifest(i)
  BY <1>0, <1>4 DEF WriteEmbedManifest, Return, Idle, Job, TypeOK
<1>. QED
  BY <1>1, <1>2, <1>3, <1>4 DEF Embed

\* An index call keeps the runs in order, step by step.
LEMMA IndexKeepsRunsGrow ==
  ASSUME TypeOK, RunsGrow, NEW i \in Instances, Alone(i), Index(i)
  PROVE  RunsGrow'
<1>. USE DEF RunsGrow, Alone, At, Continue, files, stores, counts, EmbedSteps, IndexSteps,
   EmbedManifest, Artifacts, IndexManifest
<1>0. job \in [Instances -> Job] /\ job[i] \in Job
  BY DEF TypeOK
<1>1. CASE IndexStart(i)
  BY <1>0, <1>1 DEF IndexStart, Idle, Job, TypeOK
<1>2. CASE IndexReadManifest(i)
  <2>1. At(i, "index.manifest") /\ UNCHANGED <<files, stores, counts>>
    BY <1>2 DEF IndexReadManifest
  <2>2. CASE Return(i)
    BY <2>1, <2>2, ReturnKeepsRunsGrow
  <2>3. CASE embedManifest.run # 0
          /\ Continue(i, [job[i] EXCEPT !.at = "index.chunks", !.hashed = embedManifest.rep])
    BY <1>0, <2>1, <2>3 DEF Job, TypeOK
  <2>. QED
    BY <1>2, <2>2, <2>3 DEF IndexReadManifest
<1>3. CASE IndexReadChunks(i)
  <2>1. At(i, "index.chunks") /\ UNCHANGED <<files, stores, counts>>
    BY <1>3 DEF IndexReadChunks
  <2>2. CASE Return(i)
    BY <2>1, <2>2, ReturnKeepsRunsGrow
  <2>3. CASE Continue(i, [job[i] EXCEPT !.at = "index.upsert"])
    BY <1>0, <2>1, <2>3 DEF Job, TypeOK
  <2>. QED
    BY <1>3, <2>2, <2>3 DEF IndexReadChunks
<1>4. CASE IndexUpsert(i)
  BY <1>0, <1>4 DEF IndexUpsert, Idle, Job, TypeOK
<1>5. CASE IndexBatchFails(i)
  BY <1>0, <1>5 DEF IndexBatchFails, Idle, Job, TypeOK
<1>6. CASE IndexVerify(i)
  <2>1. At(i, "index.upsert") /\ UNCHANGED <<files, stores, counts>>
    BY <1>6 DEF IndexVerify
  <2>2. CASE Return(i)
    BY <2>1, <2>2, ReturnKeepsRunsGrow
  <2>3. CASE job[i].todo = {} /\ job[i].done # {} /\ CountMatches(i)
          /\ Continue(i, [job[i] EXCEPT !.at = "index.source"])
    BY <1>0, <2>1, <2>3 DEF Job, TypeOK
  <2>. QED
    BY <1>6, <2>2, <2>3 DEF IndexVerify
<1>7. CASE IndexHashManifest(i)
  <2>1. At(i, "index.source") /\ UNCHANGED <<files, stores, counts>>
    BY <1>7 DEF IndexHashManifest
  <2>2. CASE Return(i)
    BY <2>1, <2>2, ReturnKeepsRunsGrow
  <2>3. CASE embedManifest.run # 0
          /\ Continue(i, [job[i] EXCEPT !.at = "index.checksum", !.source = embedManifest.run])
    BY <1>0, <2>1, <2>3 DEF Job, TypeOK
  <2>. QED
    BY <1>7, <2>2, <2>3 DEF IndexHashManifest
<1>8. CASE IndexHashArtifacts(i)
  <2>1. At(i, "index.checksum") /\ UNCHANGED <<files, stores, counts>>
    BY <1>8 DEF IndexHashArtifacts
  <2>2. CASE Return(i)
    BY <2>1, <2>2, ReturnKeepsRunsGrow
  <2>3. CASE embeddings.run # 0
          /\ Continue(i, [job[i] EXCEPT !.at = "index.write", !.checksum = embeddings.run])
    BY <1>0, <2>1, <2>3 DEF Job, TypeOK
  <2>. QED
    BY <1>8, <2>2, <2>3 DEF IndexHashArtifacts
<1>9. CASE WriteIndexManifest(i)
  BY <1>0, <1>9 DEF WriteIndexManifest, Return, Idle, Job, TypeOK
<1>. QED
  BY <1>1, <1>2, <1>3, <1>4, <1>5, <1>6, <1>7, <1>8, <1>9 DEF Index

\* A handler that dies, and what it leaves truncated, keeps it.
LEMMA AbortKeepsRunsGrow ==
  ASSUME TypeOK, RunsGrow, NEW i \in Instances, Alone(i), Abort(i)
  PROVE  RunsGrow'
  BY DEF TypeOK, RunsGrow, Alone, Abort, Torn, Return, Continue, At, Idle, stores, EmbedSteps,
     IndexSteps, NoArtifacts, NoEmbedManifest, NoIndexManifest, Artifacts, EmbedManifest,
     IndexManifest

\* Embedding runs only grow, and a manifest of the artifacts beside it records the
\* representation they embed.
THEOREM RunsAreOrdered ==
  ASSUME SingleInstance
  PROVE  Spec => []RunsGrow
<1>1. Init => RunsGrow
  BY DEF Init, RunsGrow, At, Idle, NoArtifacts, NoEmbedManifest, NoIndexManifest, EmbedSteps,
     IndexSteps
<1>2. TypeOK /\ EmbedPart /\ RunsGrow /\ [Next]_vars => RunsGrow'
  <2>. SUFFICES ASSUME TypeOK, EmbedPart, RunsGrow, [Next]_vars
                PROVE  RunsGrow'
    OBVIOUS
  <2>1. CASE UNCHANGED vars
    BY <2>1 DEF vars, RunsGrow, At, EmbedSteps, IndexSteps
  <2>2. ASSUME NEW i \in Instances, Handle(i) \/ Abort(i)
        PROVE  RunsGrow'
    <3>1. Alone(i)
      BY DEF Alone, SingleInstance
    <3>. QED
      BY <2>2, <3>1, RepresentKeepsRunsGrow, EmbedKeepsRunsGrow, IndexKeepsRunsGrow,
         BuildGraphKeepsRunsGrow, AbortKeepsRunsGrow DEF Handle
  <2>. QED
    BY <2>1, <2>2 DEF Next
<1>. QED
  BY <1>1, <1>2, TypeCorrect, EmbedPartHolds, PTL DEF Spec

-----------------------------------------------------------------------------
(* The index.                                                              *)

\* What PipelineInvariant says of the index.
IndexPart == IndexWorksOnArtifacts /\ FreshIndexServesItsArtifacts

\* A store that holds the points upserted, and as many, holds nothing else.
LEMMA CountTellsAll ==
  ASSUME NEW S \in SUBSET ChunkIds, NEW T \in SUBSET S, Cardinality(S) = Cardinality(T)
  PROVE  S = T
  BY ChunksAreFinite, FS_Subset

\* The number of points stored is a number, and storing points does not lower it.
LEMMA StoringAddsPoints ==
  ASSUME points \in [ChunkIds -> Point], points' \in [ChunkIds -> Point],
         \A c \in ChunkIds : points'[c].run = 0 => points[c].run = 0
  PROVE  /\ Cardinality(Stored) \in Nat /\ Cardinality(Stored') \in Nat
         /\ Cardinality(Stored) <= Cardinality(Stored')
<1>1. Stored \subseteq Stored' /\ Stored' \subseteq ChunkIds
  BY DEF Stored
<1>2. IsFiniteSet(Stored')
  BY <1>1, ChunksAreFinite
<1>. QED
  BY <1>1, <1>2, ChunksAreFinite, FS_Subset

\* Storing a point built from the artifacts keeps a fresh index manifest right.
LEMMA UpsertKeepsFreshIndex ==
  ASSUME TypeOK, RunsGrow, FreshIndexServesItsArtifacts, NEW i \in Instances,
         NEW c \in ChunkIds, c \in embeddings.ids, BuildPoint(i) \in Point,
         job[i].run = embeddings.run, job[i].hashed = embedManifest.rep, embeddings.run # 0,
         points' = [points EXCEPT ![c] = BuildPoint(i)],
         UNCHANGED <<embeddings, embedManifest, indexManifest>>
  PROVE  FreshIndexServesItsArtifacts'
<1>1. /\ points \in [ChunkIds -> Point] /\ points' \in [ChunkIds -> Point]
      /\ \A d \in ChunkIds \ {c} : points'[d] = points[d]
      /\ points'[c].run = embeddings.run /\ points'[c].stamp = embedManifest.rep
  BY DEF TypeOK, BuildPoint
<1>2. \A d \in ChunkIds : points'[d].run = 0 => points[d].run = 0
  BY <1>1
<1>3. /\ Cardinality(Stored) \in Nat /\ Cardinality(Stored') \in Nat
      /\ Cardinality(Stored) <= Cardinality(Stored')
  BY <1>1, <1>2, StoringAddsPoints
<1>. SUFFICES ASSUME ~IndexIsStale, embeddings.run = embedManifest.run
              PROVE  /\ \A d \in Stored' : /\ d \in embeddings.ids
                                           /\ points'[d].run = embeddings.run
                                           /\ points'[d].stamp = d[1]
                     /\ indexManifest.count <= Cardinality(Stored')
                     /\ indexManifest.count # 0
  BY DEF FreshIndexServesItsArtifacts, IndexIsStale
<1>4. /\ \A d \in Stored : /\ d \in embeddings.ids
                            /\ points[d].run = embeddings.run
                            /\ points[d].stamp = d[1]
      /\ indexManifest.count <= Cardinality(Stored) /\ indexManifest.count # 0
  BY DEF FreshIndexServesItsArtifacts
<1>5. embedManifest.rep = c[1]
  BY DEF RunsGrow, ChunksOf
<1>6. Stored' \subseteq Stored \cup {c}
  BY <1>1 DEF Stored
<1>. QED
  BY <1>1, <1>3, <1>4, <1>5, <1>6 DEF TypeOK, IndexManifest

\* A handler that ends keeps the index part.
LEMMA ReturnKeepsIndexPart ==
  ASSUME TypeOK, IndexPart, NEW i \in Instances, Alone(i), Return(i),
         UNCHANGED <<files, stores, counts>>
  PROVE  IndexPart'
  BY DEF TypeOK, IndexPart, Alone, Return, Continue, At, Idle, files, stores, counts,
     IndexWorksOnArtifacts, FreshIndexServesItsArtifacts, IndexIsStale, IndexSteps, Stored,
     BuildPoint

\* A represent call touches nothing the index part speaks of.
LEMMA RepresentKeepsIndexPart ==
  ASSUME TypeOK, IndexPart, NEW i \in Instances, Alone(i), Represent(i)
  PROVE  IndexPart'
  BY RepresentFrame DEF Alone, OnlyMoves, IndexPart, IndexWorksOnArtifacts,
     FreshIndexServesItsArtifacts, IndexIsStale, Stored, At, IndexSteps, RepresentSteps, stores,
     counts

\* A graph call touches nothing the index part speaks of.
LEMMA BuildGraphKeepsIndexPart ==
  ASSUME TypeOK, IndexPart, NEW i \in Instances, Alone(i), BuildGraph(i)
  PROVE  IndexPart'
  BY BuildGraphFrame DEF Alone, OnlyMoves, IndexPart, IndexWorksOnArtifacts,
     FreshIndexServesItsArtifacts, IndexIsStale, Stored, At, IndexSteps, GraphSteps, stores,
     counts

\* An embed call keeps the index part, step by step.
LEMMA EmbedKeepsIndexPart ==
  ASSUME TypeOK, RunsGrow, EmbedPart, IndexPart, NEW i \in Instances, Alone(i), Embed(i)
  PROVE  IndexPart'
<1>. USE DEF IndexPart, RunsGrow, EmbedPart, EmbedWorksOnUnits, EmbedSteps, Alone, At, Continue,
   files, stores, counts, IndexWorksOnArtifacts, FreshIndexServesItsArtifacts, IndexIsStale,
   IndexSteps, EmbedManifest, Artifacts, IndexManifest, Stored, BuildPoint
<1>0. job \in [Instances -> Job] /\ job[i] \in Job
  BY DEF TypeOK
<1>1. CASE EmbedStart(i)
  BY <1>0, <1>1 DEF EmbedStart, Idle, Job, TypeOK
<1>2. CASE EmbedBatches(i)
  <2>1. At(i, "embed.version") /\ UNCHANGED <<files, stores, counts>>
    BY <1>2 DEF EmbedBatches
  <2>2. CASE Return(i)
    BY <2>1, <2>2, ReturnKeepsIndexPart
  <2>3. ASSUME NEW ids \in Survivors(job[i].rep), units # 0,
               Continue(i, [job[i] EXCEPT !.at = "embed.artifacts", !.hashed = units,
                                          !.done = ids])
        PROVE  IndexPart'
    BY <1>0, <2>1, <2>3 DEF Job, TypeOK
  <2>. QED
    BY <1>2, <2>2, <2>3 DEF EmbedBatches
<1>3. CASE WriteArtifacts(i)
  BY <1>0, <1>3 DEF WriteArtifacts, Idle, Job, TypeOK
<1>4. CASE WriteEmbedManifest(i)
  BY <1>0, <1>4 DEF WriteEmbedManifest, Return, Idle, Job, TypeOK
<1>. QED
  BY <1>1, <1>2, <1>3, <1>4 DEF Embed

\* An index call keeps the index part, step by step.
LEMMA IndexKeepsIndexPart ==
  ASSUME TypeOK, RunsGrow, EmbedPart, IndexPart, NEW i \in Instances, Alone(i), Index(i)
  PROVE  IndexPart'
<1>. USE DEF IndexPart, Alone, At, Continue, files, stores, counts, IndexWorksOnArtifacts,
   FreshIndexServesItsArtifacts, IndexIsStale, IndexSteps, EmbedManifest, Artifacts,
   IndexManifest, Stored, BuildPoint
<1>0. job \in [Instances -> Job] /\ job[i] \in Job
  BY DEF TypeOK
<1>1. CASE IndexStart(i)
  BY <1>0, <1>1 DEF IndexStart, Idle, Job, TypeOK
<1>2. CASE IndexReadManifest(i)
  <2>1. At(i, "index.manifest") /\ UNCHANGED <<files, stores, counts>>
    BY <1>2 DEF IndexReadManifest
  <2>2. CASE Return(i)
    BY <2>1, <2>2, ReturnKeepsIndexPart
  <2>3. CASE embedManifest.run # 0
          /\ Continue(i, [job[i] EXCEPT !.at = "index.chunks", !.hashed = embedManifest.rep])
    BY <1>0, <2>1, <2>3 DEF Job, TypeOK
  <2>. QED
    BY <1>2, <2>2, <2>3 DEF IndexReadManifest
<1>3. CASE IndexReadChunks(i)
  <2>1. At(i, "index.chunks") /\ UNCHANGED <<files, stores, counts>>
    BY <1>3 DEF IndexReadChunks
  <2>2. CASE Return(i)
    BY <2>1, <2>2, ReturnKeepsIndexPart
  <2>3. CASE Continue(i, [job[i] EXCEPT !.at = "index.upsert"])
    BY <1>0, <2>1, <2>3 DEF Job, TypeOK
  <2>. QED
    BY <1>3, <2>2, <2>3 DEF IndexReadChunks
<1>4. CASE IndexUpsert(i)
  <2>1. PICK c \in job[i].todo :
             /\ points' = [points EXCEPT ![c] = BuildPoint(i)]
             /\ job' = [job EXCEPT ![i] = [job[i] EXCEPT !.todo = @ \ {c}, !.done = @ \cup {c}]]
    BY <1>4 DEF IndexUpsert
  <2>2. At(i, "index.upsert") /\ UNCHANGED <<files, graph, counts>>
    BY <1>4 DEF IndexUpsert
  <2>3. /\ job'[i].at = "index.upsert" /\ job'[i].run = job[i].run
        /\ job'[i].hashed = job[i].hashed
        /\ job'[i].todo = job[i].todo \ {c} /\ job'[i].done = job[i].done \cup {c}
    BY <1>0, <2>1, <2>2 DEF Job
  <2>4. /\ c \in ChunkIds /\ c \in embeddings.ids /\ BuildPoint(i) \in Point
        /\ job[i].run = embeddings.run /\ job[i].hashed = embedManifest.rep /\ embeddings.run # 0
    BY <1>0, <2>1, <2>2 DEF Job, Point
  <2>5. FreshIndexServesItsArtifacts'
    BY <2>1, <2>2, <2>4, UpsertKeepsFreshIndex
  <2>6. points'[c] = BuildPoint(i) /\ \A d \in ChunkIds \ {c} : points'[d] = points[d]
    BY <2>1, <2>4 DEF TypeOK
  <2>7. IndexWorksOnArtifacts'
    BY <1>0, <2>2, <2>3, <2>4, <2>6 DEF Job
  <2>. QED
    BY <2>5, <2>7
<1>5. CASE IndexBatchFails(i)
  <2>1. PICK c \in job[i].todo :
             /\ points' \in {points, [points EXCEPT ![c] = BuildPoint(i)]}
             /\ job' = [job EXCEPT ![i] = [job[i] EXCEPT !.todo = @ \ {c}]]
    BY <1>5 DEF IndexBatchFails
  <2>2. At(i, "index.upsert") /\ UNCHANGED <<files, graph, counts>>
    BY <1>5 DEF IndexBatchFails
  <2>3. /\ job'[i].at = "index.upsert" /\ job'[i].run = job[i].run
        /\ job'[i].hashed = job[i].hashed
        /\ job'[i].todo = job[i].todo \ {c} /\ job'[i].done = job[i].done
    BY <1>0, <2>1, <2>2 DEF Job
  <2>4. /\ c \in ChunkIds /\ c \in embeddings.ids /\ BuildPoint(i) \in Point
        /\ job[i].run = embeddings.run /\ job[i].hashed = embedManifest.rep /\ embeddings.run # 0
    BY <1>0, <2>1, <2>2 DEF Job, Point
  <2>5. FreshIndexServesItsArtifacts'
    <3>1. CASE points' = points
      BY <2>2, <3>1
    <3>2. CASE points' = [points EXCEPT ![c] = BuildPoint(i)]
      BY <2>2, <2>4, <3>2, UpsertKeepsFreshIndex
    <3>. QED
      BY <2>1, <3>1, <3>2
  <2>6. points'[c] \in {points[c],
     BuildPoint(i)} /\ \A d \in ChunkIds \ {c} : points'[d] = points[d]
    BY <2>1, <2>4 DEF TypeOK
  <2>7. IndexWorksOnArtifacts'
    BY <1>0, <2>2, <2>3, <2>4, <2>6 DEF Job
  <2>. QED
    BY <2>5, <2>7
<1>6. CASE IndexVerify(i)
  <2>1. At(i, "index.upsert") /\ UNCHANGED <<files, stores, counts>>
    BY <1>6 DEF IndexVerify
  <2>2. CASE Return(i)
    BY <2>1, <2>2, ReturnKeepsIndexPart
  <2>3. CASE job[i].todo = {} /\ job[i].done # {} /\ CountMatches(i)
          /\ Continue(i, [job[i] EXCEPT !.at = "index.source"])
    <3>0. /\ \A c \in job[i].done : points[c] = BuildPoint(i)
          /\ job[i].run # 0 /\ job[i].done \subseteq ChunkIds
      BY <1>0, <2>1 DEF Job
    <3>1. \A c \in job[i].done : c \in ChunkIds /\ points[c].run # 0
      BY <3>0
    <3>2. job[i].done \in SUBSET Stored /\ Stored \in SUBSET ChunkIds
      BY <3>1
    <3>3. Stored = job[i].done
      BY <2>3, <3>2, CountTellsAll DEF CountMatches
    <3>. QED
      BY <1>0, <2>1, <2>3, <3>3 DEF Job, TypeOK
  <2>. QED
    BY <1>6, <2>2, <2>3 DEF IndexVerify
<1>7. CASE IndexHashManifest(i)
  <2>1. At(i, "index.source") /\ UNCHANGED <<files, stores, counts>>
    BY <1>7 DEF IndexHashManifest
  <2>2. CASE Return(i)
    BY <2>1, <2>2, ReturnKeepsIndexPart
  <2>3. CASE embedManifest.run # 0
          /\ Continue(i, [job[i] EXCEPT !.at = "index.checksum", !.source = embedManifest.run])
    BY <1>0, <2>1, <2>3 DEF Job, TypeOK
  <2>. QED
    BY <1>7, <2>2, <2>3 DEF IndexHashManifest
<1>8. CASE IndexHashArtifacts(i)
  <2>1. At(i, "index.checksum") /\ UNCHANGED <<files, stores, counts>>
    BY <1>8 DEF IndexHashArtifacts
  <2>2. CASE Return(i)
    BY <2>1, <2>2, ReturnKeepsIndexPart
  <2>3. CASE embeddings.run # 0
          /\ Continue(i, [job[i] EXCEPT !.at = "index.write", !.checksum = embeddings.run])
    BY <1>0, <2>1, <2>3 DEF Job, TypeOK
  <2>. QED
    BY <1>8, <2>2, <2>3 DEF IndexHashArtifacts
<1>9. CASE WriteIndexManifest(i)
  <2>1. /\ At(i, "index.write") /\ Return(i)
        /\ indexManifest' = [source |-> job[i].source, checksum |-> job[i].checksum,
                             count |-> Cardinality(job[i].done)]
        /\ UNCHANGED <<embeddings, embedManifest, points>>
    BY <1>9 DEF WriteIndexManifest
  <2>2. job[i].done # {} /\ Stored = job[i].done /\ job[i].done \subseteq embeddings.ids
    BY <2>1
  <2>3. Cardinality(Stored) \in Nat /\ Cardinality(Stored) # 0
    BY <1>0, <2>2, ChunksAreFinite, FS_EmptySet DEF Job
  <2>4. \A c \in job[i].done : /\ c \in embeddings.ids
                               /\ points[c].run = embeddings.run
                               /\ points[c].stamp = embedManifest.rep
    <3>1. /\ \A c \in job[i].done : points[c] = BuildPoint(i)
          /\ job[i].run = embeddings.run /\ job[i].hashed = embedManifest.rep
      BY <2>1
    <3>. QED
      BY <2>2, <3>1
  <2>5. embeddings.run = embedManifest.run /\ embedManifest.run # 0
          => \A c \in job[i].done : embedManifest.rep = c[1]
    BY <2>2 DEF RunsGrow, ChunksOf
  <2>6. FreshIndexServesItsArtifacts'
    <3>1. /\ Stored' = job[i].done /\ indexManifest'.count = Cardinality(job[i].done)
          /\ Cardinality(Stored') = Cardinality(job[i].done)
          /\ Cardinality(job[i].done) \in Nat /\ Cardinality(job[i].done) # 0
      BY <2>1, <2>2, <2>3
    <3>2. embedManifest.run # 0
      BY <1>0, <2>1
    <3>3. \A c \in job[i].done :
            embeddings.run = embedManifest.run => points[c].stamp = c[1]
      BY <2>4, <2>5, <3>2
    <3>4. UNCHANGED <<embeddings, embedManifest, points>>
      BY <2>1
    <3>. HIDE DEF Stored, IndexPart, IndexWorksOnArtifacts
    <3>. QED
      BY <2>4, <3>1, <3>3, <3>4
  <2>7. IndexWorksOnArtifacts'
    BY <1>0, <2>1 DEF Return, Idle
  <2>. QED
    BY <2>6, <2>7
<1>. QED
  BY <1>1, <1>2, <1>3, <1>4, <1>5, <1>6, <1>7, <1>8, <1>9 DEF Index

\* A handler that dies, and what it leaves truncated, keeps it.
LEMMA AbortKeepsIndexPart ==
  ASSUME TypeOK, RunsGrow, IndexPart, NEW i \in Instances, Alone(i), Abort(i)
  PROVE  IndexPart'
  BY DEF TypeOK, IndexPart, Alone, Abort, Torn, Return, Continue, At, Idle, stores,
     IndexWorksOnArtifacts, FreshIndexServesItsArtifacts, IndexIsStale, IndexSteps, Stored,
     BuildPoint, NoArtifacts, NoEmbedManifest, NoIndexManifest, Artifacts, EmbedManifest,
     IndexManifest

\* An index manifest that makes index_document skip is right about Qdrant.
THEOREM IndexPartHolds ==
  ASSUME SingleInstance
  PROVE  Spec => []IndexPart
<1>1. Init => IndexPart
  BY DEF Init, IndexPart, At, Idle, NoArtifacts, NoEmbedManifest, NoIndexManifest,
     IndexWorksOnArtifacts, FreshIndexServesItsArtifacts, IndexIsStale, IndexSteps
<1>2. TypeOK /\ RunsGrow /\ EmbedPart /\ IndexPart /\ [Next]_vars => IndexPart'
  <2>. SUFFICES ASSUME TypeOK, RunsGrow, EmbedPart, IndexPart, [Next]_vars
                PROVE  IndexPart'
    OBVIOUS
  <2>1. CASE UNCHANGED vars
    BY <2>1 DEF vars, IndexPart, At, IndexWorksOnArtifacts, FreshIndexServesItsArtifacts,
       IndexIsStale, IndexSteps, Stored, BuildPoint
  <2>2. ASSUME NEW i \in Instances, Handle(i) \/ Abort(i)
        PROVE  IndexPart'
    <3>1. Alone(i)
      BY DEF Alone, SingleInstance
    <3>. QED
      BY <2>2, <3>1, RepresentKeepsIndexPart, EmbedKeepsIndexPart, IndexKeepsIndexPart,
         BuildGraphKeepsIndexPart, AbortKeepsIndexPart DEF Handle
  <2>. QED
    BY <2>1, <2>2 DEF Next
<1>. QED
  BY <1>1, <1>2, TypeCorrect, RunsAreOrdered, EmbedPartHolds, PTL DEF Spec

-----------------------------------------------------------------------------
(* What one backend process promises.                                      *)

\* A graph manifest that makes build_graph skip is right: Neo4j holds the
\* graph of exactly the representation on disk.
THEOREM FreshGraphs ==
  ASSUME SingleInstance
  PROVE  Spec => []FreshGraphIsCurrent
<1>1. GraphPart => FreshGraphIsCurrent
  BY DEF GraphPart
<1>. QED
  BY <1>1, GraphPartHolds, PTL

\* An embedding manifest that makes embed_document skip is right: readable
\* artifacts beside it embed chunks of the representation on disk.
THEOREM FreshEmbeddings ==
  ASSUME SingleInstance
  PROVE  Spec => []FreshEmbeddingsAreCurrent
<1>1. EmbedPart => FreshEmbeddingsAreCurrent
  BY DEF EmbedPart
<1>. QED
  BY <1>1, EmbedPartHolds, PTL

\* An index manifest that makes index_document skip is right: Qdrant serves
\* points of the artifacts on disk and of nothing else.
THEOREM FreshIndexes ==
  ASSUME SingleInstance
  PROVE  Spec => []FreshIndexServesItsArtifacts
<1>1. IndexPart => FreshIndexServesItsArtifacts
  BY DEF IndexPart
<1>. QED
  BY <1>1, IndexPartHolds, PTL

\* The checksum an indexing call is about to record is of the artifacts it
\* read and upserted, although it reads the file twice.
THEOREM ChecksumsAreOfIndexedArtifacts ==
  ASSUME SingleInstance
  PROVE  Spec => []ChecksumIsOfIndexedArtifacts
<1>1. IndexPart => ChecksumIsOfIndexedArtifacts
  BY DEF IndexPart, IndexWorksOnArtifacts, ChecksumIsOfIndexedArtifacts, At, IndexSteps
<1>. QED
  BY <1>1, IndexPartHolds, PTL

\* The whole invariant of PipelineInvariant holds of one backend process.
THEOREM SingleProcess ==
  ASSUME SingleInstance
  PROVE  Spec => []Invariant
<1>1. VersionsGrow /\ GraphPart /\ EmbedPart /\ RunsGrow /\ IndexPart => Invariant
  BY DEF Invariant, GraphPart, EmbedPart, IndexPart
<1>. QED
  BY <1>1, VersionsAreOrdered, GraphPartHolds, EmbedPartHolds, RunsAreOrdered, IndexPartHolds, PTL


-----------------------------------------------------------------------------
(* The graph implements DerivedArtifact.                                   *)

\* What the abstract specification sees of the graph stage.
GraphVars == <<units, relationships, graph, graphManifest>>

\* A represent call changes the source to a version that no manifest names,
\* or to one with a file that cannot be read.
LEMMA RepresentMapsToGraph ==
  ASSUME TypeOK, VersionsGrow, GraphPart, NEW i \in Instances, Represent(i)
  PROVE  GraphOf!ChangeSource \/ UNCHANGED GraphVars
<1>. USE DEF VersionsGrow, At, Continue, files, stores, counts, GraphVars
<1>1. CASE RepresentStart(i)
  BY <1>1 DEF RepresentStart
<1>2. CASE WriteUnits(i)
  BY <1>2 DEF WriteUnits, GraphOf!ChangeSource, GraphPair, NoGraph, TypeOK, Graph
<1>3. CASE WriteRelationships(i)
  BY <1>3 DEF WriteRelationships, GraphOf!ChangeSource, GraphPair, NoGraph, TypeOK, Graph
<1>. QED
  BY <1>1, <1>2, <1>3 DEF Represent

\* A graph call replaces the graph by that of the source, and then claims the
\* graph it has written.
LEMMA BuildGraphMapsToGraph ==
  ASSUME TypeOK, GraphPart, NEW i \in Instances, BuildGraph(i)
  PROVE  GraphOf!Derive \/ GraphOf!Certify \/ UNCHANGED GraphVars
<1>. USE DEF GraphPart, GraphWorksOnFiles, At, Continue, Return, files, stores, counts, GraphVars
<1>0. job \in [Instances -> Job] /\ job[i] \in Job
  BY DEF TypeOK
<1>1. CASE GraphReplace(i)
  BY <1>0, <1>1 DEF GraphReplace, GraphOf!Derive, GraphPair, NoGraph, GraphSteps
<1>2. CASE WriteGraphManifest(i)
  BY <1>0, <1>2 DEF WriteGraphManifest, GraphOf!Certify, GraphPair, NoGraph, GraphSteps
<1>3. CASE GraphStart(i) \/ GraphCheckFresh(i) \/ GraphReadUnits(i) \/ GraphReadRelationships(i)
  BY <1>3 DEF GraphStart, GraphCheckFresh, GraphReadUnits, GraphReadRelationships
<1>. QED
  BY <1>1, <1>2, <1>3 DEF BuildGraph

\* A handler that dies may lose a file: the source, or the claim.
LEMMA AbortMapsToGraph ==
  ASSUME TypeOK, NEW i \in Instances, Abort(i)
  PROVE  GraphOf!ChangeSource \/ GraphOf!Certify \/ UNCHANGED GraphVars
<1>. USE DEF Abort, Torn, At, stores, GraphVars, GraphPair, NoGraph
<1>1. CASE At(i, "represent.units") \/ At(i, "represent.relationships")
  BY <1>1 DEF GraphOf!ChangeSource
<1>2. CASE At(i, "graph.write")
  BY <1>2 DEF GraphOf!Certify
<1>3. CASE ~(At(i, "represent.units") \/ At(i, "represent.relationships") \/ At(i, "graph.write"))
  BY <1>3
<1>. QED
  BY <1>1, <1>2, <1>3

\* Neo4j and graph_manifest.json are a derived artifact of the two
\* representation files (graph/services/graph_service.py).
THEOREM GraphImplements ==
  ASSUME SingleInstance
  PROVE  Spec => GraphIsDerived
<1>1. Init => GraphOf!Init
  BY DEF Init, GraphOf!Init, GraphPair, NoGraph
<1>2. TypeOK /\ VersionsGrow /\ GraphPart /\ [Next]_vars => [GraphOf!Next]_(GraphOf!vars)
  <2>. SUFFICES ASSUME TypeOK, VersionsGrow, GraphPart, [Next]_vars
                PROVE  [GraphOf!Next]_(GraphOf!vars)
    OBVIOUS
  <2>1. CASE UNCHANGED GraphVars
    BY <2>1 DEF GraphVars, GraphOf!vars, GraphPair
  <2>2. CASE UNCHANGED vars
    BY <2>1, <2>2 DEF vars, GraphVars
  <2>3. ASSUME NEW i \in Instances, Handle(i) \/ Abort(i)
        PROVE  GraphOf!Next \/ UNCHANGED GraphVars
    <3>1. CASE Embed(i)
      BY <3>1, EmbedFrame DEF stores, GraphVars
    <3>2. CASE Index(i)
      BY <3>2, IndexFrame DEF GraphVars
    <3>. QED
      BY <2>3, <3>1, <3>2, RepresentMapsToGraph, BuildGraphMapsToGraph, AbortMapsToGraph
         DEF Handle, GraphOf!Next
  <2>. QED
    BY <2>1, <2>2, <2>3 DEF Next
<1>. QED
  BY <1>1, <1>2, TypeCorrect, VersionsAreOrdered, GraphPartHolds, PTL DEF Spec, GraphIsDerived, GraphOf!Spec

-----------------------------------------------------------------------------
(* The embeddings.                                                         *)

\* What the abstract specification sees of the embed stage.
EmbeddingVars == <<units, embeddings, embedManifest>>

\* The version a set of chunk ids is of is that of any of its members.
Version(ids) == (CHOOSE c \in ids : TRUE)[1]

\* Chunks of one representation have its version.
LEMMA VersionOfChunks ==
  ASSUME NEW r, NEW ids, ids # {}, ids \subseteq ChunksOf(r)
  PROVE  Version(ids) = r
<1>1. (CHOOSE c \in ids : TRUE) \in ids
  OBVIOUS
<1>. QED
  BY <1>1 DEF Version, ChunksOf

\* A represent call changes the source to a version no manifest names.
LEMMA RepresentMapsToEmbedding ==
  ASSUME TypeOK, VersionsGrow, NEW i \in Instances, Represent(i)
  PROVE  EmbeddingOf!ChangeSource \/ UNCHANGED EmbeddingVars
<1>. USE DEF VersionsGrow, At, Continue, files, EmbeddingVars
<1>1. CASE RepresentStart(i)
  BY <1>1 DEF RepresentStart
<1>2. CASE WriteUnits(i)
  BY <1>2 DEF WriteUnits, EmbeddingOf!ChangeSource, TypeOK, EmbedManifest
<1>3. CASE WriteRelationships(i)
  BY <1>3 DEF WriteRelationships
<1>. QED
  BY <1>1, <1>2, <1>3 DEF Represent

\* An embed call writes artifacts of the source, and then claims what it wrote.
LEMMA EmbedMapsToEmbedding ==
  ASSUME TypeOK, EmbedPart, RunsGrow, NEW i \in Instances, Embed(i)
  PROVE  EmbeddingOf!Derive \/ EmbeddingOf!Certify \/ UNCHANGED EmbeddingVars
<1>. USE DEF EmbedPart, EmbedWorksOnUnits, At, Continue, Return, files, EmbedSteps
<1>0. job \in [Instances -> Job] /\ job[i] \in Job
  BY DEF TypeOK
<1>1. CASE WriteArtifacts(i)
  <2>1. Version(embeddings'.ids) = units
    BY <1>0, <1>1, VersionOfChunks DEF WriteArtifacts
  <2>. QED
    BY <1>1, <2>1 DEF WriteArtifacts, EmbeddingOf!Derive, Version
<1>2. CASE WriteEmbedManifest(i)
  <2>1. Version(embeddings.ids) = units /\ embeddings.run # 0
    BY <1>0, <1>2, VersionOfChunks DEF WriteEmbedManifest, RunsGrow, TypeOK, EmbedManifest
  <2>2. embedManifest'.rep = units
    BY <1>0, <1>2 DEF WriteEmbedManifest
  <2>. QED
    BY <1>2, <2>1, <2>2 DEF WriteEmbedManifest, EmbeddingOf!Certify, Version
<1>3. CASE EmbedStart(i) \/ EmbedBatches(i)
  BY <1>3 DEF EmbedStart, EmbedBatches, EmbeddingVars
<1>. QED
  BY <1>1, <1>2, <1>3 DEF Embed

\* A handler that dies may lose a file: the source, the artifacts or the claim.
LEMMA AbortMapsToEmbedding ==
  ASSUME TypeOK, NEW i \in Instances, Abort(i)
  PROVE  EmbeddingOf!Next \/ UNCHANGED EmbeddingVars
<1>. USE DEF Abort, Torn, At, EmbeddingVars, NoArtifacts, NoEmbedManifest, EmbeddingOf!Next
<1>1. CASE At(i, "represent.units")
  BY <1>1 DEF EmbeddingOf!ChangeSource
<1>2. CASE At(i, "embed.artifacts")
  BY <1>2 DEF EmbeddingOf!Derive
<1>3. CASE At(i, "embed.manifest")
  BY <1>3 DEF EmbeddingOf!Certify
<1>4. CASE ~(At(i, "represent.units") \/ At(i, "embed.artifacts") \/ At(i, "embed.manifest"))
  BY <1>4
<1>. QED
  BY <1>1, <1>2, <1>3, <1>4

\* embeddings.json and its manifest.json are a derived artifact of
\* knowledge_units.json (embeddings/services/embedding_service.py).
THEOREM EmbeddingImplements ==
  ASSUME SingleInstance
  PROVE  Spec => EmbeddingsAreDerived
<1>1. Init => EmbeddingOf!Init
  BY DEF Init, EmbeddingOf!Init, NoArtifacts, NoEmbedManifest
<1>2. TypeOK /\ VersionsGrow /\ EmbedPart /\ RunsGrow /\ [Next]_vars
        => [EmbeddingOf!Next]_(EmbeddingOf!vars)
  <2>. SUFFICES ASSUME TypeOK, VersionsGrow, EmbedPart, RunsGrow, [Next]_vars
                PROVE  [EmbeddingOf!Next]_(EmbeddingOf!vars)
    OBVIOUS
  <2>1. CASE UNCHANGED EmbeddingVars
    BY <2>1 DEF EmbeddingVars, EmbeddingOf!vars
  <2>2. CASE UNCHANGED vars
    BY <2>1, <2>2 DEF vars, EmbeddingVars
  <2>3. ASSUME NEW i \in Instances, Handle(i) \/ Abort(i)
        PROVE  EmbeddingOf!Next \/ UNCHANGED EmbeddingVars
    <3>1. CASE BuildGraph(i)
      BY <3>1, BuildGraphFrame DEF EmbeddingVars
    <3>2. CASE Index(i)
      BY <3>2, IndexFrame DEF EmbeddingVars
    <3>. QED
      BY <2>3, <3>1, <3>2, RepresentMapsToEmbedding, EmbedMapsToEmbedding, AbortMapsToEmbedding
         DEF Handle, EmbeddingOf!Next
  <2>. QED
    BY <2>1, <2>2, <2>3 DEF Next
<1>. QED
  BY <1>1, <1>2, TypeCorrect, VersionsAreOrdered, EmbedPartHolds, RunsAreOrdered, PTL
     DEF Spec, EmbeddingsAreDerived, EmbeddingOf!Spec

-----------------------------------------------------------------------------
(* What the abstract specification promises.                               *)

\* Whoever implements DerivedArtifact never claims more of the current source
\* than is true; so the graph that makes build_graph skip is the one claimed.
THEOREM GraphClaimIsTrue ==
  ASSUME SingleInstance
  PROVE  Spec => []GraphOf!ClaimIsTrue
<1>1. GraphOf!Init => GraphOf!ClaimIsTrue
  BY DEF GraphOf!Init, GraphOf!ClaimIsTrue
<1>2. GraphOf!ClaimIsTrue /\ [GraphOf!Next]_(GraphOf!vars) => GraphOf!ClaimIsTrue'
  BY DEF GraphOf!ClaimIsTrue, GraphOf!Next, GraphOf!vars, GraphOf!ChangeSource, GraphOf!Derive,
     GraphOf!Certify
<1>. QED
  BY <1>1, <1>2, GraphImplements, PTL DEF GraphIsDerived, GraphOf!Spec

\* The embeddings that make embed_document skip are of the current chunks, if
\* they can be read.
THEOREM EmbeddingClaimIsTrue ==
  ASSUME SingleInstance
  PROVE  Spec => []EmbeddingOf!ClaimIsTrue
<1>1. EmbeddingOf!Init => EmbeddingOf!ClaimIsTrue
  BY DEF EmbeddingOf!Init, EmbeddingOf!ClaimIsTrue
<1>2. EmbeddingOf!ClaimIsTrue /\ [EmbeddingOf!Next]_(EmbeddingOf!vars) => EmbeddingOf!ClaimIsTrue'
  BY DEF EmbeddingOf!ClaimIsTrue, EmbeddingOf!Next, EmbeddingOf!vars, EmbeddingOf!ChangeSource,
     EmbeddingOf!Derive, EmbeddingOf!Certify
<1>. QED
  BY <1>1, <1>2, EmbeddingImplements, PTL DEF EmbeddingsAreDerived, EmbeddingOf!Spec

=============================================================================
