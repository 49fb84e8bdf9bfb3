------------------------------ MODULE IndexStage ------------------------------
(***************************************************************************)
(* POST /documents/{id}/index: IndexingService.index_document over         *)
(* IndexRepository, the vector store and IndexValidator.  A point's id is  *)
(* the chunk's id, the store has no delete, and the count it is verified   *)
(* by is that of ALL the document's points in the collection.              *)
(***************************************************************************)
EXTENDS PipelineState

\* IndexRepository.is_stale.
IndexIsStale == indexManifest.source = 0 \/ indexManifest.source # embedManifest.run

\* The handler goes past the freshness check and reads embeddings.json.
IndexStart(i) ==
  /\ At(i, "idle")
  /\ embeddings.run # 0
  /\ TRUE \in ForceValues \/ IndexIsStale
  /\ Continue(i, [Idle EXCEPT !.at = "index.manifest", !.run = embeddings.run,
                              !.todo = embeddings.ids])
  /\ UNCHANGED <<files, stores, counts>>

\* The embedding manifest is read: every payload's source_document_checksum
\* is the representation version it records.
IndexReadManifest(i) ==
  /\ At(i, "index.manifest")
  /\ IF embedManifest.run = 0   \* EmbeddingArtifactsNotFoundError
     THEN Return(i)
     ELSE Continue(i, [job[i] EXCEPT !.at = "index.chunks", !.hashed = embedManifest.rep])
  /\ UNCHANGED <<files, stores, counts>>

\* Every artifact's chunk is in the representation read now: chunks[id] is a
\* KeyError otherwise.
ChunksAreCurrent(i) == job[i].todo \subseteq ChunksOf(units)

\* The chunks and the relationships are read, in one step because only the
\* citation counts, which are not modelled, depend on both; the collection is
\* ensured and the points are built.
IndexReadChunks(i) ==
  /\ At(i, "index.chunks")
  /\ IF units # 0 /\ relationships # 0 /\ ChunksAreCurrent(i)
     THEN Continue(i, [job[i] EXCEPT !.at = "index.upsert"])
     ELSE Return(i)
  /\ UNCHANGED <<files, stores, counts>>

BuildPoint(i) == [run |-> job[i].run, stamp |-> job[i].hashed]

\* Mutant: a batch is counted as indexed without waiting for the store.
IndexUpsert_Unwaited(i) ==
  /\ At(i, "index.upsert")
  /\ \E c \in job[i].todo :
       /\ points' \in {points, [points EXCEPT ![c] = BuildPoint(i)]}
       /\ Continue(i, [job[i] EXCEPT !.todo = @ \ {c}, !.done = @ \cup {c}])
  /\ UNCHANGED <<files, graph, counts>>

\* A batch (of one point) is upserted: an existing point of that id is replaced.
IndexUpsert(i) ==
  /\ At(i, "index.upsert")
  /\ \E c \in job[i].todo :
       /\ points' = [points EXCEPT ![c] = BuildPoint(i)]
       /\ Continue(i, [job[i] EXCEPT !.todo = @ \ {c}, !.done = @ \cup {c}])
  /\ UNCHANGED <<files, graph, counts>>

\* A batch fails after its retries and is counted as failed; an attempt the
\* store answered with an error may have been applied all the same.
IndexBatchFails(i) ==
  /\ At(i, "index.upsert")
  /\ PartialFailures
  /\ \E c \in job[i].todo :
       /\ points' \in {points, [points EXCEPT ![c] = BuildPoint(i)]}
       /\ Continue(i, [job[i] EXCEPT !.todo = @ \ {c}])
  /\ UNCHANGED <<files, graph, counts>>

\* Mutant: the verification accepts more points than were upserted.
CountMatches_AtLeast(i) == Cardinality(Stored) >= Cardinality(job[i].done)

\* IndexValidator.verify: the document has as many points as were upserted.
\* (Its other checks pass: the collection was ensured, nothing is deleted.)
CountMatches(i) == Cardinality(Stored) = Cardinality(job[i].done)

\* Mutant: a call that indexed nothing goes on to its manifest.
IndexVerify_AcceptsNothing(i) ==
  /\ At(i, "index.upsert")
  /\ job[i].todo = {}
  /\ IF CountMatches(i)
     THEN Continue(i, [job[i] EXCEPT !.at = "index.source"])
     ELSE Return(i)
  /\ UNCHANGED <<files, stores, counts>>

\* Every batch is done: nothing indexed is NoVectorsIndexedError, a wrong
\* count IndexedCountMismatchError.
IndexVerify(i) ==
  /\ At(i, "index.upsert")
  /\ job[i].todo = {}
  /\ IF job[i].done # {} /\ CountMatches(i)
     THEN Continue(i, [job[i] EXCEPT !.at = "index.source"])
     ELSE Return(i)
  /\ UNCHANGED <<files, stores, counts>>

\* compute_embedding_manifest_hash and compute_embeddings_checksum read the
\* two files again, as they are now.
IndexHashManifest(i) ==
  /\ At(i, "index.source")
  /\ IF embedManifest.run = 0
     THEN Return(i)
     ELSE Continue(i, [job[i] EXCEPT !.at = "index.checksum", !.source = embedManifest.run])
  /\ UNCHANGED <<files, stores, counts>>

\* Mutant: the checksum is taken of the embedding manifest.
IndexHashArtifacts_OfManifest(i) ==
  /\ At(i, "index.checksum")
  /\ Continue(i, [job[i] EXCEPT !.at = "index.write", !.checksum = embedManifest.run])
  /\ UNCHANGED <<files, stores, counts>>

IndexHashArtifacts(i) ==
  /\ At(i, "index.checksum")
  /\ IF embeddings.run = 0
     THEN Return(i)
     ELSE Continue(i, [job[i] EXCEPT !.at = "index.write", !.checksum = embeddings.run])
  /\ UNCHANGED <<files, stores, counts>>

WriteIndexManifest(i) ==
  /\ At(i, "index.write")
  /\ indexManifest' = [source |-> job[i].source, checksum |-> job[i].checksum,
                       count |-> Cardinality(job[i].done)]
  /\ Return(i)
  /\ UNCHANGED <<units, relationships, embeddings, embedManifest, graphManifest, stores, counts>>

Index(i) ==
  \/ IndexStart(i) \/ IndexReadManifest(i) \/ IndexReadChunks(i)
  \/ IndexUpsert(i) \/ IndexBatchFails(i) \/ IndexVerify(i)
  \/ IndexHashManifest(i) \/ IndexHashArtifacts(i) \/ WriteIndexManifest(i)

=============================================================================
