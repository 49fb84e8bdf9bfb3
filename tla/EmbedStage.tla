------------------------------ MODULE EmbedStage ------------------------------
(***************************************************************************)
(* POST /documents/{id}/embed: EmbeddingService.embed_document over        *)
(* EmbeddingRepository.  One embedding model is configured throughout.     *)
(***************************************************************************)
EXTENDS PipelineState

\* Mutant: any manifest counts as fresh, whatever representation it records.
EmbeddingIsStale_IgnoresSource == embedManifest.run = 0

\* EmbeddingRepository.is_stale, for a fixed model.
EmbeddingIsStale == embedManifest.run = 0 \/ embedManifest.rep # units

\* The handler goes past the freshness check and reads the chunks, in one step:
\* a file changed in between only lets through a request as force does.  A
\* request refused (no representation) or answered from a fresh manifest
\* changes nothing.
EmbedStart(i) ==
  /\ At(i, "idle")
  /\ units # 0
  /\ TRUE \in ForceValues \/ EmbeddingIsStale
  /\ runs < MaxRuns
  /\ runs' = runs + 1
  /\ Continue(i, [Idle EXCEPT !.at = "embed.version", !.rep = units, !.run = runs + 1])
  /\ UNCHANGED <<files, stores, represented, faults>>

\* The sets of chunks a run may end up with: all of them, or whatever the
\* batches that did not fail hold (batch size 1, the finest granularity).
Survivors(r) ==
  IF PartialFailures THEN (SUBSET ChunksOf(r)) \ {{}} ELSE {ChunksOf(r)}

\* Mutant: save() writes the manifest before the artifacts.
EmbedBatches_ManifestFirst(i) ==
  /\ At(i, "embed.version")
  /\ units # 0
  /\ \E ids \in Survivors(job[i].rep) :
       Continue(i, [job[i] EXCEPT !.at = "embed.artifacts", !.hashed = units, !.done = ids])
  /\ embedManifest' = [run |-> job[i].run, rep |-> units]
  /\ UNCHANGED <<units, relationships, embeddings, indexManifest, graphManifest, stores, counts>>

\* compute_representation_version reads the file again; then the batches are
\* embedded and validated.  The hash stamps the artifacts and their manifest.
\* Every batch failing is NoEmbeddingsProducedError; an unreadable file is
\* RepresentationNotFoundError: neither has written anything.
EmbedBatches(i) ==
  /\ At(i, "embed.version")
  /\ \/ /\ units # 0
        /\ \E ids \in Survivors(job[i].rep) :
             Continue(i, [job[i] EXCEPT !.at = "embed.artifacts", !.hashed = units,
                                        !.done = ids])
     \/ /\ units = 0 \/ PartialFailures
        /\ Return(i)
  /\ UNCHANGED <<files, stores, counts>>

\* Mutant: the artifacts name the positions of their chunks, not their ids.
WriteArtifacts_ByPosition(i) ==
  /\ At(i, "embed.artifacts")
  /\ embeddings' = [run |-> job[i].run, ids |-> {c[2] : c \in job[i].done}]
  /\ Continue(i, [job[i] EXCEPT !.at = "embed.manifest"])
  /\ UNCHANGED <<units, relationships, embedManifest, indexManifest, graphManifest,
                 stores, counts>>

WriteArtifacts(i) ==
  /\ At(i, "embed.artifacts")
  /\ embeddings' = [run |-> job[i].run, ids |-> job[i].done]
  /\ Continue(i, [job[i] EXCEPT !.at = "embed.manifest"])
  /\ UNCHANGED <<units, relationships, embedManifest, indexManifest, graphManifest,
                 stores, counts>>

WriteEmbedManifest(i) ==
  /\ At(i, "embed.manifest")
  /\ embedManifest' = [run |-> job[i].run, rep |-> job[i].hashed]
  /\ Return(i)
  /\ UNCHANGED <<units, relationships, embeddings, indexManifest, graphManifest,
                 stores, counts>>

Embed(i) == EmbedStart(i) \/ EmbedBatches(i) \/ WriteArtifacts(i) \/ WriteEmbedManifest(i)

=============================================================================
