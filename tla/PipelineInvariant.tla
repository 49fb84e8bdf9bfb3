-------------------------- MODULE PipelineInvariant --------------------------
(***************************************************************************)
(* Why one backend process keeps the promises of DocumentPipeline: what is *)
(* true of its files and stores while a handler stands at each of its      *)
(* steps.  The conjunction is inductive (PipelineProofs).                  *)
(***************************************************************************)
EXTENDS DocumentPipeline

\* Versions only grow: what a represent call is about to write is newer than
\* everything that any file records.
VersionsGrow ==
  /\ units <= represented /\ relationships <= represented
  /\ embedManifest.rep <= represented
  /\ graphManifest.rep <= represented /\ graphManifest.rel <= represented
  /\ \A i \in Instances :
       /\ job[i].at \in RepresentSteps \cup EmbedSteps \cup GraphSteps =>
            /\ job[i].rep <= represented /\ job[i].rel <= represented
            /\ job[i].hashed <= represented /\ job[i].hashedRel <= represented
       /\ At(i, "represent.units") =>
            /\ units < job[i].rep /\ relationships < job[i].rep /\ embedManifest.rep < job[i].rep
            /\ graphManifest.rep < job[i].rep /\ graphManifest.rel < job[i].rep
       /\ At(i, "represent.relationships") =>
            relationships < job[i].rep /\ graphManifest.rel < job[i].rep

\* A graph call works on the files as they are, from its first read to its
\* last write; a manifest is only ever written of two readable files.
GraphWorksOnFiles ==
  /\ graphManifest # NoGraph => graphManifest.rep # 0 /\ graphManifest.rel # 0
  /\ \A i \in Instances :
       /\ job[i].at \in GraphSteps => units # 0 /\ job[i].hashed = units
       /\ job[i].at \in GraphSteps \ {"graph.hash"} =>
            relationships # 0 /\ job[i].hashedRel = relationships
       /\ job[i].at \in {"graph.relationships", "graph.replace", "graph.write"} =>
            job[i].rep = units
       /\ job[i].at \in {"graph.replace", "graph.write"} => job[i].rel = relationships
       /\ At(i, "graph.write") => graph = [rep |-> job[i].rep, rel |-> job[i].rel]

\* An embed call works on the units as they are, and its manifest follows the
\* artifacts it has just written.
EmbedWorksOnUnits ==
  /\ embedManifest.run # 0 => embedManifest.rep # 0
  /\ \A i \in Instances :
       /\ job[i].at \in EmbedSteps => job[i].rep = units /\ units # 0
       /\ job[i].at \in {"embed.artifacts", "embed.manifest"} =>
            job[i].hashed = units /\ job[i].done # {} /\ job[i].done \subseteq ChunksOf(units)
       /\ At(i, "embed.manifest") => embeddings = [run |-> job[i].run, ids |-> job[i].done]

\* Embedding runs are numbered in the order they write, and when the manifest
\* is that of the artifacts beside it, it records the representation whose
\* chunks they embed.
RunsGrow ==
  /\ embeddings.run <= runs /\ embedManifest.run <= runs /\ indexManifest.source <= runs
  /\ embedManifest.run # 0 /\ embeddings.run = embedManifest.run =>
       embeddings.ids \subseteq ChunksOf(embedManifest.rep)
  /\ \A i \in Instances :
       /\ job[i].at \in IndexSteps => job[i].source <= runs
       /\ job[i].at \in EmbedSteps =>
            /\ job[i].run <= runs
            /\ embedManifest.run < job[i].run /\ indexManifest.source < job[i].run

\* An index call works on the artifacts and the manifest as they are; what it
\* has upserted so far is in the store as it built it.
IndexWorksOnArtifacts ==
  \A i \in Instances :
    /\ job[i].at \in IndexSteps =>
         /\ job[i].run = embeddings.run /\ embeddings.run # 0
         /\ job[i].todo \cup job[i].done \subseteq embeddings.ids
    /\ At(i, "index.manifest") => job[i].done = {}
    /\ job[i].at \in IndexSteps \ {"index.manifest"} =>
         job[i].hashed = embedManifest.rep /\ embedManifest.run # 0
    /\ job[i].at \in IndexSteps => \A c \in job[i].done : points[c] = BuildPoint(i)
    /\ job[i].at \in {"index.source", "index.checksum", "index.write"} =>
         job[i].done # {} /\ Stored = job[i].done
    /\ job[i].at \in {"index.checksum", "index.write"} => job[i].source = embedManifest.run
    /\ At(i, "index.write") => job[i].checksum = embeddings.run

\* Everything the promises of one backend process rest on, with the promises.
Invariant ==
  /\ VersionsGrow
  /\ GraphWorksOnFiles /\ FreshGraphIsCurrent
  /\ EmbedWorksOnUnits /\ FreshEmbeddingsAreCurrent
  /\ RunsGrow /\ IndexWorksOnArtifacts /\ FreshIndexServesItsArtifacts

=============================================================================
