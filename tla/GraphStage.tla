------------------------------ MODULE GraphStage ------------------------------
(***************************************************************************)
(* POST /documents/{id}/graph: GraphService.build_graph over               *)
(* GraphRepository, GraphValidator and the graph store, whose              *)
(* replace_graph deletes and rebuilds the document's subgraph in one       *)
(* transaction.                                                            *)
(***************************************************************************)
EXTENDS PipelineState

\* compute_representation_hash reads the two files.
GraphStart(i) ==
  /\ At(i, "idle")
  /\ units # 0
  /\ Continue(i, [Idle EXCEPT !.at = "graph.hash", !.hashed = units])
  /\ UNCHANGED <<files, stores, counts>>

\* The second file is hashed, and a graph whose manifest records this very
\* hash is fresh.
GraphCheckFresh(i) ==
  /\ At(i, "graph.hash")
  /\ IF relationships = 0
     THEN Return(i)
     ELSE \E force \in ForceValues :
            IF force \/ graphManifest # [rep |-> job[i].hashed, rel |-> relationships]
            THEN Continue(i, [job[i] EXCEPT !.at = "graph.units", !.hashedRel = relationships])
            ELSE Return(i)
  /\ UNCHANGED <<files, stores, counts>>

GraphReadUnits(i) ==
  /\ At(i, "graph.units")
  /\ IF units = 0
     THEN Return(i)
     ELSE Continue(i, [job[i] EXCEPT !.at = "graph.relationships", !.rep = units])
  /\ UNCHANGED <<files, stores, counts>>

\* Mutant: dangling edges are let through.
Dangles_Unchecked(rep, rel) == FALSE

\* GraphValidator: an edge between chunks of another representation dangles.
Dangles(rep, rel) == rel # rep

\* Mutant: the manifest is saved before the store holds the graph.
GraphReadRelationships_ManifestFirst(i) ==
  /\ At(i, "graph.relationships")
  /\ relationships # 0 /\ ~Dangles(job[i].rep, relationships)
  /\ graphManifest' = [rep |-> job[i].hashed, rel |-> job[i].hashedRel]
  /\ Continue(i, [job[i] EXCEPT !.at = "graph.replace", !.rel = relationships])
  /\ UNCHANGED <<units, relationships, embeddings, embedManifest, indexManifest, stores, counts>>

\* The relationships are read, the graph planned and validated.
GraphReadRelationships(i) ==
  /\ At(i, "graph.relationships")
  /\ IF relationships = 0 \/ Dangles(job[i].rep, relationships)
     THEN Return(i)
     ELSE Continue(i, [job[i] EXCEPT !.at = "graph.replace", !.rel = relationships])
  /\ UNCHANGED <<files, stores, counts>>

\* Mutant: the old graph's edges survive the replacement.
GraphReplace_KeepsEdges(i) ==
  /\ At(i, "graph.replace")
  /\ graph' = [rep |-> job[i].rep, rel |-> IF graph.rel = 0 THEN job[i].rel ELSE graph.rel]
  /\ Continue(i, [job[i] EXCEPT !.at = "graph.write"])
  /\ UNCHANGED <<files, points, counts>>

GraphReplace(i) ==
  /\ At(i, "graph.replace")
  /\ graph' = [rep |-> job[i].rep, rel |-> job[i].rel]
  /\ Continue(i, [job[i] EXCEPT !.at = "graph.write"])
  /\ UNCHANGED <<files, points, counts>>

\* The store's node and relationship counts are compared with the graph's
\* (they are the same for every representation of one paper), and the
\* manifest records the hash taken at the start.
WriteGraphManifest(i) ==
  /\ At(i, "graph.write")
  /\ graphManifest' = [rep |-> job[i].hashed, rel |-> job[i].hashedRel]
  /\ Return(i)
  /\ UNCHANGED <<units, relationships, embeddings, embedManifest, indexManifest, stores, counts>>

BuildGraph(i) ==
  \/ GraphStart(i) \/ GraphCheckFresh(i) \/ GraphReadUnits(i) \/ GraphReadRelationships(i)
  \/ GraphReplace(i) \/ WriteGraphManifest(i)

=============================================================================
