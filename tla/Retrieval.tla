------------------------------ MODULE Retrieval ------------------------------
(***************************************************************************)
(* RetrievalService.retrieve for one question: candidates by dense search, *)
(* expansion through the graph, evaluation, assembly into evidence groups. *)
(***************************************************************************)
EXTENDS EvidenceEvaluation

CONSTANTS
  Cases,             \* what the graph may have been built from, and the settings
  MaxOverlap         \* bound: distinct values of the lexical overlap

ASSUME CasesHaveLimits == \A case \in Cases : case.budget \in Budget

\* A document has finitely many chunks and sections; the relationships of a
\* representation are edges a graph may have.
ASSUME CasesAreDocuments ==
  /\ IsFiniteSet(Chunks) /\ IsFiniteSet(Sections)
  /\ \A case \in Cases :
       /\ case.representation.order \in Seq(Chunks)
       /\ case.representation.section \in [Chunks -> Sections \cup {None}]
       /\ case.representation.relationships \subseteq Edges

VARIABLES
  representation,    \* what the graph was built from
  candidates,        \* the pool: seeds and hydrated discoveries
  signals,           \* the values of the pool under each signal
  ranked,            \* the pool in the order of its fused scores
  groups,            \* evidence groups, best first
  claimed,           \* the chunks that are in a group
  dropped,           \* the chunks reported as excluded
  position           \* the next ranked candidate to assemble

outcome  == <<signals, ranked, groups, claimed, dropped, position>>
vars     == <<representation, inputs, at, seeds, search, candidates, outcome>>

\* A document was indexed, in part or with points of an older representation
\* left, and its graph was built.
Init ==
  /\ \E case \in Cases : representation = case.representation /\ budget = case.budget
  /\ edges = PlannedEdges(representation)
  /\ indexed \in SUBSET Chunks
  /\ at = "generate" /\ seeds = <<>>
  /\ path = [n \in {} |-> <<>>] /\ discovered = {} /\ frontier = <<>> /\ next = <<>>
  /\ node = None /\ pending = {} /\ looked = 0 /\ levels = 0 /\ cost = 0 /\ exhausted = None
  /\ candidates = {} /\ signals = <<>> /\ ranked = <<>>
  /\ groups = <<>> /\ claimed = {} /\ dropped = {} /\ position = 1

\* The search returns the topK nearest points of the document, or all there are.
Generate ==
  /\ at = "generate"
  /\ \E n \in 0..budget.topK :
       /\ n <= Cardinality(indexed) /\ n \in {budget.topK, Cardinality(indexed)}
       /\ seeds' \in {s \in [1..n -> indexed] : \A j, k \in 1..n : s[j] = s[k] => j = k}
  /\ StartExpansion
  /\ at' = "level"
  /\ UNCHANGED <<representation, inputs, candidates, outcome>>

ExpandGraph == Expand /\ UNCHANGED <<representation, candidates, outcome>>

\* Discoveries are fetched from the vector store: one without a point is left out.
Hydrate ==
  /\ at = "hydrate"
  /\ candidates' = SeedSet \cup (discovered \cap indexed)
  /\ at' = "evaluate"
  /\ UNCHANGED <<representation, inputs, seeds, search, outcome>>

\* Similarities do not increase along the seeds; the words of query and chunks
\* are abstracted to any overlap.
Similarities ==
  {f \in [SeedSet -> 1..Len(seeds)] :
     \A k \in 2..Len(seeds) : f[seeds[k]] <= f[seeds[k - 1]]}

Evaluate ==
  /\ at = "evaluate"
  /\ \E similarity \in Similarities, overlap \in [candidates -> 0..MaxOverlap] :
       signals' = Signals(candidates, similarity, overlap)
  /\ at' = "rank"
  /\ UNCHANGED <<representation, inputs, seeds, search, candidates, ranked, groups, claimed,
                 dropped, position>>

RankedSet == {ranked[k] : k \in DOMAIN ranked}

\* The sort, one candidate at a time: none of the rest scores distinctly more.
Rank ==
  /\ at = "rank"
  /\ IF RankedSet = candidates
     THEN at' = "assemble" /\ UNCHANGED ranked
     ELSE /\ UNCHANGED at
          /\ \E c \in candidates \ RankedSet :
               /\ \A d \in candidates \ RankedSet :
                    FusedScore(candidates, signals, d)
                      < FusedScore(candidates, signals, c) + Indistinguishable
               /\ ranked' = Append(ranked, c)
  /\ UNCHANGED <<representation, inputs, seeds, search, candidates, signals, groups, claimed,
                 dropped, position>>

\* _diversity_bucket: the section, or the kind of chunk where there is none.
Bucket(c) ==
  IF representation.section[c] # None THEN representation.section[c] ELSE representation.kind[c]

PrimariesIn(bucket) == Cardinality({k \in DOMAIN groups : Bucket(groups[k].primary) = bucket})

\* Mutant: candidates of earlier groups may support a later one.
DirectNeighbours_Claimed(c) ==
  {d \in candidates \ {c} : Depth(d) > 0 /\ LastHop(d).source = c}

\* Unclaimed candidates the search reached from c itself.
DirectNeighbours(c) ==
  {d \in candidates \ (claimed \cup {c}) : Depth(d) > 0 /\ LastHop(d).source = c}

\* One iteration of assemble(): a claimed candidate is passed over, one over a
\* limit dropped, any other leads a group.
Place(c) ==
  IF c \in claimed THEN UNCHANGED <<groups, claimed, dropped>>
  ELSE IF Len(groups) >= budget.groups \/ PrimariesIn(Bucket(c)) >= budget.primaries
  THEN dropped' = dropped \cup {c} /\ UNCHANGED <<groups, claimed>>
  ELSE /\ groups' = Append(groups, [primary |-> c, supporting |-> DirectNeighbours(c)])
       /\ claimed' = claimed \cup {c} \cup DirectNeighbours(c)
       /\ UNCHANGED dropped

\* The last pass drops what is neither claimed nor dropped yet; then the
\* bundle is returned.
Assemble ==
  /\ at = "assemble"
  /\ IF position <= Len(ranked)
     THEN Place(ranked[position]) /\ position' = position + 1 /\ UNCHANGED at
     ELSE /\ dropped' = dropped \cup (candidates \ claimed)
          /\ at' = "done" /\ UNCHANGED <<groups, claimed, position>>
  /\ UNCHANGED <<representation, inputs, seeds, search, candidates, signals, ranked>>

\* An exception ends the call: the query is blank or cannot be embedded, a
\* store cannot be reached, or the manifest cannot be saved.
Abort ==
  /\ \/ at = "generate"
     \/ at = "node" /\ pending = {} /\ frontier # <<>> /\ ~EvidenceSpent /\ ~CostSpent
     \/ at = "hydrate" /\ discovered # {}
     \/ at = "assemble" /\ position > Len(ranked)
  /\ at' = "failed"
  /\ UNCHANGED <<representation, inputs, seeds, search, candidates, outcome>>

Next == Generate \/ ExpandGraph \/ Hydrate \/ Evaluate \/ Rank \/ Assemble \/ Abort

Spec == Init /\ [][Next]_vars
-----------------------------------------------------------------------------
(* Properties.                                                             *)

TypeOK ==
  /\ at \in {"generate", "level", "node", "hydrate", "evaluate", "rank", "assemble", "done",
           "failed"}
  /\ edges \subseteq Edges /\ indexed \subseteq Chunks /\ budget \in Budget
  /\ seeds \in Seq(Chunks) /\ DOMAIN path \subseteq Nodes /\ discovered \subseteq Chunks
  /\ frontier \in Seq(Nodes) /\ next \in Seq(Nodes) /\ node \in Nodes \cup {None}
  /\ pending \subseteq Hops /\ looked \in Nat /\ levels \in Nat /\ cost \in Nat
  /\ exhausted \in {None, "max_total_evidence", "max_traversal_cost"}
  /\ \A n \in DOMAIN path : path[n] \in Seq(Hops)

\* The path p leads from node a to node b along hops of the graph.
Leads(p, a, b) ==
  IF p = <<>> THEN a = b
  ELSE /\ p[1].source = a /\ p[Len(p)].target = b
       /\ \A k \in 2..Len(p) : p[k].source = p[k - 1].target
       /\ \A k \in DOMAIN p : p[k] \in HopsFrom(p[k].source)

\* What a discovery is presented with is true: a path that starts at a seed,
\* follows existing relationships, ends at the chunk and visits no node twice
\* (what validate_graph_path would reject), and no discovery is a seed (what
\* validate_candidates would reject).
PathsAreTraversals ==
  /\ discovered \cap SeedSet = {}
  /\ \A c \in discovered :
       /\ \E s \in SeedSet : Leads(path[c], s, c)
       /\ \A j \in DOMAIN path[c], k \in DOMAIN path[c] :
            /\ path[c][j].target = path[c][k].target => j = k
            /\ path[c][j].source # path[c][k].target \/ k < j

\* No limit is exceeded, whichever is reached first and wherever in the loops;
\* only the cost may be, by the neighbours of the last node expanded.
WithinLimits ==
  /\ Cardinality(discovered) <= budget.evidence
  /\ \A c \in discovered : Depth(c) <= budget.depth
  /\ node # None => cost - Cardinality(HopsFrom(node)) < budget.cost
  /\ Len(groups) <= budget.groups
  /\ \A k \in DOMAIN groups : PrimariesIn(Bucket(groups[k].primary)) <= budget.primaries

\* Reference: the nodes within d hops of the seeds.
Within[d \in Nat] ==
  IF d = 0 THEN SeedSet
  ELSE Within[d - 1] \cup {h.target : h \in UNION {HopsFrom(n) : n \in Within[d - 1]}}

\* A search that reports no limit, and whose limit on neighbours is above any
\* node's, has found every chunk within its depth, each by a shortest path.
UncutSearchIsComplete ==
  at = "hydrate" /\ exhausted = None /\ budget.neighbors >= 2 * Cardinality(edges) =>
    /\ discovered = (Within[budget.depth] \cap Chunks) \ SeedSet
    /\ \A c \in discovered : c \notin Within[Depth(c) - 1]

\* A candidate that is at least as good in every signal and better in one is
\* ranked before the other, whatever the rest of the pool does to their ranks.
StrongerFirst ==
  \A j \in DOMAIN ranked, k \in DOMAIN ranked :
    j < k => ~Dominates(signals, ranked[k], ranked[j])

Members(k) == {groups[k].primary} \cup groups[k].supporting

\* The groups are disjoint sets of candidates (validate_evidence_groups
\* accepts them).  In the end every candidate is in one of them or reported as
\* dropped, and what is in none was dropped because of a limit that is reached:
\* nothing is "outranked by claimed evidence".
CandidatesAreAccountedFor ==
  /\ \A k \in DOMAIN groups : Members(k) \subseteq candidates
  /\ \A j \in DOMAIN groups, k \in DOMAIN groups : j # k => Members(j) \cap Members(k) = {}
  /\ at = "done" =>
       LET kept == UNION {Members(k) : k \in DOMAIN groups}
       IN  /\ candidates = dropped \cup kept
           /\ \A c \in candidates \ kept :
                Len(groups) = budget.groups \/ PrimariesIn(Bucket(c)) = budget.primaries

\* "A candidate that was generated or expanded but excluded from the final
\* bundle" (DroppedCandidate): no dropped candidate is in an evidence group.
DroppedAreExcluded ==
  at = "done" => \A k \in DOMAIN groups : Members(k) \cap dropped = {}

=============================================================================
