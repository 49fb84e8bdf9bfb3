---------------------------- MODULE GraphExpansion ----------------------------
(***************************************************************************)
(* GraphExpander.expand: a breadth-first search from the candidates dense  *)
(* retrieval found (seeds), bounded in depth, breadth, evidence and cost   *)
(* at once.  One action per iteration of one of its loops.  Neo4j returns  *)
(* the neighbours of a node over one relationship in any order.            *)
(***************************************************************************)
EXTENDS GraphPlan, FiniteSets

\* What may stop a search before its depth or its frontier does.
ASSUME NoneIsNoLimit == None \notin {"max_total_evidence", "max_traversal_cost"}

Budget == [topK: Nat, depth: Nat, neighbors: Nat, evidence: Nat, cost: Nat,
           groups: Nat, primaries: Nat]

VARIABLES
  at,           \* what retrieval does next
  edges,        \* Neo4j: the document's graph
  indexed,      \* Qdrant: the chunks that have a point
  budget,       \* the configured limits
  seeds,        \* phase 1's candidates, best first
  path,         \* the path each visited node was reached by
  discovered,   \* discovered_paths: the knowledge units reached
  frontier,     \* nodes of this level still to expand
  next,         \* nodes of the next level
  node,         \* the node being expanded
  pending,      \* its neighbours still to look at
  looked,       \* how many of them were looked at
  levels,       \* levels begun
  cost,         \* traversal_cost
  exhausted     \* budget_exhausted

search == <<path, discovered, frontier, next, node, pending, looked, levels, cost, exhausted>>
inputs == <<edges, indexed, budget>>

Hops == [source: Nodes, target: Nodes, type: RelationshipTypes,
         direction: {"outgoing", "incoming"}]

Hop(a, b, type, direction) ==
  [source |-> a, target |-> b, type |-> type, direction |-> direction]

\* What neighbors() answers over all relationship types and the directions
\* that directions_for allows for each: CITES is only followed forward.
HopsFrom(n) ==
  {Hop(n, e.target, e.type, "outgoing") : e \in {f \in edges : f.source = n}}
  \cup {Hop(n, e.source, e.type, "incoming") :
          e \in {f \in edges : f.target = n /\ f.type # "CITES"}}

\* The order in which the relationship types and their directions are asked for.
TypeRank == [CITES |-> 0, REFERENCES |-> 2, CONTINUES |-> 4, NEXT |-> 6, BELONGS_TO |-> 8]

Priority(h) == TypeRank[h.type] + (IF h.direction = "outgoing" THEN 0 ELSE 1)

\* Mutant: one discovery more than allowed.
EvidenceSpent_OffByOne == Cardinality(discovered) > budget.evidence

EvidenceSpent == Cardinality(discovered) >= budget.evidence

CostSpent == cost >= budget.cost

\* The limit that stops the search, evidence being tested before cost.
Limit == IF EvidenceSpent THEN "max_total_evidence" ELSE "max_traversal_cost"

SeedSet == {seeds[k] : k \in DOMAIN seeds}

\* The search as expand() initialises it, from the seeds just found.
StartExpansion ==
  /\ path' = [n \in {seeds'[k] : k \in DOMAIN seeds'} |-> <<>>]
  /\ frontier' = seeds' /\ next' = <<>>
  /\ discovered' = {} /\ node' = None /\ pending' = {}
  /\ looked' = 0 /\ levels' = 0 /\ cost' = 0 /\ exhausted' = None

StartLevel ==
  /\ at = "level"
  /\ levels < budget.depth /\ frontier # <<>> /\ ~EvidenceSpent /\ ~CostSpent
  /\ at' = "node" /\ levels' = levels + 1 /\ next' = <<>>
  /\ UNCHANGED <<inputs, seeds, path, discovered, frontier, node, pending, looked, cost, exhausted>>

\* Depth or frontier exhausted, which nothing records, or one of the limits.
StopExpansion ==
  /\ at = "level"
  /\ levels = budget.depth \/ frontier = <<>> \/ EvidenceSpent \/ CostSpent
  /\ exhausted' = IF levels < budget.depth /\ frontier # <<>> THEN Limit ELSE exhausted
  /\ at' = "hydrate"
  /\ UNCHANGED <<inputs, seeds, path, discovered, frontier, next, node, pending, looked, levels, cost>>

\* The neighbours of the next node are asked for; all of them are charged.
ExpandNode ==
  /\ at = "node" /\ pending = {}
  /\ frontier # <<>> /\ ~EvidenceSpent /\ ~CostSpent
  /\ node' = Head(frontier) /\ frontier' = Tail(frontier)
  /\ pending' = HopsFrom(Head(frontier)) /\ looked' = 0
  /\ cost' = cost + Cardinality(HopsFrom(Head(frontier)))
  /\ UNCHANGED <<inputs, at, seeds, path, discovered, next, levels, exhausted>>

\* The level ends: all its nodes are expanded, or a limit cuts it short.
EndLevel ==
  /\ at = "node" /\ pending = {}
  /\ frontier = <<>> \/ EvidenceSpent \/ CostSpent
  /\ exhausted' = IF frontier # <<>> THEN Limit ELSE exhausted
  /\ frontier' = next /\ at' = "level"
  /\ UNCHANGED <<inputs, seeds, path, discovered, next, node, pending, looked, levels, cost>>

\* The neighbours that truncation kept are looked at, in the order of the answers.
Truncated == looked >= budget.neighbors

NextNeighbour(h) ==
  /\ at = "node" /\ ~Truncated
  /\ h \in pending /\ \A g \in pending : Priority(h) <= Priority(g)
  /\ looked' = looked + 1

DropTruncated ==
  /\ at = "node" /\ pending # {} /\ Truncated
  /\ pending' = {}
  /\ UNCHANGED <<inputs, at, seeds, path, discovered, frontier, next, node, looked, levels, cost, exhausted>>

SkipVisited(h) ==
  /\ NextNeighbour(h) /\ h.target \in DOMAIN path
  /\ pending' = pending \ {h}
  /\ UNCHANGED <<inputs, at, seeds, path, discovered, frontier, next, node, levels, cost, exhausted>>

\* Mutant: the search does not say that it was cut.
CutNeighbours_Silent(h) ==
  /\ NextNeighbour(h) /\ h.target \notin DOMAIN path /\ EvidenceSpent
  /\ pending' = {}
  /\ UNCHANGED <<inputs, at, seeds, path, discovered, frontier, next, node, levels, cost, exhausted>>

CutNeighbours(h) ==
  /\ NextNeighbour(h) /\ h.target \notin DOMAIN path /\ EvidenceSpent
  /\ exhausted' = "max_total_evidence" /\ pending' = {}
  /\ UNCHANGED <<inputs, at, seeds, path, discovered, frontier, next, node, levels, cost>>

\* Mutant: every node reached counts as evidence, whatever its label.
VisitNeighbour_AnyLabel(h) ==
  /\ NextNeighbour(h) /\ h.target \notin DOMAIN path /\ ~EvidenceSpent
  /\ path' = [n \in DOMAIN path \cup {h.target} |->
                IF n = h.target THEN Append(path[node], h) ELSE path[n]]
  /\ discovered' = discovered \cup {h.target}
  /\ next' = Append(next, h.target)
  /\ pending' = pending \ {h}
  /\ UNCHANGED <<inputs, at, seeds, frontier, node, levels, cost, exhausted>>

\* Mutant: a node that was visited may be visited again.
VisitNeighbour_Again(h) ==
  /\ NextNeighbour(h) /\ ~EvidenceSpent
  /\ path' = [n \in DOMAIN path \cup {h.target} |->
                IF n = h.target THEN Append(path[node], h) ELSE path[n]]
  /\ discovered' = IF h.target \in Chunks THEN discovered \cup {h.target} ELSE discovered
  /\ next' = Append(next, h.target)
  /\ pending' = pending \ {h}
  /\ UNCHANGED <<inputs, at, seeds, frontier, node, levels, cost, exhausted>>

VisitNeighbour(h) ==
  /\ NextNeighbour(h) /\ h.target \notin DOMAIN path /\ ~EvidenceSpent
  /\ path' = [n \in DOMAIN path \cup {h.target} |->
                IF n = h.target THEN Append(path[node], h) ELSE path[n]]
  /\ discovered' = IF h.target \in Chunks THEN discovered \cup {h.target} ELSE discovered
  /\ next' = Append(next, h.target)
  /\ pending' = pending \ {h}
  /\ UNCHANGED <<inputs, at, seeds, frontier, node, levels, cost, exhausted>>

Expand ==
  \/ StartLevel \/ StopExpansion \/ ExpandNode \/ EndLevel \/ DropTruncated
  \/ \E h \in pending : SkipVisited(h) \/ CutNeighbours(h) \/ VisitNeighbour(h)

=============================================================================
