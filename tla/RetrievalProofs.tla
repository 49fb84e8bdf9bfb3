---------------------------- MODULE RetrievalProofs ----------------------------
(***************************************************************************)
(* Proofs about retrieval: what a discovery is presented with is true, no  *)
(* limit is exceeded, a search that no limit cut has found all there is to *)
(* find, every candidate is kept or reported and the stronger of two comes *)
(* first; for every document and every value of the limits.                *)
(***************************************************************************)
EXTENDS Retrieval, SequenceFolds, FiniteSetTheorems

(* The graph.                                                              *)

\* The planned edges connect nodes of the document.
LEMMA PlannedEdgesAreEdges ==
  ASSUME NEW case \in Cases
  PROVE  PlannedEdges(case.representation) \subseteq Edges
<1>. DEFINE r == case.representation
<1>1. /\ r.order \in Seq(Chunks) /\ r.section \in [Chunks -> Sections \cup {None}]
      /\ r.relationships \subseteq Edges
  BY CasesAreDocuments
<1>2. UnitsOf(r) \subseteq Chunks
  BY <1>1 DEF UnitsOf
<1>3. ContainmentEdges(r) \subseteq Edges
  BY <1>1, <1>2 DEF ContainmentEdges, InSection, Edge, Edges, Nodes, RelationshipTypes
<1>4. SequenceEdges(r) \subseteq Edges
  <2>1. ASSUME NEW k \in 1..(Len(r.order) - 1)
        PROVE  r.order[k] \in Chunks /\ r.order[k + 1] \in Chunks
    BY <1>1
  <2>. QED
    BY <2>1 DEF SequenceEdges, Edge, Edges, Nodes, RelationshipTypes
<1>5. RelationshipEdges(r) \subseteq Edges
  BY <1>1 DEF RelationshipEdges, Edge, Edges
<1>. QED
  BY <1>3, <1>4, <1>5, Zenon DEF PlannedEdges

\* A hop of the graph goes from one node to another.
LEMMA HopsAreTyped ==
  ASSUME edges \subseteq Edges, NEW n \in Nodes
  PROVE  /\ HopsFrom(n) \subseteq Hops
         /\ \A h \in HopsFrom(n) : h.source = n
BY DEF HopsFrom, Hop, Hops, Edges

\* There are finitely many hops.
LEMMA HopsAreFinite == IsFiniteSet(Hops)
<1>. DEFINE Directions == {"outgoing", "incoming"}
            Tuples == (Nodes \X Nodes) \X (RelationshipTypes \X Directions)
            f == [h \in Hops |-> <<<<h.source, h.target>>, <<h.type, h.direction>>>>]
<1>1. IsFiniteSet(Nodes)
  <2>1. IsFiniteSet({Document}) /\ IsFiniteSet(Sections) /\ IsFiniteSet(Chunks)
    BY FS_Singleton, CasesAreDocuments
  <2>. QED
    BY <2>1, FS_Union DEF Nodes
<1>2. IsFiniteSet(RelationshipTypes)
  <2>1. IsFiniteSet({"CITES"} \cup {"REFERENCES"}) /\ IsFiniteSet({"CONTINUES"} \cup {"NEXT"})
    BY FS_Singleton, FS_Union
  <2>2. IsFiniteSet({"CONTINUES"} \cup {"NEXT"} \cup {"BELONGS_TO"})
    BY <2>1, FS_Singleton, FS_Union
  <2>3. IsFiniteSet(({"CITES"} \cup {"REFERENCES"}) \cup ({"CONTINUES"} \cup {"NEXT"} \cup {"BELONGS_TO"}))
    BY <2>1, <2>2, FS_Union
  <2>4. RelationshipTypes = ({"CITES"} \cup {"REFERENCES"}) \cup ({"CONTINUES"} \cup {"NEXT"} \cup {"BELONGS_TO"})
    BY DEF RelationshipTypes
  <2>. QED
    BY <2>3, <2>4
<1>3. IsFiniteSet(Directions)
  <2>1. IsFiniteSet({"outgoing"} \cup {"incoming"})
    BY FS_Singleton, FS_Union
  <2>2. Directions = {"outgoing"} \cup {"incoming"}
    OBVIOUS
  <2>. QED
    BY <2>1, <2>2
<1>4. IsFiniteSet(Tuples)
  <2>1. IsFiniteSet(Nodes \X Nodes) /\ IsFiniteSet(RelationshipTypes \X Directions)
    BY <1>1, <1>2, <1>3, FS_Product
  <2>. QED
    BY <2>1, FS_Product
<1>5. f \in Injection(Hops, Tuples)
  <2>1. f \in [Hops -> Tuples]
    BY DEF Hops
  <2>2. ASSUME NEW g \in Hops, NEW h \in Hops, f[g] = f[h]
        PROVE  g = h
    BY <2>2 DEF Hops
  <2>. HIDE DEF f, Tuples
  <2>. QED
    BY <2>1, <2>2 DEF Injection, IsInjective
<1>. HIDE DEF f, Tuples
<1>. QED
  BY <1>4, <1>5, FS_Injection

\* The neighbours of a node are counted by a natural number.
LEMMA DegreeIsNatural ==
  ASSUME edges \subseteq Edges, NEW n \in Nodes
  PROVE  Cardinality(HopsFrom(n)) \in Nat
BY HopsAreTyped, HopsAreFinite, FS_Subset, FS_CardinalityType

-----------------------------------------------------------------------------
(* Types.                                                                  *)

\* The values of the variables, and the path of every node that was visited.
Types ==
  /\ TypeOK
  /\ path \in [DOMAIN path -> Seq(Hops)]
  /\ IsFiniteSet(discovered)

\* The steps of retrieval after the search, and the exceptions, leave the graph
\* and the search alone.
LEMMA LaterPhasesKeepTheSearch ==
  ASSUME Hydrate \/ Evaluate \/ Rank \/ Assemble \/ Abort
  PROVE  /\ UNCHANGED <<representation, inputs, seeds, search>>
         /\ at' \in {"evaluate", "rank", "assemble", "done", "failed"}
BY DEF Hydrate, Evaluate, Rank, Assemble, Abort, search, inputs

\* What is being looked at when a node is expanded.
WorkIsOnPath ==
  /\ \A k \in DOMAIN seeds : seeds[k] \in DOMAIN path
  /\ \A k \in DOMAIN frontier : frontier[k] \in DOMAIN path
  /\ \A k \in DOMAIN next : next[k] \in DOMAIN path
  /\ discovered \subseteq DOMAIN path \ SeedSet
  /\ pending # {} => node \in DOMAIN path /\ pending \subseteq HopsFrom(node)

\* The initial state is typed.
LEMMA InitIsTyped ==
  ASSUME Init
  PROVE  Types /\ WorkIsOnPath
<1>1. edges \subseteq Edges /\ budget \in Budget
  BY PlannedEdgesAreEdges, CasesHaveLimits DEF Init
<1>2. IsFiniteSet(discovered)
  BY FS_EmptySet DEF Init
<1>3. TypeOK
  BY <1>1 DEF Init, TypeOK
<1>. QED
  BY <1>2, <1>3 DEF Init, Types, WorkIsOnPath, SeedSet

\* The search starts at chunks that are indexed.
LEMMA GenerateIsTyped ==
  ASSUME Types, Generate
  PROVE  /\ Types' /\ WorkIsOnPath'
         /\ path' = [n \in SeedSet' |-> <<>>] /\ frontier' = seeds' /\ next' = <<>>
         /\ discovered' = {} /\ node' = None /\ pending' = {} /\ levels' = 0 /\ cost' = 0
         /\ UNCHANGED <<edges, budget>> /\ at' = "level"
<1>1. PICK n \in 0..budget.topK : seeds' \in [1..n -> indexed]
  BY DEF Generate
<1>2. /\ path' = [m \in SeedSet' |-> <<>>] /\ frontier' = seeds' /\ next' = <<>>
      /\ discovered' = {} /\ node' = None /\ pending' = {} /\ levels' = 0 /\ cost' = 0
      /\ looked' = 0 /\ exhausted' = None
      /\ UNCHANGED inputs /\ at' = "level"
  BY DEF Generate, StartExpansion, SeedSet
<1>3. seeds' \in Seq(Chunks)
  <2>1. n \in Nat /\ indexed \subseteq Chunks
    BY DEF Types, TypeOK, Budget
  <2>2. seeds' \in [1..n -> Chunks]
    BY <1>1, <2>1
  <2>. QED
    BY <2>1, <2>2, SeqDef
<1>4. SeedSet' \subseteq Chunks
  BY <1>3 DEF SeedSet
<1>5. path' \in [SeedSet' -> Seq(Hops)] /\ DOMAIN path' = SeedSet'
  BY <1>2
<1>6. frontier' \in Seq(Nodes)
  BY <1>2, <1>3 DEF Nodes
<1>7. TypeOK'
  <2>1. edges' \subseteq Edges /\ indexed' \subseteq Chunks /\ budget' \in Budget
    BY <1>2 DEF inputs, Types, TypeOK
  <2>2. DOMAIN path' \subseteq Nodes /\ \A m \in DOMAIN path' : path'[m] \in Seq(Hops)
    BY <1>4, <1>5 DEF Nodes
  <2>. QED
    BY <1>2, <1>3, <1>6, <2>1, <2>2 DEF TypeOK
<1>8. IsFiniteSet(discovered')
  BY <1>2, FS_EmptySet
<1>9. WorkIsOnPath'
  BY <1>2, <1>5 DEF WorkIsOnPath, SeedSet
<1>. QED
  BY <1>2, <1>5, <1>7, <1>8, <1>9 DEF Types, inputs

\* Visiting a node adds it, with the path of the node expanded and one hop.
LEMMA VisitExtendsThePaths ==
  ASSUME Types, WorkIsOnPath, NEW h \in pending, VisitNeighbour(h)
  PROVE  /\ h \in HopsFrom(node) /\ h \in Hops /\ h.source = node
         /\ node \in DOMAIN path /\ path[node] \in Seq(Hops)
         /\ h.target \in Nodes /\ h.target \notin DOMAIN path
         /\ DOMAIN path' = DOMAIN path \cup {h.target}
         /\ path'[h.target] = Append(path[node], h)
         /\ \A n \in DOMAIN path : path'[n] = path[n]
<1>1. h \in HopsFrom(node) /\ node \in DOMAIN path /\ path[node] \in Seq(Hops)
  BY DEF Types, TypeOK, WorkIsOnPath
<1>2. node \in Nodes
  BY <1>1 DEF Types, TypeOK
<1>3. h \in Hops /\ h.source = node
  BY <1>1, <1>2, HopsAreTyped DEF Types, TypeOK
<1>4. h.target \in Nodes /\ h.target \notin DOMAIN path
  BY <1>3 DEF Hops, VisitNeighbour
<1>5. path' = [n \in DOMAIN path \cup {h.target} |->
                 IF n = h.target THEN Append(path[node], h) ELSE path[n]]
  BY DEF VisitNeighbour
<1>. QED
  BY <1>1, <1>3, <1>4, <1>5

\* Every step of the search keeps the types.
LEMMA ExpandIsTyped ==
  ASSUME Types, WorkIsOnPath, Expand
  PROVE  Types' /\ WorkIsOnPath'
<1>. USE DEF inputs
<1>1. CASE StartLevel
  <2>1. UNCHANGED <<inputs, seeds, path, discovered, frontier, node, pending, cost>> /\ next' = <<>>
    BY <1>1 DEF StartLevel
  <2>2. levels' \in Nat /\ looked' \in Nat /\ at' = "node" /\ exhausted' = exhausted
    BY <1>1 DEF StartLevel, Types, TypeOK
  <2>3. Types'
    BY <2>1, <2>2 DEF Types, TypeOK
  <2>4. HopsFrom(node)' = HopsFrom(node) /\ SeedSet' = SeedSet /\ DOMAIN next' = {}
    BY <2>1 DEF HopsFrom, SeedSet
  <2>5. WorkIsOnPath'
    BY <2>1, <2>4 DEF WorkIsOnPath
  <2>. QED
    BY <2>3, <2>5
<1>2. CASE StopExpansion
  <2>1. UNCHANGED <<inputs, seeds, path, discovered, frontier, next, node, pending, looked, levels, cost>>
    BY <1>2 DEF StopExpansion
  <2>2. at' = "hydrate" /\ exhausted' \in {None, "max_total_evidence", "max_traversal_cost"}
    BY <1>2 DEF StopExpansion, Limit, Types, TypeOK
  <2>. QED
    BY <2>1, <2>2 DEF Types, TypeOK, WorkIsOnPath, SeedSet, HopsFrom
<1>3. CASE ExpandNode
  <2>1. /\ UNCHANGED <<inputs, at, seeds, path, discovered, next, levels, exhausted>>
        /\ frontier # <<>> /\ node' = Head(frontier) /\ frontier' = Tail(frontier)
        /\ pending' = HopsFrom(node') /\ looked' = 0
        /\ cost' = cost + Cardinality(HopsFrom(node'))
    BY <1>3 DEF ExpandNode
  <2>2. frontier \in Seq(Nodes)
    BY DEF Types, TypeOK
  <2>3. /\ node' \in Nodes /\ frontier' \in Seq(Nodes) /\ node' = frontier[1]
        /\ \A k \in DOMAIN frontier' : k + 1 \in DOMAIN frontier /\ frontier'[k] = frontier[k + 1]
        /\ 1 \in DOMAIN frontier
    BY <2>1, <2>2
  <2>4. HopsFrom(node') \subseteq Hops /\ Cardinality(HopsFrom(node')) \in Nat
    BY <2>3, HopsAreTyped, DegreeIsNatural DEF Types, TypeOK
  <2>5. TypeOK'
    BY <2>1, <2>3, <2>4 DEF Types, TypeOK
  <2>6. Types'
    BY <2>1, <2>5 DEF Types
  <2>7. node' \in DOMAIN path /\ \A k \in DOMAIN frontier' : frontier'[k] \in DOMAIN path
    BY <2>3 DEF WorkIsOnPath
  <2>8. pending' \subseteq HopsFrom(node)'
    BY <2>1 DEF HopsFrom
  <2>. QED
    BY <2>1, <2>6, <2>7, <2>8 DEF WorkIsOnPath, SeedSet
<1>4. CASE EndLevel
  <2>1. UNCHANGED <<inputs, seeds, path, discovered, next, node, pending, looked, levels, cost>>
    BY <1>4 DEF EndLevel
  <2>2. /\ at' = "level" /\ frontier' = next
        /\ exhausted' \in {None, "max_total_evidence", "max_traversal_cost"}
    BY <1>4 DEF EndLevel, Limit, Types, TypeOK
  <2>. QED
    BY <2>1, <2>2 DEF Types, TypeOK, WorkIsOnPath, SeedSet, HopsFrom
<1>5. CASE DropTruncated
  <2>1. /\ UNCHANGED <<inputs, at, seeds, path, discovered, frontier, next, node, looked, levels, cost,
                       exhausted>>
        /\ pending' = {}
    BY <1>5 DEF DropTruncated
  <2>. QED
    BY <2>1 DEF Types, TypeOK, WorkIsOnPath, SeedSet
<1>6. ASSUME NEW h \in pending, SkipVisited(h) \/ CutNeighbours(h)
      PROVE  Types' /\ WorkIsOnPath'
  <2>1. /\ UNCHANGED <<inputs, at, seeds, path, discovered, frontier, next, node, levels, cost>>
        /\ pending' \subseteq pending /\ exhausted' \in {exhausted, "max_total_evidence"}
        /\ looked' = looked + 1
    BY <1>6 DEF SkipVisited, CutNeighbours, NextNeighbour
  <2>2. Types'
    BY <2>1 DEF Types, TypeOK
  <2>3. HopsFrom(node)' = HopsFrom(node) /\ SeedSet' = SeedSet
    BY <2>1 DEF HopsFrom, SeedSet
  <2>4. WorkIsOnPath'
    BY <2>1, <2>3 DEF WorkIsOnPath
  <2>. QED
    BY <2>2, <2>4
<1>7. ASSUME NEW h \in pending, VisitNeighbour(h)
      PROVE  Types' /\ WorkIsOnPath'
  <2>1. /\ UNCHANGED <<inputs, at, seeds, frontier, node, levels, cost, exhausted>>
        /\ next' = Append(next, h.target) /\ pending' = pending \ {h} /\ looked' = looked + 1
        /\ discovered' = IF h.target \in Chunks THEN discovered \cup {h.target} ELSE discovered
    BY <1>7 DEF VisitNeighbour, NextNeighbour
  <2>2. /\ h \in Hops /\ h.target \in Nodes /\ h.target \notin DOMAIN path
        /\ path[node] \in Seq(Hops) /\ DOMAIN path' = DOMAIN path \cup {h.target}
        /\ path'[h.target] = Append(path[node], h) /\ \A n \in DOMAIN path : path'[n] = path[n]
    BY <1>7, VisitExtendsThePaths
  <2>3. Append(path[node], h) \in Seq(Hops)
    BY <2>2
  <2>4. path' \in [DOMAIN path' -> Seq(Hops)]
    <3>1. path' = [n \in DOMAIN path' |-> path'[n]]
      BY <1>7 DEF VisitNeighbour
    <3>2. \A n \in DOMAIN path' : path'[n] \in Seq(Hops)
      BY <2>2, <2>3 DEF Types, TypeOK
    <3>. QED
      BY <3>1, <3>2
  <2>5. /\ next' \in Seq(Nodes)
        /\ \A k \in DOMAIN next' : next'[k] \in DOMAIN path'
    <3>1. next \in Seq(Nodes) /\ \A k \in DOMAIN next : next[k] \in DOMAIN path
      BY DEF Types, TypeOK, WorkIsOnPath
    <3>2. next' \in Seq(Nodes) /\ Len(next') = Len(next) + 1
      BY <2>1, <2>2, <3>1, AppendProperties
    <3>3. \A k \in 1..Len(next') : next'[k] = IF k <= Len(next) THEN next[k] ELSE h.target
      BY <2>1, <2>2, <3>1, <3>2, AppendProperties
    <3>. QED
      BY <2>2, <3>1, <3>2, <3>3
  <2>6. IsFiniteSet(discovered')
    BY <2>1, FS_AddElement DEF Types
  <2>7. TypeOK'
    <3>1. edges' \subseteq Edges /\ indexed' \subseteq Chunks /\ budget' \in Budget
      BY <2>1 DEF Types, TypeOK
    <3>2. DOMAIN path' \subseteq Nodes /\ discovered' \subseteq Chunks /\ pending' \subseteq Hops
      BY <2>1, <2>2 DEF Types, TypeOK
    <3>3. \A n \in DOMAIN path' : path'[n] \in Seq(Hops)
      BY <2>4
    <3>4. /\ at' = at /\ seeds' = seeds /\ frontier' = frontier /\ node' = node /\ levels' = levels
          /\ cost' = cost /\ exhausted' = exhausted /\ looked' \in Nat
      BY <2>1 DEF Types, TypeOK
    <3>. QED
      BY <2>5, <3>1, <3>2, <3>3, <3>4 DEF Types, TypeOK
  <2>8. Types'
    BY <2>4, <2>6, <2>7 DEF Types
  <2>9. discovered' \subseteq DOMAIN path' \ SeedSet'
    <3>1. SeedSet' = SeedSet /\ SeedSet \subseteq DOMAIN path
      BY <2>1 DEF SeedSet, WorkIsOnPath
    <3>. QED
      BY <2>1, <2>2, <3>1 DEF WorkIsOnPath
  <2>10. pending' # {} => node' \in DOMAIN path' /\ pending' \subseteq HopsFrom(node)'
    BY <2>1, <2>2 DEF WorkIsOnPath, HopsFrom
  <2>11. /\ \A k \in DOMAIN seeds' : seeds'[k] \in DOMAIN path'
         /\ \A k \in DOMAIN frontier' : frontier'[k] \in DOMAIN path'
    BY <2>1, <2>2 DEF WorkIsOnPath
  <2>. QED
    BY <2>5, <2>8, <2>9, <2>10, <2>11 DEF WorkIsOnPath
<1>. QED
  BY <1>1, <1>2, <1>3, <1>4, <1>5, <1>6, <1>7 DEF Expand

\* Every step keeps the types.
LEMMA StepsAreTyped ==
  ASSUME Types, WorkIsOnPath, [Next]_vars
  PROVE  Types' /\ WorkIsOnPath'
<1>1. CASE UNCHANGED vars
  BY <1>1 DEF vars, search, inputs, outcome, Types, TypeOK, WorkIsOnPath, SeedSet, HopsFrom
<1>2. CASE Generate
  BY <1>2, GenerateIsTyped
<1>3. CASE ExpandGraph
  BY <1>3, ExpandIsTyped DEF ExpandGraph
<1>4. CASE Hydrate \/ Evaluate \/ Rank \/ Assemble \/ Abort
  BY <1>4, LaterPhasesKeepTheSearch
     DEF search, inputs, Types, TypeOK, WorkIsOnPath, SeedSet, HopsFrom
<1>. QED
  BY <1>1, <1>2, <1>3, <1>4 DEF Next

\* The variables keep their types.
THEOREM RetrievalIsTyped == Spec => []TypeOK
<1>1. Init => Types /\ WorkIsOnPath
  BY InitIsTyped
<1>2. (Types /\ WorkIsOnPath) /\ [Next]_vars => (Types /\ WorkIsOnPath)'
  BY StepsAreTyped
<1>3. Types /\ WorkIsOnPath => TypeOK
  BY DEF Types
<1>. QED
  BY <1>1, <1>2, <1>3, PTL DEF Spec

-----------------------------------------------------------------------------
(* Discoveries: their paths.                                               *)

\* No node is met twice along the path p.
IsSimple(p) ==
  \A j \in DOMAIN p, k \in DOMAIN p :
    /\ p[j].target = p[k].target => j = k
    /\ p[j].source # p[k].target \/ k < j

\* The path p leads from a seed to n, over nodes that were visited.
IsTraversal(p, n) ==
  /\ \E s \in SeedSet : Leads(p, s, n)
  /\ IsSimple(p)
  /\ \A k \in DOMAIN p : p[k].source \in DOMAIN path /\ p[k].target \in DOMAIN path

\* So does every path.
PathsAreSound == \A n \in DOMAIN path : IsTraversal(path[n], n)

\* A traversal that is extended by a hop to a node not visited before is one.
LEMMA LongerPathLeads ==
  ASSUME NEW p \in Seq(Hops), NEW a, NEW h \in Hops, Leads(p, a, h.source),
         h \in HopsFrom(h.source)
  PROVE  Leads(Append(p, h), a, h.target)
<1>. DEFINE q == Append(p, h)
<1>1. /\ q \in Seq(Hops) /\ Len(q) = Len(p) + 1 /\ q # <<>>
      /\ \A k \in 1..Len(p) : q[k] = p[k]
      /\ q[Len(q)] = h
  BY AppendProperties
<1>2. DOMAIN q = 1..(Len(p) + 1) /\ DOMAIN p = 1..Len(p) /\ Len(p) \in Nat
  BY <1>1
<1>. HIDE DEF q
<1>3. CASE p = <<>>
  <2>1. h.source = a /\ Len(p) = 0
    BY <1>3 DEF Leads
  <2>2. Len(q) = 1 /\ q[1] = h /\ DOMAIN q = {1}
    BY <1>1, <1>2, <2>1
  <2>3. q[1].source = a /\ q[Len(q)].target = h.target /\ h.source = a
    BY <2>1, <2>2
  <2>4. /\ \A k \in 2..Len(q) : q[k].source = q[k - 1].target
        /\ \A k \in DOMAIN q : q[k] \in HopsFrom(q[k].source)
    BY <2>2
  <2>. QED
    BY <1>1, <2>3, <2>4 DEF Leads
<1>4. CASE p # <<>>
  <2>1. /\ p[1].source = a /\ p[Len(p)].target = h.source /\ Len(p) >= 1
        /\ \A k \in 2..Len(p) : p[k].source = p[k - 1].target
        /\ \A k \in DOMAIN p : p[k] \in HopsFrom(p[k].source)
    BY <1>2, <1>4 DEF Leads
  <2>2. q[1].source = a /\ q[Len(q)].target = h.target
    BY <1>1, <1>2, <2>1
  <2>3. ASSUME NEW k \in 2..Len(q)
        PROVE  q[k].source = q[k - 1].target
    <3>1. CASE k \in 2..Len(p)
      BY <1>1, <1>2, <2>1, <3>1
    <3>2. CASE k = Len(q)
      BY <1>1, <1>2, <2>1, <3>2
    <3>. QED
      BY <1>1, <1>2, <3>1, <3>2
  <2>4. ASSUME NEW k \in DOMAIN q
        PROVE  q[k] \in HopsFrom(q[k].source)
    <3>1. k \in DOMAIN p \/ k = Len(q)
      BY <1>1, <1>2
    <3>. QED
      BY <1>1, <1>2, <2>1, <3>1
  <2>. QED
    BY <1>1, <2>2, <2>3, <2>4 DEF Leads
<1>. QED
  BY <1>3, <1>4 DEF q

\* Such an extension stays simple.
LEMMA LongerPathIsSimple ==
  ASSUME NEW p \in Seq(Hops), NEW h \in Hops, IsSimple(p), NEW visited,
         \A k \in DOMAIN p : p[k].source \in visited /\ p[k].target \in visited,
         h.source \in visited, h.target \notin visited
  PROVE  IsSimple(Append(p, h))
<1>. DEFINE q == Append(p, h)
<1>1. /\ q \in Seq(Hops) /\ Len(q) = Len(p) + 1
      /\ \A k \in 1..Len(p) : q[k] = p[k]
      /\ q[Len(q)] = h
  BY AppendProperties
<1>2. DOMAIN q = 1..(Len(p) + 1) /\ DOMAIN p = 1..Len(p) /\ Len(p) \in Nat
  BY <1>1
<1>. HIDE DEF q
<1>3. ASSUME NEW j \in DOMAIN q, NEW k \in DOMAIN q
      PROVE  /\ q[j].target = q[k].target => j = k
             /\ q[j].source # q[k].target \/ k < j
  <2>1. CASE j \in DOMAIN p /\ k \in DOMAIN p
    BY <1>1, <1>2, <2>1 DEF IsSimple
  <2>2. CASE j \in DOMAIN p /\ k = Len(q)
    BY <1>1, <1>2, <2>2
  <2>3. CASE j = Len(q) /\ k \in DOMAIN p
    BY <1>1, <1>2, <2>3
  <2>4. CASE j = Len(q) /\ k = Len(q)
    BY <1>1, <1>2, <2>4
  <2>. QED
    BY <1>1, <1>2, <2>1, <2>2, <2>3, <2>4
<1>. QED
  BY <1>3 DEF IsSimple, q

\* Every step keeps the paths sound.
LEMMA PathsStaySound ==
  ASSUME Types, WorkIsOnPath, PathsAreSound, [Next]_vars
  PROVE  PathsAreSound'
<1>1. ASSUME UNCHANGED <<edges, seeds, path>>
      PROVE  PathsAreSound'
  <2>1. \A p, a, b : Leads(p, a, b)' = Leads(p, a, b)
    BY <1>1 DEF Leads, HopsFrom
  <2>2. SeedSet' = SeedSet
    BY <1>1 DEF SeedSet
  <2>. QED
    BY <1>1, <2>1, <2>2 DEF PathsAreSound, IsTraversal
<1>2. CASE Generate
  <2>1. path' = [n \in SeedSet' |-> <<>>]
    BY <1>2, GenerateIsTyped
  <2>2. ASSUME NEW n \in DOMAIN path'
        PROVE  IsTraversal(path[n], n)'
    <3>1. path'[n] = <<>> /\ n \in SeedSet'
      BY <2>1
    <3>2. Leads(path[n], n, n)'
      BY <3>1 DEF Leads
    <3>3. DOMAIN path'[n] = {}
      BY <3>1
    <3>. QED
      BY <3>1, <3>2, <3>3 DEF IsTraversal, IsSimple
  <2>. QED
    BY <2>2 DEF PathsAreSound
<1>3. ASSUME NEW h \in pending, VisitNeighbour(h)
      PROVE  PathsAreSound'
  <2>1. UNCHANGED <<edges, seeds>>
    BY <1>3 DEF VisitNeighbour, inputs
  <2>2. /\ h \in HopsFrom(node) /\ h \in Hops /\ h.source = node
        /\ node \in DOMAIN path /\ path[node] \in Seq(Hops) /\ h.target \notin DOMAIN path
        /\ DOMAIN path' = DOMAIN path \cup {h.target}
        /\ path'[h.target] = Append(path[node], h)
        /\ \A n \in DOMAIN path : path'[n] = path[n]
    BY <1>3, VisitExtendsThePaths
  <2>3. /\ \A p, a, b : Leads(p, a, b)' = Leads(p, a, b)
        /\ SeedSet' = SeedSet
    BY <2>1 DEF Leads, HopsFrom, SeedSet
  <2>4. ASSUME NEW n \in DOMAIN path
        PROVE  IsTraversal(path[n], n)'
    BY <2>2, <2>3 DEF PathsAreSound, IsTraversal
  <2>5. IsTraversal(path[h.target], h.target)'
    <3>. DEFINE p == path[node]
                q == Append(p, h)
    <3>1. PICK s \in SeedSet : Leads(p, s, node)
      BY <2>2 DEF PathsAreSound, IsTraversal
    <3>2. Leads(q, s, h.target)
      BY <2>2, <3>1, LongerPathLeads
    <3>3. IsSimple(p) /\ \A k \in DOMAIN p : p[k].source \in DOMAIN path /\ p[k].target \in DOMAIN path
      BY <2>2 DEF PathsAreSound, IsTraversal
    <3>4. IsSimple(q)
      BY <2>2, <3>3, LongerPathIsSimple
    <3>5. \A k \in DOMAIN q : q[k].source \in DOMAIN path' /\ q[k].target \in DOMAIN path'
      <4>1. \A k \in DOMAIN q : (k \in DOMAIN p /\ q[k] = p[k]) \/ q[k] = h
        BY <2>2, AppendProperties
      <4>. QED
        BY <2>2, <3>3, <4>1
    <3>6. path'[h.target] = q
      BY <2>2
    <3>. HIDE DEF p, q
    <3>7. (\E s1 \in SeedSet : Leads(path[h.target], s1, h.target))'
      BY <2>3, <3>2, <3>6
    <3>. QED
      BY <3>4, <3>5, <3>6, <3>7 DEF IsTraversal, IsSimple
  <2>. QED
    BY <2>2, <2>4, <2>5 DEF PathsAreSound
<1>4. CASE ExpandGraph
  <2>1. (\E h \in pending : VisitNeighbour(h)) \/ UNCHANGED <<edges, seeds, path>>
    BY <1>4 DEF ExpandGraph, Expand, StartLevel, StopExpansion, ExpandNode, EndLevel, DropTruncated,
                SkipVisited, CutNeighbours, inputs
  <2>. QED
    BY <1>1, <1>3, <2>1
<1>5. CASE Hydrate \/ Evaluate \/ Rank \/ Assemble \/ Abort
  BY <1>1, <1>5, LaterPhasesKeepTheSearch DEF search, inputs
<1>6. CASE UNCHANGED vars
  BY <1>1, <1>6 DEF vars, search, inputs
<1>. QED
  BY <1>2, <1>4, <1>5, <1>6 DEF Next

\* What a discovery is presented with is true: every path is one of the graph,
\* from a candidate of dense search, that visits no node twice.
THEOREM DiscoveriesAreReal == Spec => []PathsAreTraversals
<1>. DEFINE I == Types /\ WorkIsOnPath /\ PathsAreSound
<1>1. Init => I
  <2>1. Init => DOMAIN path = {}
    BY DEF Init
  <2>. QED
    BY <2>1, InitIsTyped DEF PathsAreSound
<1>2. I /\ [Next]_vars => I'
  BY StepsAreTyped, PathsStaySound
<1>3. I => PathsAreTraversals
  <2>1. ASSUME I
        PROVE  discovered \cap SeedSet = {} /\ discovered \subseteq DOMAIN path
    BY <2>1 DEF WorkIsOnPath
  <2>. QED
    BY <2>1 DEF PathsAreTraversals, PathsAreSound, IsTraversal, IsSimple
<1>. QED
  BY <1>1, <1>2, <1>3, PTL DEF Spec

-----------------------------------------------------------------------------
(* Discoveries: the limits of the search.                                  *)

\* No limit of the search is exceeded; the nodes still to expand are closer to
\* a seed than the level allows.
SearchIsBounded ==
  /\ levels <= budget.depth
  /\ \A n \in DOMAIN path : Len(path[n]) <= levels
  /\ at = "node" => \A k \in DOMAIN frontier : Len(path[frontier[k]]) < levels
  /\ pending # {} => at = "node" /\ Len(path[node]) < levels
  /\ Cardinality(discovered) <= budget.evidence
  /\ node # None => node \in Nodes /\ cost - Cardinality(HopsFrom(node)) < budget.cost

\* The depths and the kinds of number they are.
LEMMA PathsHaveLengths ==
  ASSUME Types
  PROVE  /\ \A n \in DOMAIN path : Len(path[n]) \in Nat
         /\ levels \in Nat /\ cost \in Nat /\ Cardinality(discovered) \in Nat
         /\ budget.depth \in Nat /\ budget.evidence \in Nat /\ budget.cost \in Nat
<1>1. \A n \in DOMAIN path : path[n] \in Seq(Hops)
  BY DEF Types, TypeOK
<1>2. Cardinality(discovered) \in Nat
  BY FS_CardinalityType DEF Types
<1>. QED
  BY <1>1, <1>2 DEF Types, TypeOK, Budget

\* Every step keeps to the limits of the search.
LEMMA SearchStaysBounded ==
  ASSUME Types, WorkIsOnPath, SearchIsBounded, [Next]_vars
  PROVE  SearchIsBounded'
<1>. USE PathsHaveLengths DEF inputs
<1>1. ASSUME UNCHANGED <<edges, budget, path, discovered, node, cost, levels>>,
             at' = "node" => at = "node" /\ frontier' = frontier,
             pending' # {} => at' = "node" /\ pending # {}
      PROVE  SearchIsBounded'
  <2>1. HopsFrom(node)' = HopsFrom(node) /\ Nodes' = Nodes
    BY <1>1 DEF HopsFrom, Nodes
  <2>. QED
    BY <1>1, <2>1 DEF SearchIsBounded
<1>2. CASE Generate
  <2>1. /\ path' = [n \in SeedSet' |-> <<>>] /\ discovered' = {} /\ node' = None /\ pending' = {}
        /\ levels' = 0 /\ budget' = budget /\ at' = "level"
    BY <1>2, GenerateIsTyped
  <2>2. Cardinality(discovered') = 0
    BY <2>1, FS_EmptySet
  <2>3. \A n \in DOMAIN path' : path'[n] = <<>>
    BY <2>1
  <2>. QED
    BY <2>1, <2>2, <2>3 DEF SearchIsBounded
<1>3. CASE StartLevel
  <2>1. /\ UNCHANGED <<edges, budget, path, discovered, frontier, node, pending, cost>>
        /\ levels' = levels + 1 /\ levels < budget.depth
    BY <1>3 DEF StartLevel
  <2>2. HopsFrom(node)' = HopsFrom(node) /\ Nodes' = Nodes
    BY <2>1 DEF HopsFrom, Nodes
  <2>3. pending = {}
    BY <1>3 DEF StartLevel, SearchIsBounded
  <2>4. \A n \in DOMAIN path : Len(path[n]) < levels + 1
    BY DEF SearchIsBounded
  <2>5. \A k \in DOMAIN frontier : Len(path[frontier[k]]) < levels + 1
    BY <2>4 DEF WorkIsOnPath
  <2>. QED
    BY <2>1, <2>2, <2>3, <2>4, <2>5 DEF SearchIsBounded
<1>4. CASE ExpandNode
  <2>1. /\ UNCHANGED <<edges, budget, at, path, discovered, levels>>
        /\ frontier # <<>> /\ node' = Head(frontier) /\ frontier' = Tail(frontier)
        /\ cost' = cost + Cardinality(HopsFrom(Head(frontier))) /\ at = "node"
        /\ cost < budget.cost
    BY <1>4 DEF ExpandNode, CostSpent
  <2>2. frontier \in Seq(Nodes)
    BY DEF Types, TypeOK
  <2>3. /\ Head(frontier) \in Nodes /\ Head(frontier) = frontier[1] /\ 1 \in DOMAIN frontier
        /\ \A k \in DOMAIN frontier' : k + 1 \in DOMAIN frontier /\ frontier'[k] = frontier[k + 1]
    BY <2>1, <2>2
  <2>4. HopsFrom(node)' = HopsFrom(Head(frontier))
    BY <2>1 DEF HopsFrom
  <2>5. Cardinality(HopsFrom(Head(frontier))) \in Nat
    BY <2>3, DegreeIsNatural DEF Types, TypeOK
  <2>6. cost' - Cardinality(HopsFrom(node))' < budget'.cost
    BY <2>1, <2>4, <2>5
  <2>7. /\ Len(path'[node']) < levels'
        /\ \A k \in DOMAIN frontier' : Len(path'[frontier'[k]]) < levels'
    BY <2>1, <2>3 DEF SearchIsBounded
  <2>8. node' \in Nodes'
    BY <2>1, <2>3 DEF Nodes
  <2>. QED
    BY <2>1, <2>6, <2>7, <2>8 DEF SearchIsBounded
<1>5. ASSUME NEW h \in pending, VisitNeighbour(h)
      PROVE  SearchIsBounded'
  <2>1. /\ UNCHANGED <<edges, budget, at, frontier, node, levels, cost>>
        /\ discovered' = IF h.target \in Chunks THEN discovered \cup {h.target} ELSE discovered
        /\ pending' = pending \ {h} /\ ~EvidenceSpent
    BY <1>5 DEF VisitNeighbour
  <2>2. /\ node \in DOMAIN path /\ path[node] \in Seq(Hops) /\ h \in Hops /\ h.target \notin DOMAIN path
        /\ DOMAIN path' = DOMAIN path \cup {h.target}
        /\ path'[h.target] = Append(path[node], h)
        /\ \A n \in DOMAIN path : path'[n] = path[n]
    BY <1>5, VisitExtendsThePaths
  <2>3. at = "node" /\ Len(path[node]) < levels
    BY <1>5 DEF SearchIsBounded
  <2>4. Len(path'[h.target]) <= levels
    <3>1. Len(path'[h.target]) = Len(path[node]) + 1
      BY <2>2, AppendProperties
    <3>. QED
      BY <2>2, <2>3, <3>1
  <2>5. \A n \in DOMAIN path' : Len(path'[n]) <= levels'
    BY <2>1, <2>2, <2>4 DEF SearchIsBounded
  <2>6. Cardinality(discovered') <= budget'.evidence
    <3>1. Cardinality(discovered) < budget.evidence
      BY <2>1 DEF EvidenceSpent
    <3>2. Cardinality(discovered') \in {Cardinality(discovered), Cardinality(discovered) + 1}
      BY <2>1, FS_AddElement DEF Types
    <3>. QED
      BY <2>1, <3>1, <3>2
  <2>7. HopsFrom(node)' = HopsFrom(node) /\ Nodes' = Nodes
    BY <2>1 DEF HopsFrom, Nodes
  <2>8. \A k \in DOMAIN frontier : Len(path'[frontier[k]]) < levels
    BY <2>2, <2>3 DEF SearchIsBounded, WorkIsOnPath
  <2>9. pending' # {} => at' = "node" /\ Len(path'[node']) < levels'
    BY <2>1, <2>2, <2>3
  <2>. QED
    BY <2>1, <2>3, <2>5, <2>6, <2>7, <2>8, <2>9 DEF SearchIsBounded
<1>6. CASE ExpandGraph
  <2>1. \/ \E h \in pending : VisitNeighbour(h)
        \/ StartLevel \/ ExpandNode \/ StopExpansion \/ EndLevel \/ DropTruncated
        \/ \E h \in pending : SkipVisited(h) \/ CutNeighbours(h)
    BY <1>6 DEF ExpandGraph, Expand
  <2>2. CASE StopExpansion
    <3>1. /\ UNCHANGED <<edges, budget, path, discovered, node, cost, levels, pending>>
          /\ at' = "hydrate" /\ at = "level"
      BY <2>2 DEF StopExpansion
    <3>. QED
      BY <1>1, <3>1 DEF SearchIsBounded
  <2>3. CASE EndLevel
    <3>1. /\ UNCHANGED <<edges, budget, path, discovered, node, cost, levels, pending>>
          /\ at' = "level" /\ pending = {}
      BY <2>3 DEF EndLevel
    <3>. QED
      BY <1>1, <3>1
  <2>4. CASE DropTruncated
    <3>1. /\ UNCHANGED <<edges, budget, path, discovered, node, cost, levels, frontier, at>>
          /\ pending' = {}
      BY <2>4 DEF DropTruncated
    <3>. QED
      BY <1>1, <3>1
  <2>5. ASSUME NEW h \in pending, SkipVisited(h) \/ CutNeighbours(h)
        PROVE  SearchIsBounded'
    <3>1. /\ UNCHANGED <<edges, budget, path, discovered, node, cost, levels, frontier, at>>
          /\ at = "node"
      BY <2>5 DEF SkipVisited, CutNeighbours, NextNeighbour
    <3>. QED
      BY <1>1, <2>5, <3>1
  <2>. QED
    BY <1>3, <1>4, <1>5, <2>1, <2>2, <2>3, <2>4, <2>5
<1>7. CASE Hydrate \/ Evaluate \/ Rank \/ Assemble \/ Abort
  <2>1. pending = {}
    BY <1>7 DEF Hydrate, Evaluate, Rank, Assemble, Abort, SearchIsBounded
  <2>. QED
    BY <1>1, <1>7, <2>1, LaterPhasesKeepTheSearch DEF search
<1>8. CASE UNCHANGED vars
  BY <1>1, <1>8 DEF vars, search, SearchIsBounded
<1>. QED
  BY <1>2, <1>6, <1>7, <1>8 DEF Next

\* The search keeps its limits from the start.
LEMMA InitIsBounded ==
  ASSUME Init
  PROVE  SearchIsBounded
<1>1. /\ levels = 0 /\ DOMAIN path = {} /\ at = "generate" /\ pending = {} /\ discovered = {}
      /\ node = None
  BY DEF Init
<1>2. Cardinality(discovered) = 0
  BY <1>1, FS_EmptySet
<1>3. Types
  BY InitIsTyped
<1>. QED
  BY <1>1, <1>2, <1>3, PathsHaveLengths DEF SearchIsBounded

-----------------------------------------------------------------------------
(* Discoveries: what an uncut search finds.                                *)

\* W holds, by depth, the nodes within so many hops of the seeds.
Reaches(W) ==
  /\ W \in [Nat -> SUBSET Nodes] /\ W[0] = SeedSet
  /\ \A d \in Nat :
       W[d + 1] = W[d] \cup {h.target : h \in UNION {HopsFrom(n) : n \in W[d]}}

\* The reference does.
LEMMA WithinReaches ==
  ASSUME Types
  PROVE  Reaches(Within)
<1>. DEFINE step == [S \in SUBSET Nodes |->
                       S \cup {h.target : h \in UNION {HopsFrom(n) : n \in S}}]
<1>1. SeedSet \in SUBSET Nodes
  BY DEF SeedSet, Types, TypeOK, Nodes
<1>2. step \in [SUBSET Nodes -> SUBSET Nodes]
  <2>1. \A n \in Nodes : \A h \in HopsFrom(n) : h.target \in Nodes
    BY HopsAreTyped DEF Types, TypeOK, Hops
  <2>. QED
    BY <2>1
<1>3. PICK g \in [Nat -> SUBSET Nodes] :
        g[0] = SeedSet /\ \A d \in Nat : g[d + 1] = step[g[d]]
  <2>. DEFINE X == SUBSET Nodes
  <2>1. SeedSet \in X /\ step \in [X -> X]
    BY <1>1, <1>2
  <2>. HIDE DEF step, X
  <2>2. \E g \in [Nat -> X] : g[0] = SeedSet /\ \A d \in Nat : g[d + 1] = step[g[d]]
    BY <2>1, IterationExists
  <2>. QED
    BY <2>2 DEF X
<1>4. \A d \in Nat : g[d + 1] = g[d] \cup {h.target : h \in UNION {HopsFrom(n) : n \in g[d]}}
  BY <1>3
<1>. HIDE DEF step
<1>5. g = [d \in Nat |-> IF d = 0 THEN SeedSet
             ELSE g[d - 1] \cup {h.target : h \in UNION {HopsFrom(n) : n \in g[d - 1]}}]
  <2>1. ASSUME NEW d \in Nat
        PROVE  g[d] = IF d = 0 THEN SeedSet
             ELSE g[d - 1] \cup {h.target : h \in UNION {HopsFrom(n) : n \in g[d - 1]}}
    <3>1. CASE d = 0
      BY <1>3, <3>1
    <3>2. CASE d # 0
      <4>1. d - 1 \in Nat /\ (d - 1) + 1 = d
        BY <3>2
      <4>2. g[(d - 1) + 1] = g[d - 1] \cup {h.target : h \in UNION {HopsFrom(n) : n \in g[d - 1]}}
        BY <1>4, <4>1
      <4>. QED
        BY <3>2, <4>1, <4>2
    <3>. QED
      BY <3>1, <3>2
  <2>. QED
    BY <1>3, <2>1
<1>6. Within = [d \in Nat |-> IF d = 0 THEN SeedSet
             ELSE Within[d - 1] \cup {h.target : h \in UNION {HopsFrom(n) : n \in Within[d - 1]}}]
  BY <1>5 DEF Within
<1>. DEFINE W == Within
<1>7. W[0] = SeedSet
  BY <1>6
<1>8. ASSUME NEW d \in Nat
      PROVE  W[d + 1] = W[d] \cup {h.target : h \in UNION {HopsFrom(n) : n \in W[d]}}
  <2>1. d + 1 \in Nat /\ d + 1 # 0 /\ (d + 1) - 1 = d
    OBVIOUS
  <2>. QED
    BY <1>6, <2>1
<1>9. \A d \in Nat : W[d] \in SUBSET Nodes
  <2>. DEFINE A == {d \in Nat : W[d] \in SUBSET Nodes}
  <2>1. 0 \in A
    BY <1>1, <1>7
  <2>2. ASSUME NEW d \in Nat, d \in A
        PROVE  d + 1 \in A
    <3>1. W[d + 1] = step[W[d]]
      BY <1>8, <2>2 DEF step
    <3>. QED
      BY <1>2, <2>2, <3>1
  <2>3. Nat \subseteq A
    <3>. HIDE DEF A
    <3>. QED
      BY <2>1, <2>2, NumberInduction
  <2>. QED
    BY <2>3
<1>. QED
  BY <1>6, <1>7, <1>8, <1>9 DEF Reaches

\* A node has at most two hops over an edge.
LEMMA DegreeIsBounded ==
  ASSUME edges \subseteq Edges, NEW n \in Nodes
  PROVE  /\ IsFiniteSet(edges) /\ IsFiniteSet(HopsFrom(n))
         /\ Cardinality(edges) \in Nat /\ Cardinality(HopsFrom(n)) \in Nat
         /\ Cardinality(HopsFrom(n)) <= 2 * Cardinality(edges)
<1>. DEFINE Forward  == {Hop(n, e.target, e.type, "outgoing") : e \in {f \in edges : f.source = n}}
            Backward == {Hop(n, e.source, e.type, "incoming") :
                           e \in {f \in edges : f.target = n /\ f.type # "CITES"}}
<1>1. IsFiniteSet(edges)
  <2>. DEFINE f == [e \in edges |-> Hop(e.source, e.target, e.type, "outgoing")]
  <2>1. \A e \in edges : f[e] \in Hops /\ f[e] = Hop(e.source, e.target, e.type, "outgoing")
    BY DEF Hops, Hop, Edges
  <2>2. \A d, e \in edges : f[d] = f[e] => d = e
    BY DEF Hop, Edges
  <2>3. f \in Injection(edges, Hops)
    <3>. HIDE DEF f
    <3>1. f = [e \in edges |-> f[e]]
      BY DEF f
    <3>. QED
      BY <2>1, <2>2, <3>1 DEF Injection, IsInjective
  <2>. QED
    BY <2>3, HopsAreFinite, FS_Injection
<1>2. Forward \subseteq Hops /\ Backward \subseteq Hops /\ HopsFrom(n) = Forward \cup Backward
  BY DEF HopsFrom, Hop, Hops, Edges
<1>3. IsFiniteSet(Forward) /\ Cardinality(Forward) <= Cardinality(edges)
  <2>. DEFINE f == [h \in Forward |-> Edge(h.source, h.target, h.type)]
  <2>1. \A h \in Forward : f[h] \in edges
    BY DEF Hop, Edge, Edges
  <2>2. \A g, h \in Forward : f[g] = f[h] => g = h
    BY DEF Hop, Edge
  <2>3. f \in Injection(Forward, edges)
    <3>1. f = [h \in Forward |-> f[h]]
      OBVIOUS
    <3>. HIDE DEF f, Forward
    <3>. QED
      BY <2>1, <2>2, <3>1 DEF Injection, IsInjective
  <2>. HIDE DEF f, Forward
  <2>. QED
    BY <1>1, <2>3, FS_Injection
<1>4. IsFiniteSet(Backward) /\ Cardinality(Backward) <= Cardinality(edges)
  <2>. DEFINE f == [h \in Backward |-> Edge(h.target, h.source, h.type)]
  <2>1. \A h \in Backward : f[h] \in edges
    BY DEF Hop, Edge, Edges
  <2>2. \A g, h \in Backward : f[g] = f[h] => g = h
    BY DEF Hop, Edge
  <2>3. f \in Injection(Backward, edges)
    <3>1. f = [h \in Backward |-> f[h]]
      OBVIOUS
    <3>. HIDE DEF f, Backward
    <3>. QED
      BY <2>1, <2>2, <3>1 DEF Injection, IsInjective
  <2>. HIDE DEF f, Backward
  <2>. QED
    BY <1>1, <2>3, FS_Injection
<1>. HIDE DEF Forward, Backward
<1>5. /\ Cardinality(edges) \in Nat /\ Cardinality(Forward) \in Nat /\ Cardinality(Backward) \in Nat
      /\ Cardinality(Forward \cap Backward) \in Nat
  <2>1. IsFiniteSet(Forward \cap Backward)
    BY <1>3, FS_Subset
  <2>. QED
    BY <1>1, <1>3, <1>4, <2>1, FS_CardinalityType
<1>6. /\ IsFiniteSet(HopsFrom(n))
      /\ Cardinality(HopsFrom(n))
           = Cardinality(Forward) + Cardinality(Backward) - Cardinality(Forward \cap Backward)
  BY <1>2, <1>3, <1>4, FS_Union
<1>. QED
  BY <1>1, <1>3, <1>4, <1>5, <1>6, DegreeIsNatural

\* W grows with the depth, by the neighbours of what it holds; once it does not
\* grow it never does.
LEMMA ReachGrows ==
  ASSUME NEW W, Reaches(W)
  PROVE  /\ \A d \in Nat, e \in Nat : d <= e => W[d] \subseteq W[e]
         /\ \A d \in Nat : \A n \in W[d] : \A h \in HopsFrom(n) : h.target \in W[d + 1]
         /\ \A d \in Nat, e \in Nat : W[d + 1] = W[d] /\ d <= e => W[e] = W[d]
<1>1. ASSUME NEW d \in Nat, NEW e \in Nat, d <= e
      PROVE  W[d] \subseteq W[e]
  <2>. DEFINE A == {k \in Nat : W[d] \subseteq W[d + k]}
  <2>1. 0 \in A
    OBVIOUS
  <2>2. ASSUME NEW k \in Nat, k \in A
        PROVE  k + 1 \in A
    <3>1. W[d + k] \subseteq W[(d + k) + 1] /\ (d + k) + 1 = d + (k + 1)
      BY DEF Reaches
    <3>. QED
      BY <2>2, <3>1
  <2>3. Nat \subseteq A
    <3>. HIDE DEF A
    <3>. QED
      BY <2>1, <2>2, NumberInduction
  <2>4. e - d \in A /\ d + (e - d) = e
    <3>1. e - d \in Nat /\ d + (e - d) = e
      BY <1>1
    <3>. HIDE DEF A
    <3>. QED
      BY <2>3, <3>1
  <2>. QED
    BY <2>4
<1>2. ASSUME NEW d \in Nat, NEW n \in W[d], NEW h \in HopsFrom(n)
      PROVE  h.target \in W[d + 1]
  BY DEF Reaches
<1>3. ASSUME NEW d \in Nat, NEW e \in Nat, W[d + 1] = W[d], d <= e
      PROVE  W[e] = W[d]
  <2>. DEFINE A == {k \in Nat : W[d + k] = W[d]}
  <2>1. 0 \in A
    OBVIOUS
  <2>2. ASSUME NEW k \in Nat, k \in A
        PROVE  k + 1 \in A
    <3>1. /\ W[(d + k) + 1] = W[d + k] \cup {h.target : h \in UNION {HopsFrom(n) : n \in W[d + k]}}
          /\ W[d + 1] = W[d] \cup {h.target : h \in UNION {HopsFrom(n) : n \in W[d]}}
          /\ (d + k) + 1 = d + (k + 1)
      BY DEF Reaches
    <3>2. W[d + k] = W[d]
      BY <2>2
    <3>. QED
      BY <1>3, <3>1, <3>2
  <2>3. Nat \subseteq A
    <3>. HIDE DEF A
    <3>. QED
      BY <2>1, <2>2, NumberInduction
  <2>4. e - d \in A /\ d + (e - d) = e
    <3>1. e - d \in Nat /\ d + (e - d) = e
      BY <1>3
    <3>. HIDE DEF A
    <3>. QED
      BY <2>3, <3>1
  <2>. QED
    BY <2>4
<1>. QED
  BY <1>1, <1>2, <1>3

\* No limit stopped the search, and none on neighbours can have.
Uncut == exhausted = None /\ budget.neighbors >= 2 * Cardinality(edges)

\* Every node visited was reached by a shortest path.
PathsAreShortest(W) ==
  /\ \A n \in DOMAIN path : n \in W[Len(path[n])] /\ \A d \in Nat : d < Len(path[n]) => n \notin W[d]
  /\ discovered = (DOMAIN path \cap Chunks) \ SeedSet

\* Between two levels: every node of the levels so far was visited, and those of
\* the last one are the frontier.
LevelsAreVisited(W) ==
  /\ W[levels] \subseteq DOMAIN path
  /\ \A n \in DOMAIN path : Len(path[n]) = levels => \E k \in DOMAIN frontier : frontier[k] = n
  /\ \A k \in DOMAIN frontier : Len(path[frontier[k]]) = levels

\* Within a level: a node of the previous one is in the frontier, or its
\* neighbours were visited or still wait to be looked at.
LevelIsExplored(W) ==
  /\ levels >= 1 /\ W[levels - 1] \subseteq DOMAIN path
  /\ \A n \in DOMAIN path : Len(path[n]) = levels => \E k \in DOMAIN next : next[k] = n
  /\ \A k \in DOMAIN next : Len(path[next[k]]) = levels
  /\ \A k \in DOMAIN frontier : Len(path[frontier[k]]) = levels - 1
  /\ \A n \in DOMAIN path : Len(path[n]) = levels - 1 =>
       \/ \E k \in DOMAIN frontier : frontier[k] = n
       \/ \A h \in HopsFrom(n) : h.target \in DOMAIN path \/ h \in pending
  /\ pending # {} =>
       /\ Len(path[node]) = levels - 1
       /\ looked + Cardinality(pending) <= Cardinality(HopsFrom(node))

\* The search has found what it could have found by now, at the distances W says.
Complete(W) ==
  /\ at \in {"level", "node", "hydrate"} => PathsAreShortest(W)
  /\ at = "level" => LevelsAreVisited(W)
  /\ at = "node" => LevelIsExplored(W)
  /\ at = "hydrate" => W[budget.depth] \subseteq DOMAIN path

\* A search that no limit cut is complete, whatever the distances are.
SearchIsComplete == Uncut => \A W : Reaches(W) => Complete(W)

\* A limit is not None.
LEMMA LimitsAreSomething == Limit # None
BY NoneIsNoLimit DEF Limit

\* At first only the seeds were visited, and they are the frontier.
LEMMA SearchStartsComplete ==
  ASSUME Types, Generate
  PROVE  SearchIsComplete'
<1>1. /\ path' = [n \in SeedSet' |-> <<>>] /\ frontier' = seeds' /\ discovered' = {}
      /\ levels' = 0 /\ at' = "level"
  BY GenerateIsTyped
<1>2. SUFFICES ASSUME NEW W, Reaches(W)'
               PROVE  Complete(W)'
  BY DEF SearchIsComplete
<1>3. W[0] = SeedSet'
  BY <1>2 DEF Reaches
<1>4. DOMAIN path' = SeedSet' /\ \A n \in DOMAIN path' : path'[n] = <<>> /\ Len(path'[n]) = 0
  BY <1>1
<1>5. PathsAreShortest(W)'
  BY <1>1, <1>3, <1>4 DEF PathsAreShortest
<1>6. LevelsAreVisited(W)'
  <2>1. \A n \in SeedSet' : \E k \in DOMAIN seeds' : seeds'[k] = n
    BY DEF SeedSet
  <2>2. \A k \in DOMAIN seeds' : seeds'[k] \in SeedSet'
    BY DEF SeedSet
  <2>. QED
    BY <1>1, <1>3, <1>4, <2>1, <2>2 DEF LevelsAreVisited
<1>. QED
  BY <1>1, <1>5, <1>6 DEF Complete

\* A search that ends without a limit has visited what its depth allows.
LEMMA StopIsComplete ==
  ASSUME Types, WorkIsOnPath, SearchIsBounded, NEW W, Reaches(W), Complete(W), StopExpansion,
         exhausted' = None
  PROVE  Complete(W)'
<1>1. /\ UNCHANGED <<inputs, seeds, path, discovered, levels>>
      /\ at = "level" /\ at' = "hydrate" /\ ~(levels < budget.depth /\ frontier # <<>>)
  BY LimitsAreSomething DEF StopExpansion
<1>2. PathsAreShortest(W) /\ LevelsAreVisited(W)
  BY <1>1 DEF Complete
<1>3. levels \in Nat /\ budget.depth \in Nat /\ levels <= budget.depth
  BY PathsHaveLengths DEF SearchIsBounded
<1>4. CASE levels = budget.depth
  BY <1>1, <1>2, <1>4 DEF Complete, PathsAreShortest, LevelsAreVisited, inputs, SeedSet
<1>5. CASE frontier = <<>>
  <2>1. \A n \in DOMAIN path : Len(path[n]) \in Nat /\ Len(path[n]) < levels
    BY <1>2, <1>3, <1>5, PathsHaveLengths DEF LevelsAreVisited, SearchIsBounded
  <2>2. ASSUME NEW n \in W[levels], NEW h \in HopsFrom(n)
        PROVE  h.target \in W[levels]
    <3>1. n \in DOMAIN path /\ n \in W[Len(path[n])]
      BY <1>2 DEF LevelsAreVisited, PathsAreShortest
    <3>2. h.target \in W[Len(path[n]) + 1]
      BY <2>1, <3>1, ReachGrows
    <3>3. Len(path[n]) + 1 \in Nat /\ Len(path[n]) + 1 <= levels
      BY <1>3, <2>1, <3>1
    <3>. QED
      BY <1>3, <3>2, <3>3, ReachGrows
  <2>3. W[levels + 1] = W[levels]
    <3>1. W[levels + 1] = W[levels] \cup {h.target : h \in UNION {HopsFrom(n) : n \in W[levels]}}
      BY <1>3 DEF Reaches
    <3>. QED
      BY <2>2, <3>1
  <2>4. W[budget.depth] = W[levels]
    BY <1>3, <2>3, ReachGrows
  <2>. QED
    BY <1>1, <1>2, <2>4 DEF Complete, PathsAreShortest, LevelsAreVisited, inputs, SeedSet
<1>. QED
  BY <1>1, <1>3, <1>4, <1>5

\* A level that ends without a limit has visited all its nodes.
LEMMA LevelIsVisited ==
  ASSUME Types, WorkIsOnPath, SearchIsBounded, NEW W, Reaches(W), Complete(W), EndLevel,
         exhausted' = None
  PROVE  Complete(W)'
<1>1. /\ UNCHANGED <<inputs, seeds, path, discovered, levels>>
      /\ at = "node" /\ at' = "level" /\ frontier = <<>> /\ frontier' = next /\ pending = {}
  BY LimitsAreSomething DEF EndLevel
<1>2. PathsAreShortest(W) /\ LevelIsExplored(W)
  BY <1>1 DEF Complete
<1>3. levels \in Nat /\ levels - 1 \in Nat /\ (levels - 1) + 1 = levels
  BY <1>2, PathsHaveLengths DEF LevelIsExplored
<1>4. ASSUME NEW m \in W[levels - 1], NEW h \in HopsFrom(m)
      PROVE  h.target \in DOMAIN path
  <2>1. m \in DOMAIN path
    BY <1>2 DEF LevelIsExplored
  <2>2. Len(path[m]) \in Nat /\ m \in W[Len(path[m])] /\ ~(levels - 1 < Len(path[m]))
    BY <1>2, <1>3, <2>1, PathsHaveLengths DEF PathsAreShortest
  <2>3. CASE Len(path[m]) = levels - 1
    BY <1>1, <1>2, <2>1, <2>3 DEF LevelIsExplored
  <2>4. CASE Len(path[m]) # levels - 1
    <3>1. Len(path[m]) + 1 \in Nat /\ Len(path[m]) + 1 <= levels - 1
      BY <1>3, <2>2, <2>4
    <3>2. h.target \in W[Len(path[m]) + 1]
      BY <2>2, ReachGrows
    <3>3. h.target \in W[levels - 1]
      BY <1>3, <3>1, <3>2, ReachGrows
    <3>. QED
      BY <1>2, <3>3 DEF LevelIsExplored
  <2>. QED
    BY <2>3, <2>4
<1>5. W[levels] \subseteq DOMAIN path
  <2>1. W[levels] = W[levels - 1] \cup {h.target : h \in UNION {HopsFrom(n) : n \in W[levels - 1]}}
    <3>1. W[(levels - 1) + 1]
            = W[levels - 1] \cup {h.target : h \in UNION {HopsFrom(n) : n \in W[levels - 1]}}
      BY <1>3 DEF Reaches
    <3>. QED
      BY <1>3, <3>1
  <2>. QED
    BY <1>2, <1>4, <2>1 DEF LevelIsExplored
<1>. QED
  BY <1>1, <1>2, <1>5 DEF Complete, PathsAreShortest, LevelsAreVisited, LevelIsExplored, inputs, SeedSet

\* The next level starts with the nodes of the last one.
LEMMA LevelStartsComplete ==
  ASSUME Types, WorkIsOnPath, SearchIsBounded, NEW W, Reaches(W), Complete(W), StartLevel
  PROVE  Complete(W)'
<1>1. /\ UNCHANGED <<inputs, seeds, path, discovered, frontier, node, pending>>
      /\ at = "level" /\ at' = "node" /\ levels' = levels + 1 /\ next' = <<>> /\ pending = {}
  BY DEF StartLevel, SearchIsBounded
<1>2. PathsAreShortest(W) /\ LevelsAreVisited(W)
  BY <1>1 DEF Complete
<1>3. levels \in Nat /\ \A n \in DOMAIN path : Len(path[n]) \in Nat /\ Len(path[n]) <= levels
  BY PathsHaveLengths DEF SearchIsBounded
<1>4. PathsAreShortest(W)'
  BY <1>1, <1>2 DEF PathsAreShortest, SeedSet
<1>5. LevelIsExplored(W)'
  <2>1. levels' >= 1 /\ levels' - 1 = levels
    BY <1>1, <1>3
  <2>2. \A n \in DOMAIN path : Len(path[n]) # levels'
    BY <1>1, <1>3
  <2>3. DOMAIN next' = {}
    BY <1>1
  <2>. QED
    BY <1>1, <1>2, <2>1, <2>2, <2>3 DEF LevelsAreVisited, LevelIsExplored
<1>. QED
  BY <1>1, <1>4, <1>5 DEF Complete

\* The neighbours of a node that is expanded wait to be looked at.
LEMMA NodeIsExplored ==
  ASSUME Types, WorkIsOnPath, SearchIsBounded, NEW W, Reaches(W), Complete(W), ExpandNode
  PROVE  Complete(W)'
<1>1. /\ UNCHANGED <<inputs, at, seeds, path, discovered, next, levels>>
      /\ at = "node" /\ frontier # <<>> /\ node' = Head(frontier) /\ frontier' = Tail(frontier)
      /\ pending' = HopsFrom(node') /\ looked' = 0 /\ pending = {}
  BY DEF ExpandNode
<1>2. PathsAreShortest(W) /\ LevelIsExplored(W)
  BY <1>1 DEF Complete
<1>3. /\ frontier \in Seq(Nodes) /\ Len(frontier) >= 1 /\ Len(frontier) \in Nat
      /\ Len(frontier') = Len(frontier) - 1
      /\ node' = frontier[1] /\ node' \in Nodes /\ 1 \in DOMAIN frontier
      /\ \A k \in DOMAIN frontier' : k + 1 \in DOMAIN frontier /\ frontier'[k] = frontier[k + 1]
      /\ \A k \in DOMAIN frontier : k = 1 \/ (k - 1 \in DOMAIN frontier' /\ frontier'[k - 1] = frontier[k])
  BY <1>1 DEF Types, TypeOK
<1>4. PathsAreShortest(W)'
  BY <1>1, <1>2 DEF PathsAreShortest, SeedSet
<1>5. \A n : HopsFrom(n)' = HopsFrom(n)
  BY <1>1 DEF HopsFrom, inputs
<1>6. Cardinality(HopsFrom(node')) \in Nat
  BY <1>3, DegreeIsNatural DEF Types, TypeOK
<1>7. Len(path'[node']) = levels' - 1
  BY <1>1, <1>2, <1>3 DEF LevelIsExplored
<1>8. looked' + Cardinality(pending') <= Cardinality(HopsFrom(node)')
  <2>1. HopsFrom(node)' = HopsFrom(node')
    BY <1>1 DEF HopsFrom, inputs
  <2>. QED
    BY <1>1, <1>6, <2>1
<1>9. ASSUME NEW n \in DOMAIN path, Len(path[n]) = levels - 1
      PROVE  \/ \E k \in DOMAIN frontier' : frontier'[k] = n
             \/ \A h \in HopsFrom(n) : h.target \in DOMAIN path \/ h \in pending'
  <2>1. CASE \E k \in DOMAIN frontier : frontier[k] = n
    <3>1. PICK k \in DOMAIN frontier : frontier[k] = n
      BY <2>1
    <3>2. CASE k = 1
      BY <1>1, <1>3, <3>1, <3>2
    <3>3. CASE k # 1
      BY <1>3, <3>1, <3>3
    <3>. QED
      BY <3>2, <3>3
  <2>2. CASE \A h \in HopsFrom(n) : h.target \in DOMAIN path \/ h \in pending
    BY <1>1, <2>2
  <2>. QED
    BY <1>2, <1>9, <2>1, <2>2 DEF LevelIsExplored
<1>10. \A k \in DOMAIN frontier' : Len(path[frontier'[k]]) = levels - 1
  BY <1>2, <1>3 DEF LevelIsExplored
<1>11. LevelIsExplored(W)'
  BY <1>1, <1>2, <1>5, <1>7, <1>8, <1>9, <1>10 DEF LevelIsExplored
<1>. QED
  BY <1>1, <1>4, <1>11 DEF Complete

\* One neighbour less waits after one more was looked at.
LEMMA LookingCounts ==
  ASSUME Types, WorkIsOnPath, NEW h \in pending, pending' = pending \ {h}, looked' = looked + 1
  PROVE  /\ looked' + Cardinality(pending') = looked + Cardinality(pending)
         /\ IsFiniteSet(pending) /\ Cardinality(pending) \in Nat /\ Cardinality(pending) >= 1
<1>1. IsFiniteSet(pending)
  BY HopsAreFinite, FS_Subset DEF Types, TypeOK
<1>2. Cardinality(pending \ {h}) = Cardinality(pending) - 1
  BY <1>1, FS_RemoveElement
<1>3. Cardinality(pending) \in Nat /\ Cardinality(pending \ {h}) \in Nat
  BY <1>1, FS_Subset, FS_CardinalityType
<1>. QED
  BY <1>1, <1>2, <1>3 DEF Types, TypeOK

\* A neighbour that was visited before need not be looked at.
LEMMA SkipIsComplete ==
  ASSUME Types, WorkIsOnPath, SearchIsBounded, NEW W, Reaches(W), Complete(W),
         NEW h \in pending, SkipVisited(h)
  PROVE  Complete(W)'
<1>1. /\ UNCHANGED <<inputs, at, seeds, path, discovered, frontier, next, node, levels>>
      /\ at = "node" /\ h.target \in DOMAIN path /\ pending' = pending \ {h} /\ looked' = looked + 1
  BY DEF SkipVisited, NextNeighbour
<1>2. PathsAreShortest(W) /\ LevelIsExplored(W)
  BY <1>1 DEF Complete
<1>3. PathsAreShortest(W)'
  BY <1>1, <1>2 DEF PathsAreShortest, SeedSet
<1>4. \A n : HopsFrom(n)' = HopsFrom(n)
  BY <1>1 DEF HopsFrom, inputs
<1>5. HopsFrom(node)' = HopsFrom(node)
  BY <1>1 DEF HopsFrom, inputs
<1>6. looked' + Cardinality(pending') <= Cardinality(HopsFrom(node)')
  BY <1>1, <1>2, <1>5, LookingCounts DEF LevelIsExplored
<1>7. LevelIsExplored(W)'
  BY <1>1, <1>2, <1>4, <1>6 DEF LevelIsExplored
<1>. QED
  BY <1>1, <1>3, <1>7 DEF Complete

\* A neighbour not visited before is one level further than the node expanded.
LEMMA VisitIsComplete ==
  ASSUME Types, WorkIsOnPath, SearchIsBounded, NEW W, Reaches(W), Complete(W),
         NEW h \in pending, VisitNeighbour(h)
  PROVE  Complete(W)'
<1>1. /\ UNCHANGED <<inputs, at, seeds, frontier, node, levels>>
      /\ at = "node" /\ pending' = pending \ {h} /\ looked' = looked + 1
      /\ next' = Append(next, h.target)
      /\ discovered' = IF h.target \in Chunks THEN discovered \cup {h.target} ELSE discovered
  BY DEF VisitNeighbour, NextNeighbour
<1>2. PathsAreShortest(W) /\ LevelIsExplored(W)
  BY <1>1 DEF Complete
<1>3. /\ h \in HopsFrom(node) /\ h \in Hops
      /\ node \in DOMAIN path /\ path[node] \in Seq(Hops)
      /\ h.target \in Nodes /\ h.target \notin DOMAIN path
      /\ DOMAIN path' = DOMAIN path \cup {h.target}
      /\ path'[h.target] = Append(path[node], h)
      /\ \A n \in DOMAIN path : path'[n] = path[n]
  BY VisitExtendsThePaths
<1>4. levels \in Nat /\ levels - 1 \in Nat /\ (levels - 1) + 1 = levels /\ Len(path[node]) = levels - 1
  BY <1>2, PathsHaveLengths DEF LevelIsExplored
<1>5. Len(path'[h.target]) = levels
  <2>1. Len(path'[h.target]) = Len(path[node]) + 1
    BY <1>3, AppendProperties
  <2>. QED
    BY <1>4, <2>1
<1>6. h.target \in W[levels]
  <2>1. node \in W[levels - 1]
    BY <1>2, <1>3, <1>4 DEF PathsAreShortest
  <2>2. h.target \in W[(levels - 1) + 1]
    BY <1>3, <1>4, <2>1, ReachGrows
  <2>. QED
    BY <1>4, <2>2
<1>7. ASSUME NEW d \in Nat, d < levels
      PROVE  h.target \notin W[d]
  <2>1. d <= levels - 1
    BY <1>4, <1>7
  <2>2. W[d] \subseteq W[levels - 1]
    BY <1>4, <2>1, ReachGrows
  <2>. QED
    BY <1>2, <1>3, <2>2 DEF LevelIsExplored
<1>8. PathsAreShortest(W)'
  <2>1. ASSUME NEW n \in DOMAIN path'
        PROVE  n \in W[Len(path'[n])] /\ \A d \in Nat : d < Len(path'[n]) => n \notin W[d]
    <3>1. CASE n = h.target
      BY <1>5, <1>6, <1>7, <3>1
    <3>2. CASE n \in DOMAIN path
      BY <1>2, <1>3, <3>2 DEF PathsAreShortest
    <3>. QED
      BY <1>3, <3>1, <3>2
  <2>2. SeedSet' = SeedSet /\ SeedSet \subseteq DOMAIN path
    BY <1>1 DEF SeedSet, WorkIsOnPath
  <2>3. discovered' = (DOMAIN path' \cap Chunks) \ SeedSet'
    BY <1>1, <1>2, <1>3, <2>2 DEF PathsAreShortest
  <2>. QED
    BY <2>1, <2>3 DEF PathsAreShortest
<1>9. /\ \A n : HopsFrom(n)' = HopsFrom(n)
      /\ HopsFrom(node)' = HopsFrom(node)
  BY <1>1 DEF HopsFrom, inputs
<1>10. looked' + Cardinality(pending') <= Cardinality(HopsFrom(node)')
  BY <1>1, <1>2, <1>9, LookingCounts DEF LevelIsExplored
<1>11. /\ next \in Seq(Nodes) /\ Len(next') = Len(next) + 1 /\ Len(next) \in Nat
       /\ DOMAIN next = 1..Len(next) /\ DOMAIN next' = 1..(Len(next) + 1)
       /\ next'[Len(next) + 1] = h.target
       /\ \A k \in DOMAIN next : next'[k] = next[k]
  BY <1>1, <1>3 DEF Types, TypeOK
<1>12. \A n \in DOMAIN path' : Len(path'[n]) = levels => \E k \in DOMAIN next' : next'[k] = n
  <2>1. ASSUME NEW n \in DOMAIN path, Len(path[n]) = levels
        PROVE  \E k \in DOMAIN next' : next'[k] = n
    <3>1. PICK k \in DOMAIN next : next[k] = n
      BY <1>2, <2>1 DEF LevelIsExplored
    <3>. QED
      BY <1>11, <3>1
  <2>2. \E k \in DOMAIN next' : next'[k] = h.target
    BY <1>11
  <2>. QED
    BY <1>3, <2>1, <2>2
<1>13. \A k \in DOMAIN next' : Len(path'[next'[k]]) = levels
  <2>1. ASSUME NEW k \in DOMAIN next
        PROVE  Len(path'[next'[k]]) = levels
    BY <1>2, <1>3, <1>11 DEF LevelIsExplored, WorkIsOnPath
  <2>. QED
    BY <1>5, <1>11, <2>1
<1>14. \A k \in DOMAIN frontier : Len(path'[frontier[k]]) = levels - 1
  BY <1>2, <1>3 DEF LevelIsExplored, WorkIsOnPath
<1>15. ASSUME NEW n \in DOMAIN path', Len(path'[n]) = levels - 1
       PROVE  \/ \E k \in DOMAIN frontier : frontier[k] = n
              \/ \A g \in HopsFrom(n) : g.target \in DOMAIN path' \/ g \in pending'
  <2>1. n \in DOMAIN path /\ Len(path[n]) = levels - 1
    BY <1>3, <1>4, <1>5, <1>15
  <2>. QED
    BY <1>1, <1>2, <1>3, <2>1 DEF LevelIsExplored
<1>16. Len(path'[node']) = levels' - 1
  BY <1>1, <1>3, <1>4
<1>17. W[levels' - 1] \subseteq DOMAIN path' /\ levels' >= 1
  BY <1>1, <1>2, <1>3 DEF LevelIsExplored
<1>18. LevelIsExplored(W)'
  BY <1>1, <1>9, <1>10, <1>12, <1>13, <1>14, <1>15, <1>16, <1>17 DEF LevelIsExplored
<1>. QED
  BY <1>1, <1>8, <1>18 DEF Complete

\* Truncation leaves no neighbour out where the limit is above any node's degree.
LEMMA NothingIsTruncated ==
  ASSUME Types, WorkIsOnPath, Uncut, NEW W, Complete(W), at = "node", pending # {}
  PROVE  looked < budget.neighbors
<1>1. PICK h : h \in pending
  OBVIOUS
<1>2. looked + Cardinality(pending) <= Cardinality(HopsFrom(node))
  BY DEF Complete, LevelIsExplored
<1>3. IsFiniteSet(pending) /\ Cardinality(pending) \in Nat /\ Cardinality(pending) >= 1
  <2>1. IsFiniteSet(pending)
    BY HopsAreFinite, FS_Subset DEF Types, TypeOK
  <2>2. Cardinality(pending) \in Nat /\ Cardinality(pending) # 0
    BY <1>1, <2>1, FS_CardinalityType, FS_EmptySet
  <2>. QED
    BY <2>1, <2>2
<1>4. node \in Nodes /\ edges \subseteq Edges /\ looked \in Nat /\ budget.neighbors \in Nat
  BY DEF WorkIsOnPath, Types, TypeOK, Budget
<1>5. /\ Cardinality(HopsFrom(node)) <= 2 * Cardinality(edges)
      /\ Cardinality(HopsFrom(node)) \in Nat /\ Cardinality(edges) \in Nat
  BY <1>4, DegreeIsBounded
<1>6. 2 * Cardinality(edges) <= budget.neighbors
  BY DEF Uncut
<1>. QED
  BY <1>2, <1>3, <1>4, <1>5, <1>6

\* Every step of an uncut search keeps it complete.
LEMMA SearchStaysComplete ==
  ASSUME Types, WorkIsOnPath, SearchIsBounded, SearchIsComplete, [Next]_vars
  PROVE  SearchIsComplete'
<1>1. CASE Generate
  BY <1>1, SearchStartsComplete
<1>2. CASE Expand
  <2>1. SUFFICES ASSUME Uncut', NEW W, Reaches(W)'
                 PROVE  Complete(W)'
    BY DEF SearchIsComplete
  <2>2. UNCHANGED <<inputs, seeds>>
    BY <1>2 DEF Expand, StartLevel, StopExpansion, ExpandNode, EndLevel, DropTruncated,
                SkipVisited, CutNeighbours, VisitNeighbour
  <2>3. Reaches(W)
    <3>1. \A n : HopsFrom(n)' = HopsFrom(n)
      BY <2>2 DEF HopsFrom, inputs
    <3>2. SeedSet' = SeedSet /\ Nodes' = Nodes
      BY <2>2 DEF SeedSet, Nodes
    <3>. QED
      BY <2>1, <3>1, <3>2 DEF Reaches
  <2>4. exhausted' = None /\ exhausted' = exhausted
    <3>1. exhausted' = None
      BY <2>1 DEF Uncut
    <3>. QED
      BY <1>2, <3>1, LimitsAreSomething, NoneIsNoLimit
         DEF Expand, StartLevel, StopExpansion, ExpandNode, EndLevel, DropTruncated,
             SkipVisited, CutNeighbours, VisitNeighbour
  <2>5. Uncut
    BY <2>1, <2>2, <2>4 DEF Uncut, inputs
  <2>6. Complete(W)
    BY <2>3, <2>5 DEF SearchIsComplete
  <2>7. CASE DropTruncated
    <3>1. at = "node" /\ pending # {} /\ looked >= budget.neighbors
      BY <2>7 DEF DropTruncated, Truncated
    <3>2. looked < budget.neighbors /\ looked \in Nat /\ budget.neighbors \in Nat
      BY <2>5, <2>6, <3>1, NothingIsTruncated DEF Types, TypeOK, Budget
    <3>. QED
      BY <3>1, <3>2
  <2>8. ASSUME NEW h \in pending, CutNeighbours(h)
        PROVE  FALSE
    BY <2>4, <2>8, NoneIsNoLimit DEF CutNeighbours
  <2>. QED
    BY <1>2, <2>3, <2>4, <2>6, <2>7, <2>8, StopIsComplete, LevelIsVisited, LevelStartsComplete,
       NodeIsExplored, SkipIsComplete, VisitIsComplete DEF Expand
<1>3. CASE Hydrate \/ Evaluate \/ Rank \/ Assemble \/ Abort
  BY <1>3, LaterPhasesKeepTheSearch DEF SearchIsComplete, Complete
<1>4. CASE UNCHANGED vars
  <2>1. UNCHANGED <<edges, indexed, budget, at, seeds, path, discovered, frontier, next, node, pending,
                    looked, levels, exhausted>>
    BY <1>4 DEF vars, search, inputs
  <2>2. \A n : HopsFrom(n)' = HopsFrom(n)
    BY <2>1 DEF HopsFrom
  <2>3. SeedSet' = SeedSet /\ Nodes' = Nodes /\ HopsFrom(node)' = HopsFrom(node) /\ (Uncut' => Uncut)
    BY <2>1 DEF SeedSet, Nodes, HopsFrom, Uncut
  <2>4. \A W : Reaches(W)' => Reaches(W)
    BY <2>2, <2>3 DEF Reaches
  <2>5. \A W : Complete(W) => Complete(W)'
    BY <2>1, <2>2, <2>3 DEF Complete, PathsAreShortest, LevelsAreVisited, LevelIsExplored
  <2>. QED
    BY <2>3, <2>4, <2>5 DEF SearchIsComplete
<1>. QED
  BY <1>1, <1>2, <1>3, <1>4 DEF Next, ExpandGraph

\* A search that reports no limit has found every chunk within its depth, and
\* each by a shortest path: for every graph and every order of the answers.
THEOREM UncutSearchesAreComplete == Spec => []UncutSearchIsComplete
<1>. DEFINE I == Types /\ WorkIsOnPath /\ SearchIsBounded /\ SearchIsComplete
<1>1. Init => I
  <2>1. Init => at = "generate"
    BY DEF Init
  <2>. QED
    BY <2>1, InitIsTyped, InitIsBounded DEF SearchIsComplete, Complete
<1>2. I /\ [Next]_vars => I'
  BY StepsAreTyped, SearchStaysBounded, SearchStaysComplete
<1>3. I => UncutSearchIsComplete
  <2>. SUFFICES ASSUME I, at = "hydrate", Uncut
                PROVE  /\ discovered = (Within[budget.depth] \cap Chunks) \ SeedSet
                       /\ \A c \in discovered : c \notin Within[Depth(c) - 1]
    BY DEF UncutSearchIsComplete, Uncut
  <2>1. PICK W : W = Within
    OBVIOUS
  <2>2. Reaches(W) /\ Complete(W)
    BY <2>1, WithinReaches DEF SearchIsComplete
  <2>3. PathsAreShortest(W) /\ W[budget.depth] \subseteq DOMAIN path
    BY <2>2 DEF Complete
  <2>4. /\ \A n \in DOMAIN path : Len(path[n]) \in Nat /\ Len(path[n]) <= budget.depth
        /\ budget.depth \in Nat
    BY PathsHaveLengths DEF SearchIsBounded
  <2>5. \A n \in DOMAIN path : n \in W[budget.depth]
    BY <2>2, <2>3, <2>4, ReachGrows DEF PathsAreShortest
  <2>6. discovered = (W[budget.depth] \cap Chunks) \ SeedSet
    BY <2>3, <2>5 DEF PathsAreShortest
  <2>7. ASSUME NEW c \in discovered
        PROVE  c \notin W[Depth(c) - 1]
    <3>1. c \in DOMAIN path /\ c \notin SeedSet /\ Depth(c) = Len(path[c])
      BY DEF WorkIsOnPath, Depth
    <3>2. c \in W[Len(path[c])] /\ W[0] = SeedSet
      BY <2>2, <2>3, <3>1 DEF PathsAreShortest, Reaches
    <3>3. Len(path[c]) # 0
      BY <3>1, <3>2
    <3>4. Len(path[c]) - 1 \in Nat /\ Len(path[c]) - 1 < Len(path[c])
      BY <2>4, <3>1, <3>3
    <3>. QED
      BY <2>3, <3>1, <3>4 DEF PathsAreShortest
  <2>. QED
    BY <2>1, <2>6, <2>7
<1>. QED
  BY <1>1, <1>2, <1>3, PTL DEF Spec

-----------------------------------------------------------------------------
(* Candidates.                                                             *)

\* The chunks of all groups.
Kept == UNION {Members(k) : k \in DOMAIN groups}

\* A limit keeps c from leading a group.
NoRoomFor(c) == Len(groups) = budget.groups \/ PrimariesIn(Bucket(c)) = budget.primaries

\* Groups are disjoint sets of candidates within the limits, and a candidate
\* that was passed is in one of them or had no room.
AssemblyIsSound ==
  /\ budget \in Budget /\ ranked \in Seq(candidates) /\ position \in Nat \ {0}
  /\ groups \in Seq([primary: candidates, supporting: SUBSET candidates])
  /\ Len(groups) <= budget.groups
  /\ \A b : PrimariesIn(b) \in Nat /\ PrimariesIn(b) <= budget.primaries
  /\ \A j \in DOMAIN groups, k \in DOMAIN groups : j # k => Members(j) \cap Members(k) = {}
  /\ claimed = Kept /\ dropped \subseteq candidates
  /\ \A j \in DOMAIN ranked : j < position => ranked[j] \in claimed \/ NoRoomFor(ranked[j])

\* Before it is assembled there is no group, before it is ranked no rank.
PhasesAreInOrder ==
  /\ at \in {"generate", "level", "node", "hydrate", "evaluate"} => ranked = <<>>
  /\ at \in {"generate", "level", "node", "hydrate", "evaluate", "rank"} =>
       groups = <<>> /\ claimed = {} /\ dropped = {} /\ position = 1
  /\ at \in {"assemble", "done"} => RankedSet = candidates
  /\ at = "done" => position > Len(ranked) /\ candidates \ claimed \subseteq dropped

\* Before the groups are made there are none.
NoGroups ==
  /\ budget \in Budget /\ ranked \in Seq(candidates)
  /\ groups = <<>> /\ claimed = {} /\ dropped = {} /\ position = 1

\* Without groups no limit is reached.
LEMMA NoGroupsAreSound == NoGroups => AssemblyIsSound
<1>. SUFFICES ASSUME NoGroups
              PROVE  AssemblyIsSound
  OBVIOUS
<1>. USE DEF NoGroups
<1>1. DOMAIN groups = {} /\ Len(groups) = 0 /\ budget.groups \in Nat /\ budget.primaries \in Nat
  BY DEF Budget
<1>2. \A b : PrimariesIn(b) = 0
  BY <1>1, FS_EmptySet DEF PrimariesIn
<1>3. groups \in Seq([primary: candidates, supporting: SUBSET candidates])
  OBVIOUS
<1>4. Kept = {}
  BY <1>1 DEF Kept
<1>5. \A j \in DOMAIN ranked : j >= 1
  OBVIOUS
<1>. QED
  BY <1>1, <1>2, <1>3, <1>4, <1>5 DEF AssemblyIsSound

\* A group that is added counts for the bucket of its primary.
LEMMA AppendCountsThePrimary ==
  ASSUME NEW S, groups \in Seq(S), NEW g \in S, groups' = Append(groups, g),
         representation' = representation, NEW b
  PROVE  PrimariesIn(b)' = IF Bucket(g.primary) = b THEN PrimariesIn(b) + 1 ELSE PrimariesIn(b)
<1>. DEFINE n == Len(groups)
            old == {k \in DOMAIN groups : Bucket(groups[k].primary) = b}
            new == {k \in DOMAIN groups' : Bucket(groups'[k].primary) = b}
<1>1. /\ n \in Nat /\ DOMAIN groups = 1..n /\ DOMAIN groups' = 1..(n + 1)
      /\ \A k \in 1..n : groups'[k] = groups[k]
      /\ groups'[n + 1] = g
  BY AppendProperties
<1>2. IsFiniteSet(old)
  <2>1. IsFiniteSet(1..n)
    BY <1>1, FS_Interval
  <2>. QED
    BY <1>1, <2>1, FS_Subset
<1>3. n + 1 \notin old
  BY <1>1
<1>4. new = IF Bucket(g.primary) = b THEN old \cup {n + 1} ELSE old
  BY <1>1
<1>5. PrimariesIn(b) = Cardinality(old)
  BY DEF PrimariesIn
<1>6. PrimariesIn(b)' = Cardinality(new)
  BY DEF PrimariesIn, Bucket
<1>. HIDE DEF n, old, new
<1>. QED
  BY <1>2, <1>3, <1>4, <1>5, <1>6, FS_AddElement

\* A candidate that leads a group.
LEMMA LeadingIsSound ==
  ASSUME AssemblyIsSound, NEW c \in candidates, c \notin claimed,
         Len(groups) < budget.groups, PrimariesIn(Bucket(c)) < budget.primaries,
         groups' = Append(groups, [primary |-> c, supporting |-> DirectNeighbours(c)]),
         claimed' = claimed \cup {c} \cup DirectNeighbours(c),
         position \in DOMAIN ranked, c = ranked[position], position' = position + 1,
         UNCHANGED <<representation, budget, ranked, candidates, dropped>>
  PROVE  AssemblyIsSound'
<1>. DEFINE S == [primary: candidates, supporting: SUBSET candidates]
            g == [primary |-> c, supporting |-> DirectNeighbours(c)]
            new == {c} \cup DirectNeighbours(c)
<1>0. PICK n : n = Len(groups)
  OBVIOUS
<1>1. new \subseteq candidates \ claimed
  BY DEF DirectNeighbours
<1>2. groups \in Seq(S) /\ g \in S
  BY <1>1 DEF AssemblyIsSound
<1>3. /\ groups' \in Seq(S) /\ Len(groups') = n + 1
      /\ n \in Nat /\ DOMAIN groups = 1..n /\ DOMAIN groups' = 1..(n + 1)
      /\ \A k \in 1..n : groups'[k] = groups[k]
      /\ groups'[n + 1] = g
  <2>. HIDE DEF S, g
  <2>1. groups' = Append(groups, g)
    BY DEF g
  <2>. QED
    BY <1>0, <1>2, <2>1, AppendProperties
<1>4. /\ \A k \in 1..n : Members(k)' = Members(k) /\ Members(k) \subseteq claimed
      /\ Members(n + 1)' = new
  <2>1. \A k \in 1..n : Members(k)' = Members(k)
    BY <1>3 DEF Members
  <2>2. \A k \in 1..n : Members(k) \subseteq claimed
    BY <1>3 DEF AssemblyIsSound, Kept
  <2>3. Members(n + 1)' = new
    BY <1>3 DEF Members
  <2>. QED
    BY <2>1, <2>2, <2>3
<1>5. \A b : PrimariesIn(b)' = IF Bucket(c) = b THEN PrimariesIn(b) + 1 ELSE PrimariesIn(b)
  <2>1. groups' = Append(groups, g) /\ g.primary = c /\ representation' = representation
    OBVIOUS
  <2>. HIDE DEF S, g
  <2>. QED
    BY <1>2, <2>1, AppendCountsThePrimary
<1>. HIDE DEF S, g, new
<1>6. budget.groups \in Nat /\ budget.primaries \in Nat /\ budget' = budget
  BY DEF AssemblyIsSound, Budget
<1>7. Len(groups') <= budget'.groups
  BY <1>0, <1>3, <1>6
<1>8. ASSUME NEW b
      PROVE  PrimariesIn(b)' \in Nat /\ PrimariesIn(b)' <= budget'.primaries
  <2>1. PrimariesIn(b) \in Nat /\ PrimariesIn(b) <= budget.primaries
    BY DEF AssemblyIsSound
  <2>2. CASE Bucket(c) = b
    BY <1>5, <1>6, <2>1, <2>2
  <2>3. CASE Bucket(c) # b
    BY <1>5, <1>6, <2>1, <2>3
  <2>. QED
    BY <2>2, <2>3
<1>9. (\A j \in DOMAIN groups, k \in DOMAIN groups : j # k => Members(j) \cap Members(k) = {})'
  <2>1. \A j \in 1..n, k \in 1..n : j # k => Members(j) \cap Members(k) = {}
    BY <1>3 DEF AssemblyIsSound
  <2>2. ASSUME NEW j \in 1..(n + 1), NEW k \in 1..(n + 1), j # k
        PROVE  Members(j)' \cap Members(k)' = {}
    <3>1. CASE j \in 1..n /\ k \in 1..n
      BY <1>4, <2>1, <2>2, <3>1
    <3>2. CASE j = n + 1 /\ k \in 1..n
      BY <1>1, <1>4, <3>2
    <3>3. CASE j \in 1..n /\ k = n + 1
      BY <1>1, <1>4, <3>3
    <3>. QED
      BY <1>3, <2>2, <3>1, <3>2, <3>3
  <2>. QED
    BY <1>3, <2>2
<1>10. claimed' = Kept'
  <2>1. claimed = UNION {Members(k) : k \in 1..n}
    BY <1>3 DEF AssemblyIsSound, Kept
  <2>2. Kept' = UNION {Members(k)' : k \in 1..(n + 1)}
    BY <1>3 DEF Kept
  <2>3. \A x : x \in claimed <=> \E k \in 1..n : x \in Members(k)
    BY <2>1
  <2>4. \A x : x \in Kept' <=> \E k \in 1..(n + 1) : x \in Members(k)'
    BY <2>2
  <2>5. 1..(n + 1) = 1..n \cup {n + 1}
    BY <1>3
  <2>6. \A x : x \in Kept' <=> x \in claimed \/ x \in new
    BY <1>4, <2>3, <2>4, <2>5
  <2>. QED
    BY <2>6 DEF new
<1>11. \A j \in DOMAIN ranked : j < position + 1 => ranked[j] \in claimed' \/ NoRoomFor(ranked[j])'
  <2>1. ASSUME NEW j \in DOMAIN ranked, j < position + 1, ranked[j] \notin claimed'
        PROVE  NoRoomFor(ranked[j])'
    <3>1. ranked[j] \notin claimed /\ j # position
      BY <2>1
    <3>2. j < position
      BY <2>1, <3>1 DEF AssemblyIsSound
    <3>3. PrimariesIn(Bucket(ranked[j])) = budget.primaries
      BY <1>6, <3>1, <3>2 DEF AssemblyIsSound, NoRoomFor
    <3>4. PICK b : b = Bucket(ranked[j])
      OBVIOUS
    <3>5. b # Bucket(c)
      BY <1>6, <3>3, <3>4
    <3>6. PrimariesIn(b)' = budget.primaries
      BY <1>5, <3>3, <3>4, <3>5
    <3>7. Bucket(ranked[j])' = b
      BY <3>4 DEF Bucket
    <3>. QED
      BY <1>6, <3>6, <3>7 DEF NoRoomFor, PrimariesIn
  <2>. QED
    BY <2>1
<1>. QED
  BY <1>3, <1>6, <1>7, <1>8, <1>9, <1>10, <1>11 DEF AssemblyIsSound, S

\* Every step keeps the groups sound.
LEMMA AssemblyStaysSound ==
  ASSUME Types, AssemblyIsSound, PhasesAreInOrder, [Next]_vars
  PROVE  AssemblyIsSound' /\ PhasesAreInOrder'
<1>1. ASSUME UNCHANGED <<representation, budget, candidates, ranked, groups, claimed, dropped, position>>
      PROVE  AssemblyIsSound'
  <2>1. /\ \A b : PrimariesIn(b)' = PrimariesIn(b)
        /\ \A k : Members(k)' = Members(k)
        /\ Kept' = Kept
        /\ \A c : NoRoomFor(c)' = NoRoomFor(c)
    BY <1>1 DEF PrimariesIn, Bucket, Members, Kept, NoRoomFor
  <2>. QED
    BY <1>1, <2>1 DEF AssemblyIsSound
<1>2. CASE Generate \/ ExpandGraph
  <2>1. /\ UNCHANGED <<representation, budget, candidates, outcome>>
        /\ at \in {"generate", "level", "node"} /\ at' \in {"level", "node", "hydrate"}
    BY <1>2 DEF Generate, ExpandGraph, Expand, StartLevel, StopExpansion, ExpandNode, EndLevel,
                DropTruncated, SkipVisited, CutNeighbours, VisitNeighbour, NextNeighbour, inputs
  <2>. QED
    BY <1>1, <2>1 DEF outcome, PhasesAreInOrder
<1>3. CASE Hydrate
  <2>1. /\ ranked' = <<>> /\ groups' = <<>> /\ claimed' = {} /\ dropped' = {} /\ position' = 1
        /\ budget' \in Budget /\ at' = "evaluate"
    BY <1>3 DEF Hydrate, outcome, inputs, PhasesAreInOrder, AssemblyIsSound
  <2>2. ranked' \in Seq(candidates')
    BY <2>1
  <2>3. (NoGroups => AssemblyIsSound)'
    BY NoGroupsAreSound, PTL
  <2>. QED
    BY <2>1, <2>2, <2>3 DEF PhasesAreInOrder, NoGroups
<1>4. CASE Evaluate
  <2>1. /\ UNCHANGED <<representation, budget, candidates, ranked, groups, claimed, dropped, position>>
        /\ at = "evaluate" /\ at' = "rank"
    BY <1>4 DEF Evaluate, inputs
  <2>. QED
    BY <1>1, <2>1 DEF PhasesAreInOrder
<1>5. CASE Rank
  <2>1. CASE RankedSet = candidates
    <3>1. /\ UNCHANGED <<representation, budget, candidates, ranked, groups, claimed, dropped, position>>
          /\ at = "rank" /\ at' = "assemble"
      BY <1>5, <2>1 DEF Rank, inputs
    <3>2. RankedSet' = candidates'
      BY <2>1, <3>1 DEF RankedSet
    <3>. QED
      BY <1>1, <3>1, <3>2 DEF PhasesAreInOrder
  <2>2. CASE RankedSet # candidates
    <3>1. PICK c \in candidates : ranked' = Append(ranked, c)
      BY <1>5, <2>2 DEF Rank
    <3>2. /\ UNCHANGED <<at, budget, candidates, groups, claimed, dropped, position>>
          /\ at = "rank" /\ budget' \in Budget
      BY <1>5, <2>2 DEF Rank, inputs, AssemblyIsSound
    <3>3. ranked' \in Seq(candidates')
      BY <3>1, <3>2, AppendProperties DEF AssemblyIsSound
    <3>4. groups' = <<>> /\ claimed' = {} /\ dropped' = {} /\ position' = 1
      BY <3>2 DEF PhasesAreInOrder
    <3>5. (NoGroups => AssemblyIsSound)'
      BY NoGroupsAreSound, PTL
    <3>. QED
      BY <3>2, <3>3, <3>4, <3>5 DEF PhasesAreInOrder, NoGroups
  <2>. QED
    BY <2>1, <2>2
<1>6. CASE Assemble
  <2>1. /\ UNCHANGED <<representation, budget, candidates, ranked>>
        /\ at = "assemble" /\ RankedSet = candidates /\ RankedSet' = candidates'
    BY <1>6 DEF Assemble, inputs, PhasesAreInOrder, RankedSet
  <2>2. CASE position <= Len(ranked)
    <3>0. PICK c : c = ranked[position]
      OBVIOUS
    <3>1. Place(c) /\ position' = position + 1 /\ at' = at
      BY <1>6, <2>2, <3>0 DEF Assemble
    <3>2. position \in DOMAIN ranked /\ c \in candidates /\ position \in Nat \ {0}
      BY <2>2, <3>0 DEF AssemblyIsSound
    <3>3. PhasesAreInOrder'
      BY <2>1, <3>1 DEF PhasesAreInOrder
    <3>4. CASE UNCHANGED <<groups, claimed>> /\ dropped' \in {dropped, dropped \cup {c}}
                 /\ (c \in claimed \/ NoRoomFor(c))
      <4>1. /\ \A b : PrimariesIn(b)' = PrimariesIn(b)
            /\ \A k : Members(k)' = Members(k)
            /\ Kept' = Kept
            /\ \A x : NoRoomFor(x)' = NoRoomFor(x)
        BY <2>1, <3>4 DEF PrimariesIn, Bucket, Members, Kept, NoRoomFor
      <4>2. \A j \in DOMAIN ranked : j < position + 1 => j < position \/ ranked[j] = c
        BY <3>0, <3>2 DEF AssemblyIsSound
      <4>3. \A j \in DOMAIN ranked : j < position + 1 => ranked[j] \in claimed \/ NoRoomFor(ranked[j])
        BY <3>4, <4>2 DEF AssemblyIsSound
      <4>4. dropped' \subseteq candidates
        BY <3>2, <3>4 DEF AssemblyIsSound
      <4>. QED
        BY <2>1, <3>1, <3>2, <3>3, <3>4, <4>1, <4>3, <4>4 DEF AssemblyIsSound
    <3>5. CASE /\ c \notin claimed /\ Len(groups) < budget.groups
               /\ PrimariesIn(Bucket(c)) < budget.primaries
      <4>1. budget.groups \in Nat /\ budget.primaries \in Nat /\ Len(groups) \in Nat
            /\ PrimariesIn(Bucket(c)) \in Nat
        BY DEF AssemblyIsSound, Budget
      <4>2. /\ groups' = Append(groups, [primary |-> c, supporting |-> DirectNeighbours(c)])
            /\ claimed' = claimed \cup {c} \cup DirectNeighbours(c)
            /\ dropped' = dropped
        BY <3>1, <3>5, <4>1 DEF Place
      <4>. QED
        BY <2>1, <3>0, <3>1, <3>2, <3>3, <3>5, <4>2, LeadingIsSound
    <3>6. /\ budget.groups \in Nat /\ budget.primaries \in Nat /\ Len(groups) \in Nat
          /\ PrimariesIn(Bucket(c)) \in Nat
          /\ Len(groups) <= budget.groups /\ PrimariesIn(Bucket(c)) <= budget.primaries
      BY DEF AssemblyIsSound, Budget
    <3>7. CASE c \in claimed
      BY <3>1, <3>4, <3>7 DEF Place
    <3>8. CASE c \notin claimed /\ (Len(groups) >= budget.groups \/ PrimariesIn(Bucket(c)) >= budget.primaries)
      <4>1. dropped' = dropped \cup {c} /\ UNCHANGED <<groups, claimed>>
        BY <3>1, <3>8 DEF Place
      <4>2. NoRoomFor(c)
        BY <3>6, <3>8 DEF NoRoomFor
      <4>. QED
        BY <3>4, <4>1, <4>2
    <3>. QED
      BY <3>5, <3>6, <3>7, <3>8
  <2>3. CASE ~(position <= Len(ranked))
    <3>1. /\ dropped' = dropped \cup (candidates \ claimed)
          /\ at' = "done" /\ UNCHANGED <<groups, claimed, position>>
      BY <1>6, <2>3 DEF Assemble
    <3>2. /\ \A b : PrimariesIn(b)' = PrimariesIn(b)
          /\ \A k : Members(k)' = Members(k)
          /\ Kept' = Kept
          /\ \A x : NoRoomFor(x)' = NoRoomFor(x)
      BY <2>1, <3>1 DEF PrimariesIn, Bucket, Members, Kept, NoRoomFor
    <3>3. AssemblyIsSound'
      BY <2>1, <3>1, <3>2 DEF AssemblyIsSound
    <3>4. position > Len(ranked)
      BY <2>3 DEF AssemblyIsSound
    <3>. QED
      BY <2>1, <3>1, <3>3, <3>4 DEF PhasesAreInOrder
  <2>. QED
    BY <2>2, <2>3
<1>7. CASE Abort
  <2>1. UNCHANGED <<representation, budget, candidates, outcome>> /\ at' = "failed"
    BY <1>7 DEF Abort, inputs
  <2>. QED
    BY <1>1, <2>1 DEF outcome, PhasesAreInOrder
<1>8. CASE UNCHANGED vars
  <2>1. UNCHANGED <<representation, budget, candidates, outcome, at>>
    BY <1>8 DEF vars, inputs
  <2>. QED
    BY <1>1, <2>1 DEF outcome, PhasesAreInOrder, RankedSet
<1>. QED
  BY <1>2, <1>3, <1>4, <1>5, <1>6, <1>7, <1>8 DEF Next

\* At first there is nothing to assemble.
LEMMA InitIsSound ==
  ASSUME Init
  PROVE  AssemblyIsSound /\ PhasesAreInOrder
<1>1. /\ ranked = <<>> /\ groups = <<>> /\ claimed = {} /\ dropped = {} /\ position = 1
      /\ at = "generate"
  BY DEF Init
<1>2. budget \in Budget
  BY InitIsTyped DEF Types, TypeOK
<1>3. ranked \in Seq(candidates)
  BY <1>1
<1>4. AssemblyIsSound
  BY <1>1, <1>2, <1>3, NoGroupsAreSound DEF NoGroups
<1>. QED
  BY <1>1, <1>4 DEF PhasesAreInOrder

\* Every candidate is in one evidence group or reported as dropped, and dropped
\* only because of a limit that is reached.
THEOREM EveryCandidateIsAccountedFor == Spec => []CandidatesAreAccountedFor
<1>. DEFINE I == Types /\ WorkIsOnPath /\ AssemblyIsSound /\ PhasesAreInOrder
<1>1. Init => I
  BY InitIsTyped, InitIsSound
<1>2. I /\ [Next]_vars => I'
  BY StepsAreTyped, AssemblyStaysSound
<1>3. I => CandidatesAreAccountedFor
  <2>. SUFFICES ASSUME I
                PROVE  CandidatesAreAccountedFor
    OBVIOUS
  <2>1. ASSUME NEW k \in DOMAIN groups
        PROVE  Members(k) \subseteq candidates
    <3>. DEFINE S == [primary: candidates, supporting: SUBSET candidates]
    <3>1. groups \in Seq(S)
      BY DEF AssemblyIsSound
    <3>2. groups[k] \in S
      <4>. HIDE DEF S
      <4>. QED
        BY <3>1
    <3>. QED
      BY <3>2 DEF Members
  <2>2. Kept \subseteq candidates
    BY <2>1 DEF Kept
  <2>3. ASSUME at = "done"
        PROVE  /\ candidates = dropped \cup Kept
               /\ \A c \in candidates \ Kept : NoRoomFor(c)
    <3>1. /\ position > Len(ranked) /\ candidates \ Kept \subseteq dropped /\ RankedSet = candidates
          /\ dropped \subseteq candidates
      BY <2>3 DEF PhasesAreInOrder, AssemblyIsSound
    <3>2. ASSUME NEW c \in candidates \ Kept
          PROVE  NoRoomFor(c)
      <4>1. PICK j \in DOMAIN ranked : c = ranked[j]
        BY <3>1 DEF RankedSet
      <4>2. j < position
        BY <3>1 DEF AssemblyIsSound
      <4>. QED
        BY <4>1, <4>2 DEF AssemblyIsSound
    <3>. QED
      BY <2>2, <3>1, <3>2
  <2>. QED
    BY <2>1, <2>3 DEF CandidatesAreAccountedFor, AssemblyIsSound, Kept, NoRoomFor
<1>. QED
  BY <1>1, <1>2, <1>3, PTL DEF Spec

\* No limit is exceeded, whichever is reached first.
THEOREM LimitsHold == Spec => []WithinLimits
<1>. DEFINE I == /\ Types /\ WorkIsOnPath /\ SearchIsBounded /\ AssemblyIsSound /\ PhasesAreInOrder
<1>1. Init => I
  BY InitIsTyped, InitIsBounded, InitIsSound
<1>2. I /\ [Next]_vars => I'
  BY StepsAreTyped, SearchStaysBounded, AssemblyStaysSound
<1>3. I => WithinLimits
  <2>. SUFFICES ASSUME I
                PROVE  WithinLimits
    OBVIOUS
  <2>1. \A c \in discovered : Depth(c) <= budget.depth
    <3>1. \A c \in discovered : Len(path[c]) \in Nat /\ Len(path[c]) <= levels /\ levels <= budget.depth
                                /\ levels \in Nat /\ budget.depth \in Nat
      BY PathsHaveLengths DEF WorkIsOnPath, SearchIsBounded
    <3>. QED
      BY <3>1 DEF Depth
  <2>. QED
    BY <2>1 DEF WithinLimits, SearchIsBounded, AssemblyIsSound
<1>. QED
  BY <1>1, <1>2, <1>3, PTL DEF Spec

-----------------------------------------------------------------------------
(* Candidates: their order.                                               *)

\* A product is monotone in its factors.
LEMMA ProductsGrow ==
  ASSUME NEW a \in Nat, NEW b \in Nat, NEW c \in Nat, a <= b
  PROVE  a * c <= b * c /\ c * a <= c * b
<1>1. PICK d \in Nat : b = a + d
  <2>1. b - a \in Nat /\ b = a + (b - a)
    OBVIOUS
  <2>. QED
    BY <2>1
<1>2. b * c = a * c + d * c /\ d * c \in Nat /\ a * c \in Nat
  BY <1>1
<1>. QED
  BY <1>2

\* A better rank has a distinctly greater reciprocal, in a pool of chunks.
LEMMA ReciprocalsDiffer ==
  ASSUME NEW r \in Nat \ {0}, NEW s \in Nat, r < s, s <= Cardinality(Chunks) + 1,
         Cardinality(Chunks) \in Nat
  PROVE  /\ Reciprocal(r) \in Nat /\ Reciprocal(s) \in Nat
         /\ Reciprocal(r) >= Reciprocal(s) + 4
<1>. DEFINE a == RrfK + r
            b == RrfK + s
            L == RrfK + Cardinality(Chunks) + 1
            p == RrfScale \div a
            q == RrfScale \div b
<1>1. a \in Nat \ {0} /\ b \in Nat \ {0} /\ L \in Nat \ {0} /\ a + 1 <= b /\ b <= L
  BY DEF RrfK
<1>2. RrfScale \in Nat /\ RrfScale >= 5 * L * L
  BY ScaleIsFine
<1>. HIDE DEF a, b, L
<1>3. p \in Nat /\ q \in Nat /\ RrfScale < (p + 1) * a /\ q * b <= RrfScale /\ RrfScale < (q + 1) * b
  BY <1>1, <1>2
<1>. HIDE DEF p, q
<1>4. q + 1 > 5 * L
  <2>. SUFFICES ASSUME q + 1 <= 5 * L
                PROVE  FALSE
    BY <1>1, <1>3
  <2>1. (q + 1) * b <= (q + 1) * L
    BY <1>1, <1>3, ProductsGrow
  <2>2. (q + 1) * L <= (5 * L) * L
    BY <1>1, <1>3, ProductsGrow
  <2>3. (q + 1) * b \in Nat /\ (q + 1) * L \in Nat /\ (5 * L) * L \in Nat
    BY <1>1, <1>3
  <2>4. RrfScale >= (5 * L) * L
    BY <1>2
  <2>. QED
    BY <1>2, <1>3, <2>1, <2>2, <2>3, <2>4
<1>5. p >= q + 4
  <2>. SUFFICES ASSUME p + 1 <= q + 4
                PROVE  FALSE
    BY <1>3
  <2>1. (p + 1) * a <= (q + 4) * a
    BY <1>1, <1>3, ProductsGrow
  <2>2. (q + 4) * a = q * a + 4 * a /\ q * a \in Nat /\ (p + 1) * a \in Nat /\ 4 * a \in Nat
    BY <1>1, <1>3
  <2>3. q * (a + 1) <= q * b
    BY <1>1, <1>3, ProductsGrow
  <2>4. q * (a + 1) = q * a + q /\ q * b \in Nat
    BY <1>1, <1>3
  <2>5. q < 4 * a
    BY <1>2, <1>3, <2>1, <2>2, <2>3, <2>4
  <2>. QED
    BY <1>1, <1>3, <1>4, <2>5
<1>. QED
  BY <1>3, <1>5 DEF Reciprocal, a, b, p, q

\* What the signals of a pool are: numbers, or nothing.
SignalsOf(pool) == [1..4 -> [pool -> Int \cup {None}]]

\* A rank is one of the pool, and who is better in a signal ranks before.
LEMMA RanksFollowTheSignal ==
  ASSUME NEW pool, IsFiniteSet(pool), NEW signal \in [pool -> Int \cup {None}],
         NEW c \in pool, NEW d \in pool
  PROVE  /\ RankDescending(pool, signal, c) \in Nat \ {0}
         /\ RankDescending(pool, signal, c) <= Cardinality(pool) + 1
         /\ ~Better(signal[d], signal[c]) =>
              RankDescending(pool, signal, c) <= RankDescending(pool, signal, d)
         /\ Better(signal[c], signal[d]) =>
              RankDescending(pool, signal, c) < RankDescending(pool, signal, d)
<1>. DEFINE valued == {e \in pool : signal[e] # None}
            Ahead(e) == IF signal[e] = None THEN valued ELSE {f \in valued : signal[f] > signal[e]}
<1>1. \A e \in pool : RankDescending(pool, signal, e) = 1 + Cardinality(Ahead(e))
  BY DEF RankDescending
<1>2. /\ IsFiniteSet(Ahead(c)) /\ IsFiniteSet(Ahead(d))
      /\ Cardinality(Ahead(c)) \in Nat /\ Cardinality(Ahead(d)) \in Nat
      /\ Cardinality(Ahead(c)) <= Cardinality(pool) /\ Cardinality(pool) \in Nat
  <2>1. \A e : Ahead(e) \subseteq pool
    OBVIOUS
  <2>. HIDE DEF Ahead
  <2>. QED
    BY <2>1, FS_Subset, FS_CardinalityType
<1>3. ~Better(signal[d], signal[c]) => Ahead(c) \subseteq Ahead(d)
  BY DEF Better
<1>4. Better(signal[c], signal[d]) => Ahead(c) \subseteq Ahead(d) /\ c \in Ahead(d) /\ c \notin Ahead(c)
  BY DEF Better
<1>. HIDE DEF Ahead
<1>5. ASSUME Ahead(c) \subseteq Ahead(d)
      PROVE  Cardinality(Ahead(c)) <= Cardinality(Ahead(d))
  BY <1>2, <1>5, FS_Subset
<1>6. ASSUME Ahead(c) \subseteq Ahead(d), c \in Ahead(d), c \notin Ahead(c)
      PROVE  Cardinality(Ahead(c)) < Cardinality(Ahead(d))
  BY <1>2, <1>6, FS_Subset
<1>. QED
  BY <1>1, <1>2, <1>3, <1>4, <1>5, <1>6

\* Who dominates another scores distinctly more.
LEMMA DominationShows ==
  ASSUME NEW pool, pool \subseteq Chunks, NEW s \in SignalsOf(pool),
         NEW c \in pool, NEW d \in pool, Dominates(s, c, d)
  PROVE  FusedScore(pool, s, c) >= FusedScore(pool, s, d) + Indistinguishable
<1>. DEFINE rank(e, k) == RankDescending(pool, s[k], e)
            part(e, k) == Reciprocal(rank(e, k))
<1>1. /\ IsFiniteSet(pool) /\ Cardinality(pool) \in Nat /\ Cardinality(Chunks) \in Nat
      /\ Cardinality(pool) <= Cardinality(Chunks)
  BY CasesAreDocuments, FS_Subset, FS_CardinalityType
<1>2. DOMAIN s = 1..4 /\ \A k \in 1..4 : s[k] \in [pool -> Int \cup {None}]
  BY DEF SignalsOf
<1>3. ASSUME NEW k \in 1..4
      PROVE  /\ part(c, k) \in Nat /\ part(d, k) \in Nat /\ part(c, k) >= part(d, k)
             /\ Better(s[k][c], s[k][d]) => part(c, k) >= part(d, k) + 4
  <2>1. ~Better(s[k][d], s[k][c])
    BY <1>2 DEF Dominates
  <2>2. /\ rank(c, k) \in Nat \ {0} /\ rank(d, k) \in Nat \ {0}
        /\ rank(c, k) <= rank(d, k) /\ rank(d, k) <= Cardinality(Chunks) + 1
        /\ Better(s[k][c], s[k][d]) => rank(c, k) < rank(d, k)
    <3>1. s[k] \in [pool -> Int \cup {None}]
      BY <1>2
    <3>2. /\ rank(c, k) \in Nat \ {0} /\ rank(d, k) \in Nat \ {0}
          /\ rank(c, k) <= rank(d, k) /\ rank(d, k) <= Cardinality(pool) + 1
          /\ Better(s[k][c], s[k][d]) => rank(c, k) < rank(d, k)
      BY <1>1, <2>1, <3>1, RanksFollowTheSignal
    <3>. QED
      BY <1>1, <3>2
  <2>. HIDE DEF rank
  <2>3. CASE rank(c, k) = rank(d, k)
    <3>1. part(c, k) \in Nat
      BY <2>2, ScaleIsFine DEF Reciprocal, RrfK
    <3>. QED
      BY <2>2, <2>3, <3>1
  <2>4. CASE rank(c, k) < rank(d, k)
    BY <1>1, <2>2, <2>4, ReciprocalsDiffer
  <2>. QED
    BY <2>2, <2>3, <2>4
<1>4. \E k \in 1..4 : Better(s[k][c], s[k][d])
  BY <1>2 DEF Dominates
<1>5. /\ FusedScore(pool, s, c) = part(c, 1) + part(c, 2) + part(c, 3) + part(c, 4)
      /\ FusedScore(pool, s, d) = part(d, 1) + part(d, 2) + part(d, 3) + part(d, 4)
  BY DEF FusedScore
<1>. HIDE DEF part
<1>6. PICK k \in 1..4 : part(c, k) >= part(d, k) + 4
  BY <1>3, <1>4
<1>7. k \in {1, 2, 3, 4} /\ 1 \in 1..4 /\ 2 \in 1..4 /\ 3 \in 1..4 /\ 4 \in 1..4
  OBVIOUS
<1>. QED
  BY <1>3, <1>5, <1>6, <1>7 DEF Indistinguishable

\* Scores are numbers.
LEMMA ScoresAreNumbers ==
  ASSUME NEW pool, pool \subseteq Chunks, NEW s \in SignalsOf(pool), NEW c \in pool
  PROVE  FusedScore(pool, s, c) \in Nat
<1>1. IsFiniteSet(pool)
  BY CasesAreDocuments, FS_Subset
<1>2. ASSUME NEW k \in 1..4
      PROVE  Reciprocal(RankDescending(pool, s[k], c)) \in Nat
  <2>1. s[k] \in [pool -> Int \cup {None}]
    BY DEF SignalsOf
  <2>2. RankDescending(pool, s[k], c) \in Nat \ {0}
    BY <1>1, <2>1, RanksFollowTheSignal
  <2>. QED
    BY <2>2, ScaleIsFine DEF Reciprocal, RrfK
<1>. QED
  BY <1>2 DEF FusedScore

\* The pool has its signals before it is ranked, and so far nobody was ranked
\* behind one who scores distinctly less.
RankingIsFair ==
  /\ at \in {"evaluate", "rank", "assemble", "done"} => candidates \subseteq DOMAIN path \cap Chunks
  /\ at = "rank" \/ ranked # <<>> => signals \in SignalsOf(candidates) /\ candidates \subseteq Chunks
  /\ \A j \in DOMAIN ranked, k \in DOMAIN ranked : j < k =>
       FusedScore(candidates, signals, ranked[k])
         < FusedScore(candidates, signals, ranked[j]) + Indistinguishable
  /\ \A j \in DOMAIN ranked : \A c \in candidates \ RankedSet :
       FusedScore(candidates, signals, c)
         < FusedScore(candidates, signals, ranked[j]) + Indistinguishable

\* The evaluation gives every candidate its signals.
LEMMA SignalsAreTyped ==
  ASSUME Types, candidates \subseteq DOMAIN path \cap Chunks,
         NEW similarity \in Similarities, NEW overlap \in [candidates -> 0..MaxOverlap]
  PROVE  Signals(candidates, similarity, overlap) \in SignalsOf(candidates)
<1>. DEFINE dense      == [c \in candidates |-> IF c \in DOMAIN similarity THEN similarity[c] ELSE None]
            proximity  == [c \in candidates |-> GraphProximity(c)]
            confidence == [c \in candidates |-> RelationshipConfidence(c)]
            X == [candidates -> Int \cup {None}]
<1>1. dense \in X
  BY DEF Similarities
<1>2. overlap \in X
  BY DEF Similarities
<1>3. \A c \in candidates : path[c] \in Seq(Hops)
  BY DEF Types, TypeOK
<1>4. proximity \in X
  <2>1. \A c \in candidates : GraphProximity(c) \in Int
    BY <1>3 DEF GraphProximity, Depth, Types, TypeOK, Budget
  <2>. QED
    BY <2>1
<1>5. confidence \in X
  <2>1. ASSUME NEW c \in candidates
        PROVE  RelationshipConfidence(c) \in Int
    <3>1. CASE Depth(c) = 0
      BY <3>1 DEF RelationshipConfidence, DenseConfidence
    <3>2. CASE Depth(c) # 0
      <4>1. LastHop(c) \in Hops
        BY <1>3, <3>2 DEF Depth, LastHop
      <4>2. LastHop(c).type \in RelationshipTypes
        BY <4>1 DEF Hops
      <4>3. \A t \in RelationshipTypes : ConfidenceTier[t] \in Int
        BY DEF RelationshipTypes, ConfidenceTier
      <4>. QED
        BY <3>2, <4>2, <4>3 DEF RelationshipConfidence
    <3>. QED
      BY <3>1, <3>2
  <2>. QED
    BY <2>1
<1>. HIDE DEF X, dense, proximity, confidence
<1>6. <<dense, overlap, proximity, confidence>> \in [1..4 -> X]
  BY <1>1, <1>2, <1>4, <1>5
<1>. QED
  BY <1>6 DEF Signals, SignalsOf, X, dense, proximity, confidence

\* Every step keeps the ranking fair.
LEMMA RankingStaysFair ==
  ASSUME Types, WorkIsOnPath, AssemblyIsSound, PhasesAreInOrder, RankingIsFair, [Next]_vars
  PROVE  RankingIsFair'
<1>1. ASSUME UNCHANGED <<candidates, signals, ranked>>,
             at' \in {"evaluate", "rank", "assemble", "done"} =>
               candidates \subseteq DOMAIN path' \cap Chunks,
             at' = "rank" => at = "rank"
      PROVE  RankingIsFair'
  <2>1. RankedSet' = RankedSet
    BY <1>1 DEF RankedSet
  <2>2. \A c : FusedScore(candidates', signals', c) = FusedScore(candidates, signals, c)
    BY <1>1
  <2>. QED
    BY <1>1, <2>1, <2>2 DEF RankingIsFair
<1>2. ASSUME ranked' = <<>>, at' # "rank",
             at' = "evaluate" => candidates' \subseteq DOMAIN path' \cap Chunks,
             at' \notin {"assemble", "done"}
      PROVE  RankingIsFair'
  <2>1. DOMAIN ranked' = {}
    BY <1>2
  <2>. QED
    BY <1>2, <2>1 DEF RankingIsFair
<1>3. CASE Generate
  <2>1. ranked' = <<>> /\ at' = "level"
    BY <1>3 DEF Generate, outcome, PhasesAreInOrder
  <2>. QED
    BY <1>2, <2>1
<1>4. CASE ExpandGraph
  <2>1. ranked' = <<>> /\ at' \in {"level", "node", "hydrate"}
    BY <1>4 DEF ExpandGraph, Expand, StartLevel, StopExpansion, ExpandNode, EndLevel, DropTruncated,
                SkipVisited, CutNeighbours, VisitNeighbour, NextNeighbour, outcome, PhasesAreInOrder
  <2>. QED
    BY <1>2, <2>1
<1>5. CASE Hydrate
  <2>1. /\ ranked' = <<>> /\ at' = "evaluate" /\ candidates' = SeedSet \cup (discovered \cap indexed)
        /\ path' = path
    BY <1>5 DEF Hydrate, outcome, search, PhasesAreInOrder
  <2>2. SeedSet \subseteq DOMAIN path \cap Chunks /\ discovered \subseteq DOMAIN path \cap Chunks
    BY DEF SeedSet, WorkIsOnPath, Types, TypeOK
  <2>. QED
    BY <1>2, <2>1, <2>2
<1>6. CASE Evaluate
  <2>1. /\ ranked' = <<>> /\ at' = "rank" /\ UNCHANGED <<candidates, path>> /\ at = "evaluate"
    BY <1>6 DEF Evaluate, search, PhasesAreInOrder
  <2>2. PICK similarity \in Similarities, overlap \in [candidates -> 0..MaxOverlap] :
          signals' = Signals(candidates, similarity, overlap)
    BY <1>6 DEF Evaluate
  <2>3. candidates \subseteq DOMAIN path \cap Chunks
    BY <2>1 DEF RankingIsFair
  <2>4. signals' \in SignalsOf(candidates)
    BY <2>2, <2>3, SignalsAreTyped
  <2>5. DOMAIN ranked' = {} /\ candidates' = candidates /\ path' = path
    BY <2>1
  <2>. QED
    BY <2>1, <2>3, <2>4, <2>5 DEF RankingIsFair
<1>7. CASE Rank
  <2>1. UNCHANGED <<path, candidates, signals>> /\ at = "rank" /\ at' \in {"rank", "assemble"}
    BY <1>7 DEF Rank, search
  <2>2. CASE RankedSet = candidates
    <3>1. ranked' = ranked
      BY <1>7, <2>2 DEF Rank
    <3>. QED
      BY <1>1, <2>1, <3>1 DEF RankingIsFair
  <2>3. CASE RankedSet # candidates
    <3>. DEFINE Score(c) == FusedScore(candidates, signals, c)
    <3>1. PICK c \in candidates \ RankedSet :
            /\ \A d \in candidates \ RankedSet : Score(d) < Score(c) + Indistinguishable
            /\ ranked' = Append(ranked, c)
      BY <1>7, <2>3 DEF Rank
    <3>2. /\ ranked \in Seq(candidates) /\ Len(ranked) \in Nat
          /\ DOMAIN ranked' = 1..(Len(ranked) + 1) /\ DOMAIN ranked = 1..Len(ranked)
          /\ ranked'[Len(ranked) + 1] = c /\ \A k \in DOMAIN ranked : ranked'[k] = ranked[k]
      BY <3>1 DEF AssemblyIsSound
    <3>3. RankedSet' = RankedSet \cup {c}
      BY <3>2 DEF RankedSet
    <3>4. /\ at \in {"evaluate", "rank", "assemble", "done"}
          /\ candidates \subseteq DOMAIN path \cap Chunks /\ signals \in SignalsOf(candidates)
      BY <2>1 DEF RankingIsFair
    <3>5. ASSUME NEW j \in DOMAIN ranked', NEW k \in DOMAIN ranked', j < k
          PROVE  Score(ranked'[k]) < Score(ranked'[j]) + Indistinguishable
      <4>1. j \in DOMAIN ranked
        BY <3>2, <3>5
      <4>2. CASE k \in DOMAIN ranked
        BY <3>2, <3>5, <4>1, <4>2 DEF RankingIsFair
      <4>3. CASE k = Len(ranked) + 1
        BY <3>1, <3>2, <4>1, <4>3 DEF RankingIsFair
      <4>. QED
        BY <3>2, <4>2, <4>3
    <3>6. ASSUME NEW j \in DOMAIN ranked', NEW d \in candidates \ RankedSet'
          PROVE  Score(d) < Score(ranked'[j]) + Indistinguishable
      <4>1. d \in candidates \ RankedSet
        BY <3>3
      <4>2. CASE j \in DOMAIN ranked
        BY <3>2, <4>1, <4>2 DEF RankingIsFair
      <4>3. CASE j = Len(ranked) + 1
        BY <3>1, <3>2, <4>1, <4>3
      <4>. QED
        BY <3>2, <4>2, <4>3
    <3>7. \A e : FusedScore(candidates', signals', e) = Score(e)
      BY <2>1
    <3>. HIDE DEF Score
    <3>. QED
      BY <2>1, <3>4, <3>5, <3>6, <3>7 DEF RankingIsFair
  <2>. QED
    BY <2>2, <2>3
<1>8. CASE Assemble \/ Abort
  <2>1. UNCHANGED <<path, candidates, signals, ranked>> /\ at' \in {"assemble", "done", "failed"}
        /\ (at' # "failed" => at = "assemble")
    BY <1>8 DEF Assemble, Abort, search, outcome
  <2>. QED
    BY <1>1, <2>1 DEF RankingIsFair
<1>9. CASE UNCHANGED vars
  <2>1. UNCHANGED <<at, path, candidates, signals, ranked>>
    BY <1>9 DEF vars, search, outcome
  <2>. QED
    BY <1>1, <2>1 DEF RankingIsFair
<1>. QED
  BY <1>3, <1>4, <1>5, <1>6, <1>7, <1>8, <1>9 DEF Next

\* A candidate that is at least as good in every signal and better in one is
\* ranked before the other, whatever ranks the rest of the pool has.
THEOREM StrongerCandidatesComeFirst == Spec => []StrongerFirst
<1>. DEFINE I == Types /\ WorkIsOnPath /\ AssemblyIsSound /\ PhasesAreInOrder /\ RankingIsFair
<1>1. Init => I
  <2>1. Init => ranked = <<>> /\ at = "generate"
    BY DEF Init
  <2>2. DOMAIN <<>> = {}
    OBVIOUS
  <2>3. Init => RankingIsFair
    BY <2>1, <2>2 DEF RankingIsFair
  <2>. QED
    BY <2>3, InitIsTyped, InitIsSound
<1>2. I /\ [Next]_vars => I'
  BY StepsAreTyped, AssemblyStaysSound, RankingStaysFair
<1>3. I => StrongerFirst
  <2>. SUFFICES ASSUME I, NEW j \in DOMAIN ranked, NEW k \in DOMAIN ranked, j < k,
                       Dominates(signals, ranked[k], ranked[j])
                PROVE  FALSE
    BY DEF StrongerFirst
  <2>1. /\ signals \in SignalsOf(candidates) /\ candidates \subseteq Chunks
        /\ ranked[j] \in candidates /\ ranked[k] \in candidates
    BY DEF RankingIsFair, AssemblyIsSound
  <2>2. FusedScore(candidates, signals, ranked[k])
          >= FusedScore(candidates, signals, ranked[j]) + Indistinguishable
    BY <2>1, DominationShows
  <2>3. FusedScore(candidates, signals, ranked[k])
          < FusedScore(candidates, signals, ranked[j]) + Indistinguishable
    BY DEF RankingIsFair
  <2>4. FusedScore(candidates, signals, ranked[k]) \in Nat
        /\ FusedScore(candidates, signals, ranked[j]) \in Nat
    BY <2>1, ScoresAreNumbers
  <2>. QED
    BY <2>2, <2>3, <2>4 DEF Indistinguishable
<1>. QED
  BY <1>1, <1>2, <1>3, PTL DEF Spec

=============================================================================
