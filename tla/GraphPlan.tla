------------------------------ MODULE GraphPlan ------------------------------
(***************************************************************************)
(* GraphPlanner: the knowledge graph of a document, as a projection of its *)
(* chunks and of the relationships between them.                           *)
(***************************************************************************)
EXTENDS Naturals, Sequences

CONSTANTS
  Chunks,      \* ids of chunks
  Sections,    \* ids of sections
  Document,    \* id of the document's root node
  None         \* no section, no similarity, no budget exhausted

ASSUME NodesAreDistinct ==
  /\ Chunks \cap Sections = {}
  /\ Document \notin Chunks \cup Sections /\ None \notin Chunks \cup Sections

Nodes == {Document} \cup Sections \cup Chunks

RelationshipTypes == {"CITES", "REFERENCES", "CONTINUES", "NEXT", "BELONGS_TO"}

Edges == [source: Nodes, target: Nodes, type: RelationshipTypes]

Edge(a, b, type) == [source |-> a, target |-> b, type |-> type]

(***************************************************************************)
(* A representation r: its chunks in reading order, the section of each,   *)
(* and the relationships the knowledge builder found.                      *)
(***************************************************************************)
UnitsOf(r) == {r.order[k] : k \in DOMAIN r.order}

InSection(r) == {c \in UnitsOf(r) : r.section[c] # None}

ContainmentEdges(r) ==
  {Edge(c, Document, "BELONGS_TO") : c \in UnitsOf(r)}
  \cup {Edge(c, r.section[c], "BELONGS_TO") : c \in InSection(r)}
  \cup {Edge(r.section[c], Document, "BELONGS_TO") : c \in InSection(r)}

SequenceEdges(r) ==
  {Edge(r.order[k], r.order[k + 1], "NEXT") : k \in 1..Len(r.order) - 1}

RelationshipEdges(r) == {Edge(x.source, x.target, x.type) : x \in r.relationships}

PlannedEdges(r) == ContainmentEdges(r) \cup SequenceEdges(r) \cup RelationshipEdges(r)

=============================================================================
