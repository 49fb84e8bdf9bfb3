--------------------------- MODULE GraphValidation ---------------------------
(***************************************************************************)
(* GraphValidator: what a planned graph must be like before it is stored.  *)
(* links is the list of relationships the set r.relationships is made of.  *)
(***************************************************************************)
EXTENDS GraphPlan, FiniteSets

PlannedNodes(r) == {Document} \cup {r.section[c] : c \in InSection(r)} \cup UnitsOf(r)

NoDuplicateEdges(r, links) ==
  \A j, k \in DOMAIN links : links[j] = links[k] => j = k

NoDanglingEdges(r) ==
  \A e \in PlannedEdges(r) : {e.source, e.target} \subseteq PlannedNodes(r)

\* Only units are next to, continue, cite and mention each other, and the
\* document is part of nothing.
EndpointTypesFit(r) ==
  \A e \in PlannedEdges(r) :
    IF e.type = "BELONGS_TO" THEN e.source # Document
    ELSE {e.source, e.target} \subseteq UnitsOf(r)

NoOrphans(r) ==
  LET connected == UNION {{e.source, e.target} : e \in PlannedEdges(r)}
  IN  PlannedNodes(r) \subseteq connected \cup {Document}

Projected(r) == {e \in PlannedEdges(r) : e.type \in {"CITES", "REFERENCES", "CONTINUES"}}

IsComplete(r, links) ==
  /\ PlannedNodes(r) \cap Chunks = UnitsOf(r)
  /\ Cardinality(Projected(r)) = Len(links)

Accepts(r, links) ==
  /\ NoDuplicateEdges(r, links) /\ NoDanglingEdges(r) /\ EndpointTypesFit(r)
  /\ NoOrphans(r) /\ IsComplete(r, links)

=============================================================================
