----------------------------- MODULE MCRetrieval -----------------------------
(* Retrieval over small documents.                                         *)
EXTENDS Retrieval, TLC

CONSTANTS c1, c2, c3, c4, c5, s1, s2

Limits(topK, depth, neighbors, evidence, spend, groupCount, primaries) ==
  [topK |-> topK, depth |-> depth, neighbors |-> neighbors, evidence |-> evidence,
   cost |-> spend, groups |-> groupCount, primaries |-> primaries]

Case(representations, budgets) == [representation: representations, budget: budgets]

\* One set of limits that cuts nothing, and one for each limit that does.
SmallBudgets ==
  { Limits(2, 2, 50, 9, 99, 9, 9), Limits(2, 1, 50, 9, 99, 9, 1), Limits(2, 3, 2, 9, 99, 1, 9),
    Limits(2, 2, 50, 2, 99, 9, 9), Limits(2, 1, 50, 1, 99, 9, 9), Limits(2, 2, 50, 9, 5, 9, 9) }

\* A paragraph that mentions a figure of another section and cites a reference;
\* a figure, its continuation and a paragraph that mentions it.
SmallRepresentations ==
  { [order |-> <<c1, c2, c3>>,
     section |-> c1 :> s1 @@ c2 :> s1 @@ c3 :> None @@ c4 :> None @@ c5 :> None,
     kind |-> [c \in Chunks |-> "Bibliography reference"],
     relationships |-> {Edge(c1, c3, "CITES"), Edge(c2, c1, "REFERENCES")}],
    [order |-> <<c1, c2, c3, c4>>,
     section |-> [c \in Chunks |-> None],
     kind |-> [c \in Chunks |-> "Figure"],
     relationships |-> {Edge(c1, c2, "CONTINUES"), Edge(c4, c1, "REFERENCES")}] }

SmallCases == Case(SmallRepresentations, SmallBudgets)

\* A paragraph that mentions two figures of another section, and one candidate
\* by dense search.  The default settings but for one primary per section.
Figures ==
  [order |-> <<c1, c2, c3, c4, c5>>,
   section |-> c1 :> s1 @@ c2 :> s1 @@ c3 :> s2 @@ c4 :> s2 @@ c5 :> s2,
   kind |-> [c \in Chunks |-> "Figure"],
   relationships |-> {Edge(c3, c1, "REFERENCES"), Edge(c3, c2, "REFERENCES")}]

FiguresCases == Case({Figures}, {Limits(1, 2, 10, 50, 500, 5, 1)})

AllCases == SmallCases \cup FiguresCases

=============================================================================
