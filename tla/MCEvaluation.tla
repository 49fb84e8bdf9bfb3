----------------------------- MODULE MCEvaluation -----------------------------
(* Evaluation of two cases by two instances. *)
EXTENDS Evaluation

Case(name, units, citations) == [name |-> name, units |-> units, citations |-> citations]

First  == Case("one", {"u", "v"}, {"u"})
Second == Case("two", {"v"}, {"v"})

\* 10 / log2(rank + 1), rounded.
SmallGains == <<10, 6, 5>>

\* An empty dataset, and one with a case twice, are refused.
SmallDatasets == {<<First, Second>>, <<Second>>, <<>>, <<Second, Second>>}

SmallAnswers == {
  [retrieved |-> <<"u", "v", "w">>, cited |-> {"u", "v"}, resolved |-> 2, unresolved |-> 0,
   grounded |-> 2, claims |-> 2],
  [retrieved |-> <<"w", "v", "u">>, cited |-> {"v", "w"}, resolved |-> 2, unresolved |-> 1,
   grounded |-> 1, claims |-> 3],
  [retrieved |-> <<>>, cited |-> {}, resolved |-> 0, unresolved |-> 0, grounded |-> 0, claims |-> 1] }

=============================================================================
