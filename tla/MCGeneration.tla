---------------------------- MODULE MCGeneration ----------------------------
(* Generation for small bundles, with the default settings.                *)
EXTENDS Generation, TLC

CONSTANTS u1, u2, u3

\* The characters of the system prompt, the grounding and the formatting rules.
PromptRules ==
  [t \in QuestionTypes |->
     CASE t = "figure_centric" -> 2498 [] t = "table_centric" -> 2231
       [] t = "comparative" -> 2037 [] t = "procedural" -> 2019 [] t = "multi_hop" -> 2016
       [] t = "citation_centric" -> 2011 [] OTHER -> 1938]

Group(u, s) == [primary |-> u, supporting |-> s]

GroupShapes ==
  { <<>>, <<Group(u1, <<>>)>>, <<Group(u1, <<u2>>)>>, <<Group(u1, <<u2, u3>>)>>,
    <<Group(u1, <<>>), Group(u2, <<u3>>)>>, <<Group(u1, <<>>), Group(u2, <<>>), Group(u3, <<>>)>> }

\* 25120 characters are the budget: a text that fills it, one that exceeds it,
\* one that leaves room for another, short ones, and one shorter than a token.
Lengths ==
  { u1 :> 25120 @@ u2 :> 4 @@ u3 :> 3, u1 :> 25124 @@ u2 :> 800 @@ u3 :> 800,
    u1 :> 12003 @@ u2 :> 12003 @@ u3 :> 1119, u1 :> 400 @@ u2 :> 25000 @@ u3 :> 300 }

Itself == {<<u, u>> : u \in Units}

Containments == {Itself, Itself \cup {<<u2, u1>>}, Itself \cup {<<u3, u2>>}, Itself \cup {<<u1, u2>>}}

Kinds ==
  { [u \in Units |-> "text"], u1 :> "figure" @@ u2 :> "text" @@ u3 :> "table",
    u1 :> "table" @@ u2 :> "figure" @@ u3 :> "text" }

SmallBundles ==
  { b \in [groups: GroupShapes, length: Lengths, within: Containments, modality: Kinds,
           traversed: {TRUE}, image: {{u1, u2}}] :
      \A p \in b.within : b.length[p[1]] <= b.length[p[2]] }

SmallQuestions == [markers: {{}, {"figure"}, {"comparative"}, {"table", "descriptive"}}, length: {90}]

\* Sentences cite up to two labels, shown or not.
Claims == [labels: {{}, {1}, {2}, {1, 2}, {7}}, supported: BOOLEAN]

SmallAnswers ==
  [claims: {s \in SUBSET Claims : Cardinality(s) <= 2}, outside: {{}, {2}}, identities: {{}, {u1}}]

=============================================================================
