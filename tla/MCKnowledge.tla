----------------------------- MODULE MCKnowledge -----------------------------
(* Knowledge for four families of small documents.                         *)
EXTENDS Knowledge

AnItem == [kind |-> "text", name |-> "", level |-> 0, text |-> <<>>, position |-> 0, label |-> 0,
           rendered |-> FALSE]

\* Pieces get their places when a document is put together (Numbered).
APiece == [place |-> <<0, 0>>, words |-> 2, stop |-> TRUE, mentions |-> <<>>,
           announces |-> "nothing", number |-> 0]

Numbered(d) ==
  [i \in DOMAIN d |-> [d[i] EXCEPT !.text = [k \in DOMAIN @ |-> [@[k] EXCEPT !.place = <<i, k>>]]]]

Para(text)            == [AnItem EXCEPT !.text = text]
Head_(name, level)    == [AnItem EXCEPT !.kind = "heading", !.name = name, !.level = level]
Visual(kind, label)   == [AnItem EXCEPT !.kind = kind, !.label = label, !.rendered = label # 0]
At_(item, position)   == [item EXCEPT !.position = position]
Sentence(words)       == [APiece EXCEPT !.words = words]
Phrase(words)         == [APiece EXCEPT !.words = words, !.stop = FALSE]
Saying(words, found)  == [APiece EXCEPT !.words = words, !.mentions = found]

TitleItem  == [AnItem EXCEPT !.kind = "title", !.name = "a title"]
Intro      == Head_("introduction", 1)
Body       == Para(<<Sentence(2)>>)

\* Headings of every depth, the abstract, the references and what stands
\* between them, in any order; the first heading may have to serve as title.
Structured ==
  {<<TitleItem>> \o s \o <<Body>> :
     s \in [1..4 -> {Head_("method", 1), Head_("data", 2), Head_("detail", 3), Body,
                     Head_("abstract", 2), Head_("references", 1)}]}
  \cup {s \o <<[AnItem EXCEPT !.kind = "furniture"], AnItem>> :
          s \in [1..2 -> {Head_("", 0), Head_("abstract", 0), Body, Visual("picture", 0),
                          [TitleItem EXCEPT !.name = "introduction"], Head_("introduction", 0)}]}

\* Runs of three paragraphs around both limits, some that end in mid-sentence.
Runs ==
  {<<TitleItem, Intro>> \o [k \in 1..3 |-> Para(run[k])] :
     run \in [1..3 -> {<<Sentence(1)>>, <<Phrase(1)>>, <<Sentence(2)>>, <<Sentence(3), Sentence(3)>>,
                       <<Sentence(1), Sentence(1), Sentence(2), Sentence(1)>>, <<Phrase(5)>>,
                       <<Sentence(5), Sentence(1)>>}]}

\* Citations and mentions in a paragraph that is split, before and after what
\* they name; a bibliography numbered in order, in one block or several,
\* without numbers or with a text before them; two figures with one number.
Citing ==
  {Para(<<Saying(2, <<<<"cites", 1>>, <<"figure", 1>>>>),
          [Sentence(2) EXCEPT !.announces = "figure"],
          [Saying(1, <<<<"table", 1>>, <<"cites", 2>>, <<"cites", 1>>>>) EXCEPT !.number = 2]>>),
   Para(<<Saying(1, <<<<"cites", 3>>, <<"figure", 1>>>>)>>)}

Entry(n) == Saying(2, <<<<"cites", n>>>>)

Bibliographies ==
  { <<>>,
    <<Head_("references", 1), Para(<<Entry(1), Sentence(1), Entry(2), Entry(3)>>)>>,
    <<Head_("references", 1), Para(<<Entry(1)>>), Para(<<Entry(2), Sentence(2)>>)>>,
    <<Head_("references", 1), Para(<<Entry(1), Sentence(1)>>)>>,
    <<Head_("references", 1), Para(<<Sentence(1), Entry(1), Entry(2)>>)>> }

Mentioning ==
  {<<TitleItem, Intro>> \o s \o b :
     s \in [1..3 -> Citing \cup {Visual("picture", 1), Visual("picture", 2), Visual("table", 1)}],
     b \in Bibliographies}

\* Paragraphs, figures and tables of one or two sections down a page, or in
\* two columns, or partly without a box.
Positions == {<<1, 2, 3, 4>>, <<0, 0, 0, 0>>, <<1, 0, 2, 3>>}

Pages(positions) ==
  {<<TitleItem>> \o [k \in 1..4 |-> At_(s[k], p[k])] :
     s \in [1..4 -> {Para(<<Sentence(3), Sentence(2)>>), Visual("picture", 1),
                     Visual("table", 0), Intro}],
     p \in positions}

Columns == {Numbered(d) : d \in Pages({<<1, 3, 2, 4>>})}

AllDocuments == {Numbered(d) : d \in Structured \cup Runs \cup Mentioning \cup Pages(Positions)}

=============================================================================
