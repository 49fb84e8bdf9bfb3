------------------------------ MODULE Knowledge ------------------------------
(***************************************************************************)
(* From what Docling finds in a PDF to the knowledge representation of the *)
(* paper and the graph planned for it: the parse and the represent call,   *)
(* one after the other, and what the chunks owe to the document.           *)
(***************************************************************************)
EXTENDS ChunkBuilding, Integers

vars == <<parseVars, buildVars>>

Init == ParseInit /\ BuildInit

Next == \/ Parse /\ UNCHANGED buildVars
        \/ Build

Spec == Init /\ [][Next]_vars

\* The representation has been built, whatever validation says of it.
IsBuilt == pc \in {"check", "represented", "refused"}

-----------------------------------------------------------------------------

Calls == {"convert", "unreadable", "untitled", "map", "empty", "invalid", "persist", "interrupted",
          "parsed", "walk", "detect", "check", "represented", "refused"}

\* What the paper may be called, "" while it has no title.
Names == {""} \cup {doc[i].name : i \in DOMAIN doc}

\* Every entity is an item of the document, every section a section of the paper.
TypeOK ==
  /\ doc \in Seq(Item) /\ pc \in Calls /\ at \in 1..(Len(doc) + 1)
  /\ title \in Names
  /\ sections \in Seq([parent: Nat, level: Nat \ {0}, item: DOMAIN doc])
  /\ stack \in Seq(DOMAIN sections)
  /\ placed \in Seq([item: DOMAIN doc, section: {0} \cup DOMAIN sections])
  /\ abstract \in Seq(DOMAIN doc) /\ bibliography \in Seq(DOMAIN doc)
  /\ special \in {"none", "abstract", "references"} /\ specialLevel \in Nat
  /\ written \in Nat

\* The hierarchy is that of a table of contents: a section belongs to the
\* nearest heading before it that is of a higher rank, whatever levels Docling
\* gives the headings and whatever is left out between them.
SectionsAreNested ==
  \A s \in DOMAIN sections :
    LET above == {p \in 1..(s - 1) : sections[p].level < sections[s].level}
    IN  /\ sections[s].parent \in {0} \cup above
        /\ \A p \in above : p <= sections[s].parent

-----------------------------------------------------------------------------
(* What the chunks owe to the text.                                        *)

Continued(c) ==
  \E k \in DOMAIN relationships : relationships[k].type = "CONTINUES" /\ relationships[k].target = c

\* The text of a chunk without what it repeats of the chunk it continues.
Fresh(c) == IF Continued(c) THEN FlattenSeq(Tail(Sentences(chunks[c].text))) ELSE chunks[c].text

Shown == FlattenSeq([c \in DOMAIN chunks |-> Fresh(c)])

TextItems == {i \in DOMAIN doc : doc[i].kind = "text"}

LastPiece(i) == Len(doc[i].text)

\* Nothing that stands in the document gets lost on its way into the chunks,
\* nothing is there twice but the sentence two parts of a block share, and no
\* paragraph is taken apart: read without that sentence, the chunks show every
\* piece of every text once, the pieces of a text in a row.
NoTextIsLost ==
  IsBuilt =>
    /\ \A i \in TextItems : \A k \in DOMAIN doc[i].text : \E n \in DOMAIN Shown : Shown[n] = doc[i].text[k]
    /\ \A m, n \in DOMAIN Shown : Shown[m].place = Shown[n].place => m = n
    /\ \A n \in DOMAIN Shown :
         LET i == Shown[n].place[1]
             k == Shown[n].place[2]
         IN  k < LastPiece(i) => n < Len(Shown) /\ Shown[n + 1].place = <<i, k + 1>>

TextChunks == {c \in DOMAIN chunks : chunks[c].kind = "text"}

IsContinued(c) == \E k \in DOMAIN relationships : relationships[k] = Link(c, c + 1, "CONTINUES")

\* Chunks are neither too long nor too short when they need not be: one over
\* the limit has no more than one sentence of its own, and a paragraph below
\* the floor stands alone only if its run has no other.
PartsAreBounded ==
  IsBuilt => \A c \in TextChunks :
    /\ Words(chunks[c].text) > MaxWords => Len(Sentences(Fresh(c))) <= 1
    /\ Words(chunks[c].text) < MinWords /\ ~Continued(c) /\ ~IsContinued(c) =>
         \A n \in {c - 1, c + 1} \cap TextChunks : chunks[n].section # chunks[c].section

-----------------------------------------------------------------------------
(* What the relationships owe to the text.                                 *)

\* The numbers of the bibliography are those printed in it.
FirstPiece(c) == chunks[c].text[1]

IsNumberedInOrder ==
  LET text   == TextOf(bibliography)
      starts == Ascending({k \in DOMAIN text : Bracketed(text[k])})
  IN  /\ bibliography # <<>> /\ Bracketed(Head(text)) /\ Len(starts) >= 2
      /\ \A n \in DOMAIN starts : text[starts[n]].mentions = <<<<"cites", n>>>>

\* Chunk c is about what the mention names.
IsAbout(c, mention) ==
  CASE mention[1] = "cites"  -> chunks[c].kind = "reference" /\ FirstPiece(c).mentions = <<mention>>
    [] mention[1] = "figure" -> chunks[c].kind = "picture" /\ doc[chunks[c].entity].label = mention[2]
    [] mention[1] = "table"  -> chunks[c].kind = "table" /\ doc[chunks[c].entity].label = mention[2]

\* What paragraph i mentions in or right after its piece k.
MentionsOf(i, k) == Range(doc[i].text[k].mentions \o Straddling(doc[i].text, k))

Shows(c, i, k) == \E n \in DOMAIN chunks[c].text : chunks[c].text[n].place = <<i, k>>

Paragraphs == {placed[n].item : n \in {m \in DOMAIN placed : doc[placed[m].item].kind = "text"}}

\* However paragraphs are merged and split, a citation or mention is followed
\* from a chunk it stands in to the entry, figure or table it names, if the
\* paper has one: also one that a sentence boundary runs through ("Fig. 2").
MentionsAreLinked ==
  IsBuilt =>
    \A i \in Paragraphs : \A k \in DOMAIN doc[i].text : \A mention \in MentionsOf(i, k) :
      /\ mention[1] = "cites" => IsNumberedInOrder
      /\ \E c \in DOMAIN chunks : IsAbout(c, mention)
      =>
        \E n \in DOMAIN relationships :
          /\ Shows(relationships[n].source, i, k)
          /\ IsAbout(relationships[n].target, mention)

-----------------------------------------------------------------------------
(* What the order of the chunks owes to the document.                      *)

PlacedItems == {placed[k].item : k \in DOMAIN placed}

\* Further down the document is further down the page.
IsSingleColumn ==
  \A i, j \in PlacedItems : i < j => 0 < doc[i].position /\ doc[i].position < doc[j].position

BodyChunks == {c \in DOMAIN chunks : chunks[c].kind \in {"text", "picture", "table"}}

StartOf(c) == IF chunks[c].kind = "text" THEN FirstPiece(c).place[1] ELSE chunks[c].entity

\* "This module recovers the true visual order using each entity's bounding
\* box position" (reading_order.py:7): body chunks stand in the order in which
\* Docling reads the page, columns one after the other.
ReadingOrderIsVisual ==
  IsBuilt => \A c, d \in BodyChunks : c < d => StartOf(c) <= StartOf(d)

\* It does in one column: a figure comes between the paragraphs it stood
\* between, and sections come in the order of their headings.
SingleColumnsKeepTheirOrder == IsSingleColumn => ReadingOrderIsVisual

-----------------------------------------------------------------------------
(* What later stages rely on.                                              *)

Graph == INSTANCE GraphValidation WITH
  Chunks   <- DOMAIN chunks,
  Sections <- {0 - s : s \in DOMAIN sections},
  Document <- 0,
  None     <- Len(chunks) + 1

Representation ==
  [order         |-> [c \in DOMAIN chunks |-> c],
   section       |-> [c \in DOMAIN chunks |-> IF chunks[c].section = 0 THEN Len(chunks) + 1
                                              ELSE 0 - chunks[c].section],
   relationships |-> Range(relationships)]

\* No paper the mapper makes is refused by a validator that follows it: the
\* three of them only guard against mistakes of the stages before.
ValidatorsAccept ==
  /\ pc \notin {"invalid", "refused"}
  /\ pc = "represented" => Graph!Accepts(Representation, relationships)

=============================================================================
