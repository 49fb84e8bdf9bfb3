---------------------------- MODULE ChunkBuilding ----------------------------
(***************************************************************************)
(* KnowledgeBuilder: from the stored paper to its knowledge units and the  *)
(* relationships between them.  A unit is named by its place in the list,  *)
(* which is also its order; the title has no pieces.                       *)
(***************************************************************************)
EXTENDS PaperParsing

VARIABLES
  todo,            \* what the reading order has left: items
  buffer,          \* paragraph_buffer: items
  seenBody,        \* seen_body_content
  chunks,          \* kind, section (0: none), pieces, entity and context of each
  relationships    \* source, target and type of each

buildVars == <<todo, buffer, seenBody, chunks, relationships>>

BuildInit ==
  todo = <<>> /\ buffer = <<>> /\ seenBody = FALSE /\ chunks = <<>> /\ relationships = <<>>

Contexts == {"title", "abstract", "front matter", "section", "none", "numbered", "unnumbered",
             "reference"}

Chunk(kind, section, text, entity, context) ==
  [kind |-> kind, section |-> section, text |-> text, entity |-> entity, context |-> context]

Link(source, target, type) == [source |-> source, target |-> target, type |-> type]

-----------------------------------------------------------------------------
(* Reading order.                                                          *)

Subsections(s) == Ascending({c \in DOMAIN sections : sections[c].parent = s})

\* A section and what is below it, depth first; 0 is the paper itself.
DepthFirst[s \in 0..Len(sections)] ==
  LET below == Subsections(s)
  IN  <<s>> \o FlattenSeq([k \in DOMAIN below |-> DepthFirst[below[k]]])

Rank(kind) == CASE kind = "text" -> 0 [] kind = "picture" -> 1 [] kind = "table" -> 2

\* Mutant: each type for itself.
SortKey_ByType(i) == <<Rank(doc[i].kind), 0, doc[i].position, i>>

\* _sort_key: what has a box before what has none, page by page and downwards;
\* at one height, or without boxes, paragraphs, then figures, then tables.
SortKey(i) ==
  <<IF doc[i].position = 0 THEN 1 ELSE 0, doc[i].position, Rank(doc[i].kind), i>>

ComesBefore(i, j) ==
  \E k \in 1..4 : /\ SortKey(i)[k] < SortKey(j)[k]
                  /\ \A l \in 1..(k - 1) : SortKey(i)[l] = SortKey(j)[l]

ItemsIn(s) == {placed[k].item : k \in {n \in DOMAIN placed : placed[n].section = s}}

\* The items of a section from the first on.
InPlace(s) ==
  [n \in 1..Cardinality(ItemsIn(s)) |->
     CHOOSE i \in ItemsIn(s) : Cardinality({j \in ItemsIn(s) : ComesBefore(j, i)}) = n - 1]

ReadingOrder ==
  LET order == DepthFirst[0]
  IN  FlattenSeq([k \in DOMAIN order |-> InPlace(order[k])])

SectionOf(i) == placed[CHOOSE k \in DOMAIN placed : placed[k].item = i].section

-----------------------------------------------------------------------------
(* The bibliography and the numbers printed in the paper.                  *)

TextOf(items) == FlattenSeq([k \in DOMAIN items |-> doc[items[k]].text])

\* A piece of the bibliography that begins with a bracketed number.
Bracketed(piece) == \E k \in DOMAIN piece.mentions : piece.mentions[k][1] = "cites"

\* _split_references: at the bracketed numbers if there are two, else by block.
References ==
  LET combined == TextOf(bibliography)
      brackets == {k \in DOMAIN combined : Bracketed(combined[k])}
  IN  IF Cardinality(brackets) >= 2
      THEN CutBefore(combined, {1} \cup brackets)
      ELSE [k \in DOMAIN bibliography |-> doc[bibliography[k]].text]

\* The figure or table with a printed number: the first of those that have it.
Labelled(kind, n) ==
  {placed[k].item : k \in {m \in DOMAIN placed : /\ doc[placed[m].item].kind = kind
                                                 /\ doc[placed[m].item].label = n}}

IsNumbered(i) == doc[i].label # 0 /\ i = First(Labelled(doc[i].kind, doc[i].label))

\* The chunks a citation or mention leads to: one at most.
Targets(mention) ==
  LET entities == Labelled(IF mention[1] = "figure" THEN "picture" ELSE "table", mention[2])
  IN  IF mention[1] = "cites"
      THEN {c \in DOMAIN chunks : chunks[c].kind = "reference" /\ chunks[c].entity = mention[2]}
      ELSE {c \in DOMAIN chunks : /\ entities # {} /\ chunks[c].kind \in {"picture", "table"}
                                  /\ chunks[c].entity = First(entities)}

-----------------------------------------------------------------------------
(* The build.                                                              *)

TitleChunk == Chunk("title", 0, <<>>, 0, "title")

AbstractChunks ==
  IF abstract = <<>> THEN <<>> ELSE <<Chunk("abstract", 0, TextOf(abstract), 0, "abstract")>>

VisualChunk(i) ==
  Chunk(doc[i].kind, SectionOf(i), <<>>, i, IF IsNumbered(i) THEN "numbered" ELSE "unnumbered")

ReferenceChunks ==
  [n \in DOMAIN References |-> Chunk("reference", 0, References[n], n, "reference")]

\* represent_document reads paper.json, which an interrupted parse may have
\* left; the title and the abstract come first.
StartBuild ==
  /\ pc \in {"parsed", "interrupted"} /\ "paper.json" \in Stored
  /\ pc' = "walk"
  /\ todo' = ReadingOrder
  /\ chunks' = <<TitleChunk>> \o AbstractChunks
  /\ UNCHANGED <<doc, mapping, paper, written, buffer, seenBody, relationships>>

\* flush_paragraphs: the chunks of the run of paragraphs in the buffer.
FlushedParts == PartsOf([k \in DOMAIN buffer |-> doc[buffer[k]].text])

RunContext == IF SectionOf(Head(buffer)) # 0 THEN "section"
              ELSE IF seenBody THEN "none" ELSE "front matter"

FlushedChunks ==
  IF buffer = <<>> THEN <<>>
  ELSE [k \in DOMAIN FlushedParts |->
          Chunk("text", SectionOf(Head(buffer)), FlushedParts[k].text, 0, RunContext)]

\* Between consecutive parts of one block.
FlushedLinks ==
  IF buffer = <<>> THEN <<>>
  ELSE LET later == Ascending({k \in DOMAIN FlushedParts : FlushedParts[k].continues})
       IN  [n \in DOMAIN later |-> Link(Len(chunks) + later[n] - 1, Len(chunks) + later[n], "CONTINUES")]

Flush(followers) ==
  /\ chunks' = chunks \o FlushedChunks \o followers
  /\ relationships' = relationships \o FlushedLinks

Walking == pc = "walk" /\ todo # <<>>

NextItem == Head(todo)

\* A paragraph joins the buffer; the first one of another section flushes it.
TakeParagraph ==
  /\ Walking /\ doc[NextItem].kind = "text"
  /\ IF buffer # <<>> /\ SectionOf(Last(buffer)) # SectionOf(NextItem)
     THEN Flush(<<>>) /\ buffer' = <<NextItem>> /\ seenBody' = TRUE
     ELSE buffer' = Append(buffer, NextItem) /\ UNCHANGED <<seenBody, chunks, relationships>>
  /\ todo' = Tail(todo)
  /\ UNCHANGED <<doc, pc, mapping, paper, written>>

TakeVisual ==
  /\ Walking /\ doc[NextItem].kind # "text"
  /\ Flush(<<VisualChunk(NextItem)>>)
  /\ buffer' = <<>> /\ seenBody' = TRUE
  /\ todo' = Tail(todo)
  /\ UNCHANGED <<doc, pc, mapping, paper, written>>

\* The last run of paragraphs, then the references in order.
FinishWalk ==
  /\ pc = "walk" /\ todo = <<>>
  /\ Flush(ReferenceChunks)
  /\ buffer' = <<>>
  /\ pc' = "detect"
  /\ UNCHANGED <<doc, mapping, paper, written, todo, seenBody>>

\* Mutant: a link for every citation and mention.
LinkStep_Again(links, c, mention) ==
  IF Targets(mention) = {} THEN links
  ELSE Append(links, Link(c, First(Targets(mention)), IF mention[1] = "cites" THEN "CITES" ELSE "REFERENCES"))

\* detect_relationships: one link to each chunk that a text cites or mentions.
LinkStep(links, c, mention) ==
  LET new == Targets(mention) \ {links[k].target : k \in DOMAIN links}
  IN  IF new = {} THEN links
      ELSE Append(links, Link(c, First(new), IF mention[1] = "cites" THEN "CITES" ELSE "REFERENCES"))

Detected(c) == FoldLeft(LAMBDA links, mention : LinkStep(links, c, mention), <<>>,
                        Found(chunks[c].text))

Detect ==
  /\ pc = "detect"
  /\ pc' = "check"
  /\ relationships' = relationships
       \o FlattenSeq([c \in DOMAIN chunks |-> IF chunks[c].kind = "text" THEN Detected(c) ELSE <<>>])
  /\ UNCHANGED <<doc, mapping, paper, written, todo, buffer, seenBody, chunks>>

\* validate_representation; ids and orders are places in the list of chunks.
RepresentationIsValid ==
  /\ chunks # <<>>
  /\ \A c \in DOMAIN chunks : chunks[c].section \in {0} \cup DOMAIN sections
  /\ \A k \in DOMAIN relationships :
       {relationships[k].source, relationships[k].target} \subseteq DOMAIN chunks

Check ==
  /\ pc = "check"
  /\ pc' = IF RepresentationIsValid THEN "represented" ELSE "refused"
  /\ UNCHANGED <<doc, mapping, paper, written, buildVars>>

Build == StartBuild \/ TakeParagraph \/ TakeVisual \/ FinishWalk \/ Detect \/ Check

=============================================================================
