----------------------------- MODULE PaperParsing -----------------------------
(***************************************************************************)
(* POST /documents/{id}/parse: the items Docling finds in a PDF become a   *)
(* Paper (DoclingDocumentParser, DomainMapper), which is validated and     *)
(* written file by file (ParserService).                                   *)
(*                                                                         *)
(* An entity is named by its item's place in the document.  The order      *)
(* counters of the code grow with that place, so they are not kept.        *)
(***************************************************************************)
EXTENDS Naturals, Sequences, FiniteSets, ParagraphSplitting

CONSTANT Documents    \* what Docling may return: sequences of items

\* name: of a title or heading, "" if blank.  level: of a heading, 0 if it has
\* none.  text: of a text, <<>> if blank.  position: page and vertical position
\* as one number, 0 if the item has no box.  label: the number printed in the
\* caption of a table or picture, 0 if there is none.  rendered: a picture has
\* an image, a table its markdown.
Item == [kind:     {"title", "heading", "text", "table", "picture", "furniture"},
         name:     STRING,
         level:    Nat,
         text:     Seq(Piece),
         position: Nat,
         label:    Nat,
         rendered: BOOLEAN]

ASSUME DocumentsAreSequences == \A d \in Documents : d \in Seq(Item)

\* A piece is known by where it stands.
ASSUME PiecesHavePlaces ==
  \A d \in Documents : \A i \in DOMAIN d : \A k \in DOMAIN d[i].text : d[i].text[k].place = <<i, k>>

VARIABLES
  doc,           \* the document Docling returned
  pc,            \* where the call stands
  at,            \* the item the mapper looks at
  title,         \* title of the paper, "" if none was found
  sections,      \* paper.sections: parent (0: none), level and item of each
  stack,         \* section_stack: the open sections
  placed,        \* paper.paragraphs, tables and figures: item and section of each
  abstract,      \* abstract_blocks: items
  bibliography,  \* reference_blocks: items
  special,       \* special_mode: "none", "abstract" or "references"
  specialLevel,  \* special_mode_level
  written        \* number of files persisted

paper     == <<title, sections, placed, abstract, bibliography>>
mapping   == <<at, stack, special, specialLevel>>
parseVars == <<doc, pc, at, title, sections, stack, placed, abstract, bibliography, special,
               specialLevel, written>>

ParseInit ==
  /\ doc \in Documents
  /\ pc = "convert" /\ at = 1 /\ title = ""
  /\ sections = <<>> /\ stack = <<>> /\ placed = <<>>
  /\ abstract = <<>> /\ bibliography = <<>>
  /\ special = "none" /\ specialLevel = 0 /\ written = 0

-----------------------------------------------------------------------------
(* The provider.                                                           *)

First(S) == CHOOSE i \in S : \A j \in S : i <= j

ItemsOf(kind) == {i \in DOMAIN doc : doc[i].kind = kind}

\* _extract_title: the first title, else the first heading.
ExtractedTitle ==
  LET source == IF ItemsOf("title") # {} THEN ItemsOf("title") ELSE ItemsOf("heading")
  IN  IF source = {} THEN "" ELSE doc[First(source)].name

ReadsLikeTheTitle(i) == doc[i].kind = "heading" /\ doc[i].name = title

\* The first heading that reads like the title is not part of the content.
IsTheTitle(i) == ReadsLikeTheTitle(i) /\ \A j \in 1..(i - 1) : ~ReadsLikeTheTitle(j)

\* Docling converts the file, or cannot; a paper without a title is refused.
Convert ==
  /\ pc = "convert"
  /\ \/ title' = ExtractedTitle /\ pc' = IF ExtractedTitle = "" THEN "untitled" ELSE "map"
     \/ pc' = "unreadable" /\ UNCHANGED title
  /\ UNCHANGED <<doc, mapping, sections, placed, abstract, bibliography, written>>

-----------------------------------------------------------------------------
(* The mapper: one action per item.                                        *)

Mapping == pc = "map" /\ at <= Len(doc)

CurrentSection == IF stack = <<>> THEN 0 ELSE Last(stack)

\* Page headers and footers, captions, titles and blank blocks.
SkipItem ==
  /\ Mapping
  /\ \/ doc[at].kind \in {"title", "furniture"}
     \/ doc[at].kind = "heading" /\ (doc[at].name = "" \/ IsTheTitle(at))
     \/ doc[at].kind = "text" /\ doc[at].text = <<>>
  /\ at' = at + 1
  /\ UNCHANGED <<doc, pc, paper, stack, special, specialLevel, written>>

Heading == Mapping /\ doc[at].kind = "heading" /\ doc[at].name # "" /\ ~IsTheTitle(at)

\* Mutant: a heading without a level is left without one.
HeadingLevel_Raw == doc[at].level

HeadingLevel == IF doc[at].level = 0 THEN 1 ELSE doc[at].level

\* A heading below that of the abstract or of the references is dropped.
IsStray == special # "none" /\ HeadingLevel > specialLevel

IsSpecial == doc[at].name \in {"abstract", "references"}

StrayHeading ==
  /\ Heading /\ IsStray
  /\ at' = at + 1
  /\ UNCHANGED <<doc, pc, paper, stack, special, specialLevel, written>>

SpecialHeading ==
  /\ Heading /\ ~IsStray /\ IsSpecial
  /\ special' = doc[at].name /\ specialLevel' = HeadingLevel
  /\ at' = at + 1
  /\ UNCHANGED <<doc, pc, paper, stack, written>>

NewSection == Heading /\ ~IsStray /\ ~IsSpecial

\* Mutant: a section of the same level stays open.
IsOpenAt_Deeper(level) == stack # <<>> /\ sections[CurrentSection].level > level

IsOpenAt(level) == stack # <<>> /\ sections[CurrentSection].level >= level

\* resolve_parent, one iteration: a section at the level or below it is closed.
CloseSection ==
  /\ NewSection /\ IsOpenAt(HeadingLevel)
  /\ stack' = Front(stack)
  /\ UNCHANGED <<doc, pc, at, paper, special, specialLevel, written>>

OpenSection ==
  /\ NewSection /\ ~IsOpenAt(HeadingLevel)
  /\ sections' = Append(sections, [parent |-> CurrentSection, level |-> HeadingLevel, item |-> at])
  /\ stack' = Append(stack, Len(sections'))
  /\ special' = "none"
  /\ at' = at + 1
  /\ UNCHANGED <<doc, pc, title, placed, abstract, bibliography, specialLevel, written>>

Text == Mapping /\ doc[at].kind = "text" /\ doc[at].text # <<>>

AbstractText ==
  /\ Text /\ special = "abstract"
  /\ abstract' = Append(abstract, at)
  /\ at' = at + 1
  /\ UNCHANGED <<doc, pc, title, sections, stack, placed, bibliography, special, specialLevel,
                 written>>

ReferenceText ==
  /\ Text /\ special = "references"
  /\ bibliography' = Append(bibliography, at)
  /\ at' = at + 1
  /\ UNCHANGED <<doc, pc, title, sections, stack, placed, abstract, special, specialLevel,
                 written>>

\* A paragraph, or a table or figure wherever it stands, joins the open section.
Place ==
  /\ \/ Text /\ special = "none"
     \/ Mapping /\ doc[at].kind \in {"table", "picture"}
  /\ placed' = Append(placed, [item |-> at, section |-> CurrentSection])
  /\ at' = at + 1
  /\ UNCHANGED <<doc, pc, title, sections, stack, abstract, bibliography, special, specialLevel,
                 written>>

MapItem ==
  \/ SkipItem \/ StrayHeading \/ SpecialHeading \/ CloseSection \/ OpenSection
  \/ AbstractText \/ ReferenceText \/ Place

-----------------------------------------------------------------------------
(* Validation and persistence.                                             *)

IsEmpty == sections = <<>> /\ placed = <<>>

\* Parents exist, and no section is its own ancestor: a set of sections that
\* contains the parent of each of them would be one that has no top.  (That the
\* subject of a caption exists needs no test here: both are made in one step.)
HierarchyIsValid ==
  /\ \A s \in DOMAIN sections : sections[s].parent \in {0} \cup DOMAIN sections
  /\ \A S \in (SUBSET DOMAIN sections) \ {{}} : \E s \in S : sections[s].parent \notin S

Validate ==
  /\ pc = "map" /\ at > Len(doc)
  /\ pc' = IF IsEmpty THEN "empty" ELSE IF HierarchyIsValid THEN "persist" ELSE "invalid"
  /\ UNCHANGED <<doc, mapping, paper, written>>

\* The files in the order they are written: of a picture its image, of a table
\* its markdown, both after the paper that refers to them.
Rendered(kind) ==
  LET entities == SelectSeq(placed, LAMBDA p : doc[p.item].kind = kind /\ doc[p.item].rendered)
  IN  [k \in DOMAIN entities |-> entities[k].item]

Files == <<"paper.json", "metadata.json", "layout.json">> \o Rendered("picture") \o Rendered("table")

Stored == {Files[k] : k \in 1..written}

\* A write succeeds, or ends the call and leaves what was written before.
Persist ==
  /\ pc = "persist"
  /\ \/ /\ written < Len(Files) /\ written' = written + 1 /\ UNCHANGED pc
     \/ /\ written < Len(Files) /\ pc' = "interrupted" /\ UNCHANGED written
     \/ /\ written = Len(Files) /\ pc' = "parsed" /\ UNCHANGED written
  /\ UNCHANGED <<doc, mapping, paper>>

Parse == Convert \/ MapItem \/ Validate \/ Persist

=============================================================================
