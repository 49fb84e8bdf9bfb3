--------------------------- MODULE KnowledgeProofs ---------------------------
(***************************************************************************)
(* Proofs about Knowledge, for every set of documents and every word       *)
(* limit: types, the tree of sections that the mapper builds with its      *)
(* stack of open sections, that no validator refuses what is built, that   *)
(* the chunks show every text of the document, whole and once, that in a   *)
(* single column they keep its order, that none is longer than the limit   *)
(* or shorter than the floor without need, and that what a text mentions   *)
(* is linked from a chunk that shows it.                                   *)
(***************************************************************************)
EXTENDS Knowledge, ParagraphProofs

\* What the types say of a section and of a placed item.
Section   == [parent: Nat, level: Nat \ {0}, item: DOMAIN doc]
Placement == [item: DOMAIN doc, section: {0} \cup DOMAIN sections]

-----------------------------------------------------------------------------
(* Types.                                                                  *)

\* A set of natural numbers that is not empty has a first element.
LEMMA FirstExists ==
  ASSUME NEW S, S \subseteq Nat, S # {}
  PROVE  /\ First(S) \in S
         /\ \A n \in S : First(S) <= n
<1> DEFINE Lower == {m \in Nat \X Nat : m[1] < m[2]}
<1>1. IsWellFoundedOn(Lower, Nat)
  BY NatLessThanWellFounded, Zenon DEF OpToRel
<1> HIDE DEF Lower
<1>2. PICK x \in S : \A y \in S : <<y, x>> \notin Lower
  BY <1>1, WFMin
<1>3. ASSUME NEW y \in S
      PROVE  x <= y
  <2>1. \A p \in Nat \X Nat : p \notin Lower => ~(p[1] < p[2])
    BY Zenon DEF Lower
  <2>2. <<y, x>> \in Nat \X Nat
    OBVIOUS
  <2>3. ~(<<y, x>>[1] < <<y, x>>[2])
    BY <1>2, <2>1, <2>2, Zenon
  <2>. QED
    BY <2>3, SMT
<1>. QED
  BY <1>3, Zenon DEF First

\* What is known of an item of the document.
LEMMA ItemsHaveFields ==
  ASSUME TypeOK
  PROVE  \A i \in DOMAIN doc : doc[i].level \in Nat
<1>1. \A i \in DOMAIN doc : doc[i] \in Item
  BY DEF TypeOK
<1>2. \A item \in Item : item.level \in Nat
  BY DEF Item
<1>. QED
  BY <1>1, <1>2

\* The title is the name of an item, if there is one.
LEMMA TitleIsAName ==
  ASSUME TypeOK
  PROVE  ExtractedTitle \in Names
<1>1. ASSUME NEW kind, ItemsOf(kind) # {}
      PROVE  First(ItemsOf(kind)) \in DOMAIN doc
  <2>1. ItemsOf(kind) \subseteq DOMAIN doc /\ ItemsOf(kind) \subseteq Nat
    BY DEF TypeOK, ItemsOf
  <2>2. First(ItemsOf(kind)) \in ItemsOf(kind)
    BY <1>1, <2>1, FirstExists
  <2>. QED
    BY <2>1, <2>2
<1>. QED
  BY <1>1 DEF ExtractedTitle, Names

\* A heading that is not blank stands for an item with a level.
LEMMA HeadingHasLevel ==
  ASSUME TypeOK, Mapping
  PROVE  /\ at \in DOMAIN doc
         /\ at + 1 \in 1..(Len(doc) + 1)
         /\ HeadingLevel \in Nat \ {0}
<1>1. at \in DOMAIN doc /\ at + 1 \in 1..(Len(doc) + 1)
  BY DEF TypeOK, Mapping
<1>2. doc[at].level \in Nat
  BY <1>1, ItemsHaveFields
<1>. QED
  BY <1>1, <1>2 DEF HeadingLevel

\* The current section is the paper or one of its sections.
LEMMA CurrentSectionExists ==
  ASSUME TypeOK
  PROVE  /\ CurrentSection \in {0} \cup DOMAIN sections
         /\ CurrentSection \in Nat
         /\ DOMAIN sections = 1..Len(sections)
<1>1. DOMAIN sections = 1..Len(sections) /\ Len(sections) \in Nat
  BY DEF TypeOK
<1>2. stack # <<>> => stack[Len(stack)] \in DOMAIN sections
  BY DEF TypeOK
<1>. QED
  BY <1>1, <1>2 DEF CurrentSection, Last

\* A step of the mapper keeps the types.
LEMMA MapItemKeepsTypes ==
  ASSUME TypeOK, MapItem
  PROVE  TypeOK'
<1>. USE CurrentSectionExists DEF TypeOK, Names, paper, mapping
<1>1. CASE SkipItem
  BY <1>1, HeadingHasLevel DEF SkipItem
<1>2. CASE StrayHeading
  BY <1>2, HeadingHasLevel DEF StrayHeading, Heading
<1>3. CASE SpecialHeading
  BY <1>3, HeadingHasLevel DEF SpecialHeading, Heading, IsSpecial
<1>4. CASE CloseSection
  <2>1. stack' = SubSeq(stack, 1, Len(stack) - 1)
    BY <1>4 DEF CloseSection, Front
  <2>2. Len(stack) \in Nat /\ \A k \in 1..(Len(stack) - 1) : stack[k] \in DOMAIN sections
    <3>1. stack \in Seq(DOMAIN sections)
      BY DEF TypeOK
    <3>. HIDE DEF TypeOK
    <3>. QED
      BY <3>1, LenProperties
  <2> DEFINE open == SubSeq(stack, 1, Len(stack) - 1)
  <2>3. open \in Seq(DOMAIN sections)
    <3>. HIDE DEF TypeOK
    <3>. QED
      BY <2>2, SubSeqProperties
  <2>4. stack' \in Seq(DOMAIN sections)
    BY <2>1, <2>3
  <2>. QED
    BY <1>4, <2>4 DEF CloseSection
<1>5. CASE OpenSection
  <2>1. [parent |-> CurrentSection, level |-> HeadingLevel, item |-> at] \in Section
    BY <1>5, HeadingHasLevel DEF OpenSection, NewSection, Heading, Section
  <2>2. /\ sections \in Seq(Section) /\ sections' \in Seq(Section)
        /\ Len(sections') = Len(sections) + 1
    <3> DEFINE new == [parent |-> CurrentSection, level |-> HeadingLevel, item |-> at]
    <3>1. sections \in Seq(Section) /\ sections' = Append(sections, new)
      BY <1>5 DEF OpenSection, Section
    <3>. HIDE DEF TypeOK, new
    <3>2. new \in Section
      BY <2>1 DEF new
    <3>. QED
      BY <3>1, <3>2, AppendProperties
  <2>3. DOMAIN sections \subseteq DOMAIN sections' /\ Len(sections') \in DOMAIN sections'
    <3>. HIDE DEF TypeOK
    <3>1. /\ Len(sections) \in Nat
          /\ DOMAIN sections = 1..Len(sections) /\ DOMAIN sections' = 1..Len(sections')
      BY <2>2, LenProperties
    <3>. QED
      BY <2>2, <3>1
  <2>4. stack' \in Seq(DOMAIN sections')
    BY <1>5, <2>3, SeqMonotonic, AppendProperties DEF OpenSection
  <2>5. placed' \in Seq(Placement')
    <3>1. placed \in Seq(Placement) /\ Placement \subseteq Placement' /\ placed' = placed
      BY <1>5, <2>3 DEF OpenSection, Placement
    <3>. QED
      BY <3>1, SeqMonotonic
  <2>6. at' \in 1..(Len(doc) + 1)
    BY <1>5, HeadingHasLevel DEF OpenSection, NewSection, Heading
  <2>. QED
    BY <1>5, <2>2, <2>4, <2>5, <2>6 DEF OpenSection, Section, Placement
<1>6. CASE AbstractText
  <2>1. abstract' \in Seq(DOMAIN doc)
    BY <1>6, HeadingHasLevel, AppendProperties DEF AbstractText, Text
  <2>. QED
    BY <1>6, <2>1, HeadingHasLevel DEF AbstractText, Text
<1>7. CASE ReferenceText
  <2>1. bibliography' \in Seq(DOMAIN doc)
    BY <1>7, HeadingHasLevel, AppendProperties DEF ReferenceText, Text
  <2>. QED
    BY <1>7, <2>1, HeadingHasLevel DEF ReferenceText, Text
<1>8. CASE Place
  <2>1. Mapping
    BY <1>8 DEF Place, Text
  <2>2. [item |-> at, section |-> CurrentSection] \in Placement
    BY <2>1, HeadingHasLevel DEF Placement
  <2>3. placed' \in Seq(Placement)
    BY <1>8, <2>2, AppendProperties DEF Place, Placement
  <2>. QED
    BY <1>8, <2>1, <2>3, HeadingHasLevel DEF Place, Placement
<1>. QED
  BY <1>1, <1>2, <1>3, <1>4, <1>5, <1>6, <1>7, <1>8 DEF MapItem

\* So does every other step.
LEMMA StepKeepsTypes ==
  ASSUME TypeOK, [Next]_vars
  PROVE  TypeOK'
<1>1. CASE MapItem
  BY <1>1, MapItemKeepsTypes
<1>2. CASE Convert
  BY <1>2, TitleIsAName DEF Convert, TypeOK, Names, Calls, paper, mapping
<1>3. CASE Validate
  BY <1>3 DEF Validate, TypeOK, Names, Calls, paper, mapping
<1>6. CASE Persist
  <2>1. /\ UNCHANGED <<doc, at, stack, title, sections, placed, abstract, bibliography, special,
                       specialLevel>>
        /\ pc' \in Calls
    BY <1>6 DEF Persist, TypeOK, Calls, paper, mapping
  <2>2. written' \in Nat
    BY <1>6 DEF Persist, TypeOK
  <2>. QED
    BY <2>1, <2>2 DEF TypeOK, Names
<1>4. CASE Build
  BY <1>4 DEF Build, StartBuild, TakeParagraph, TakeVisual, FinishWalk, Detect, Check, TypeOK,
     Names, Calls, paper, mapping
<1>5. CASE UNCHANGED vars
  BY <1>5 DEF vars, parseVars, TypeOK, Names
<1>. QED
  BY <1>1, <1>2, <1>3, <1>4, <1>5, <1>6 DEF Next, Parse

\* Every entity of the paper is an item of the document, every section it names
\* a section of the paper, whatever Docling returns (PaperParsing, TypeOK).
THEOREM TypeCorrect == Spec => []TypeOK
<1>1. ASSUME Init
      PROVE  TypeOK
  <2>1. doc \in Seq(Item) /\ Len(doc) \in Nat
    BY <1>1, DocumentsAreSequences, LenProperties DEF Init, ParseInit
  <2>2. pc \in Calls /\ title \in Names /\ special \in {"none", "abstract", "references"}
    BY <1>1 DEF Init, ParseInit, Calls, Names
  <2>3. /\ sections = <<>> /\ stack = <<>> /\ placed = <<>>
        /\ abstract = <<>> /\ bibliography = <<>> /\ at = 1 /\ specialLevel = 0 /\ written = 0
    BY <1>1 DEF Init, ParseInit
  <2>. QED
    BY <2>1, <2>2, <2>3, EmptySeq DEF TypeOK
<1>. QED
  BY <1>1, StepKeepsTypes, PTL DEF Spec

-----------------------------------------------------------------------------
(* The tree of sections.                                                   *)

\* How deep the heading of a section is.
Level(s) == sections[s].level

\* The open sections were opened one in the other.
OpenAreOrdered ==
  \A j, k \in DOMAIN stack : j < k => stack[j] < stack[k] /\ Level(stack[j]) < Level(stack[k])

\* What was closed between two open sections is of no higher rank than the second.
ClosedBetween ==
  \A k \in DOMAIN stack : \A s \in 1..(stack[k] - 1) :
    (k = 1 \/ stack[k - 1] < s) => Level(stack[k]) <= Level(s)

\* Nothing was closed after the current section, but while room is made for a new
\* section: then what was closed is of no higher rank than that.
ClosedLast ==
  \A s \in DOMAIN sections : CurrentSection < s => NewSection /\ HeadingLevel <= Level(s)

\* The inductive invariant of the walk over the items.
TreeInvariant == SectionsAreNested /\ OpenAreOrdered /\ ClosedBetween /\ ClosedLast

\* What is known of the sections and of the open ones.
LEMMA TreeTypes ==
  ASSUME TypeOK
  PROVE  /\ Len(sections) \in Nat /\ DOMAIN sections = 1..Len(sections)
         /\ Len(stack) \in Nat /\ DOMAIN stack = 1..Len(stack)
         /\ \A s \in DOMAIN sections : Level(s) \in Nat /\ sections[s].parent \in Nat
         /\ \A k \in DOMAIN stack : stack[k] \in DOMAIN sections
         /\ CurrentSection = IF Len(stack) = 0 THEN 0 ELSE stack[Len(stack)]
<1>1. sections \in Seq(Section) /\ stack \in Seq(DOMAIN sections)
  BY DEF TypeOK, Section
<1>2. /\ Len(sections) \in Nat /\ DOMAIN sections = 1..Len(sections)
      /\ Len(stack) \in Nat /\ DOMAIN stack = 1..Len(stack)
      /\ \A k \in DOMAIN stack : stack[k] \in DOMAIN sections
      /\ stack = <<>> <=> Len(stack) = 0
  BY <1>1, LenProperties, EmptySeq, ElementOfSeq
<1>3. \A s \in DOMAIN sections : sections[s] \in Section
  BY <1>1, <1>2, ElementOfSeq
<1>. QED
  BY <1>2, <1>3 DEF Section, Level, CurrentSection, Last

\* Closing a section keeps the tree: what lies between the section below it on
\* the stack and the new one is that section, what was closed before it and
\* what was closed after it.
LEMMA CloseKeepsTree ==
  ASSUME TypeOK, TreeInvariant, CloseSection
  PROVE  TreeInvariant'
<1>1. /\ sections' = sections /\ UNCHANGED <<doc, pc, at, title, special, specialLevel>>
      /\ NewSection /\ stack # <<>> /\ HeadingLevel <= Level(CurrentSection)
  BY HeadingHasLevel, CurrentSectionExists, TreeTypes
  DEF CloseSection, IsOpenAt, Level, paper, NewSection, Heading
<1>2. /\ Len(stack) \in Nat \ {0} /\ DOMAIN stack' = 1..(Len(stack) - 1)
      /\ \A k \in 1..(Len(stack) - 1) : stack'[k] = stack[k]
      /\ CurrentSection' = IF Len(stack) = 1 THEN 0 ELSE stack[Len(stack) - 1]
  <2>1. stack \in Seq(DOMAIN sections) /\ stack' = Front(stack)
    BY DEF TypeOK, CloseSection
  <2>2. /\ Front(stack) \in Seq(DOMAIN sections)
        /\ Len(stack) \in Nat \ {0} /\ Len(Front(stack)) = Len(stack) - 1
        /\ DOMAIN Front(stack) = 1..(Len(stack) - 1)
        /\ \A k \in 1..(Len(stack) - 1) : Front(stack)[k] = stack[k]
    BY <1>1, <2>1, FrontOfSeq
  <2>3. Front(stack) = <<>> <=> Len(stack) = 1
    BY <2>2, EmptySeq
  <2>. QED
    BY <2>1, <2>2, <2>3 DEF CurrentSection, Last
<1>4. SectionsAreNested'
  BY <1>1 DEF TreeInvariant, SectionsAreNested
<1>3. \A k \in DOMAIN stack' : k \in DOMAIN stack /\ k - 1 < Len(stack) - 1 /\ stack'[k] = stack[k]
  BY <1>2, TreeTypes
<1>5. OpenAreOrdered'
  BY <1>1, <1>3 DEF TreeInvariant, OpenAreOrdered, Level
<1>6. ClosedBetween'
  <2>1. SUFFICES ASSUME NEW k \in DOMAIN stack', NEW s \in 1..(stack[k] - 1),
                        k = 1 \/ stack'[k - 1] < s
                 PROVE  Level(stack[k]) <= Level(s)
    BY <1>1, <1>3 DEF ClosedBetween, Level
  <2>2. k = 1 \/ stack[k - 1] < s
    BY <1>2, <2>1
  <2>. QED
    BY <1>3, <2>2 DEF TreeInvariant, ClosedBetween
<1>7. ClosedLast'
  <2>1. NewSection' /\ HeadingLevel' = HeadingLevel
    BY <1>1 DEF NewSection, Heading, Mapping, IsStray, IsSpecial, IsTheTitle, ReadsLikeTheTitle,
       HeadingLevel
  <2>2. SUFFICES ASSUME NEW s \in DOMAIN sections, CurrentSection' < s
                 PROVE  HeadingLevel <= Level(s)
    BY <1>1, <2>1 DEF ClosedLast, Level
  <2> DEFINE last == Len(stack)
  <2>3. last \in DOMAIN stack /\ CurrentSection = stack[last]
    BY <1>2, TreeTypes
  <2>4. CASE s < stack[last]
    <3>1. last = 1 \/ stack[last - 1] < s
      BY <1>2, <2>2
    <3>2. s \in 1..(stack[last] - 1)
      BY <2>3, <2>4, TreeTypes
    <3>3. Level(stack[last]) <= Level(s)
      BY <2>3, <3>1, <3>2 DEF TreeInvariant, ClosedBetween
    <3>4. HeadingLevel \in Nat /\ Level(s) \in Nat /\ Level(stack[last]) \in Nat
      BY <1>1, <2>3, HeadingHasLevel, TreeTypes DEF NewSection, Heading
    <3>. QED
      BY <1>1, <2>3, <3>3, <3>4
  <2>5. CASE s = stack[last]
    BY <1>1, <2>3, <2>5
  <2>6. CASE stack[last] < s
    BY <2>3, <2>6 DEF TreeInvariant, ClosedLast
  <2>. QED
    BY <2>3, <2>4, <2>5, <2>6, TreeTypes
<1>. QED
  BY <1>4, <1>5, <1>6, <1>7 DEF TreeInvariant

\* Opening a section keeps the tree: what is open is of a higher rank, and what
\* was closed since is not.
LEMMA OpenKeepsTree ==
  ASSUME TypeOK, TreeInvariant, OpenSection
  PROVE  TreeInvariant'
<1> DEFINE N == Len(sections)
           D == Len(stack)
           new == [parent |-> CurrentSection, level |-> HeadingLevel, item |-> at]
<1>1. /\ N \in Nat /\ D \in Nat
      /\ DOMAIN sections = 1..N /\ DOMAIN stack = 1..D
      /\ \A s \in 1..N : Level(s) \in Nat
      /\ \A k \in 1..D : stack[k] \in 1..N
      /\ CurrentSection = IF D = 0 THEN 0 ELSE stack[D]
  BY TreeTypes
<1>2. /\ HeadingLevel \in Nat \ {0} /\ at \in DOMAIN doc
      /\ D # 0 => Level(stack[D]) < HeadingLevel
  <2>1. HeadingLevel \in Nat \ {0} /\ at \in DOMAIN doc
    BY HeadingHasLevel DEF OpenSection, NewSection, Heading
  <2>2. stack = <<>> \/ ~(Level(CurrentSection) >= HeadingLevel)
    BY DEF OpenSection, IsOpenAt, Level
  <2>3. stack \in Seq(DOMAIN sections)
    BY DEF TypeOK
  <2>4. stack = <<>> => D = 0
    BY <2>3, EmptySeq
  <2>5. ASSUME D # 0
        PROVE  Level(stack[D]) < HeadingLevel
    <3>1. CurrentSection = stack[D] /\ D \in 1..D
      BY <1>1, <2>5
    <3>2. ~(Level(stack[D]) >= HeadingLevel)
      BY <2>2, <2>4, <2>5, <3>1
    <3>3. Level(stack[D]) \in Nat
      BY <1>1, <3>1
    <3>. QED
      BY <2>1, <3>2, <3>3
  <2>. QED
    BY <2>1, <2>5
<1>3. /\ DOMAIN sections' = 1..(N + 1)
      /\ \A s \in 1..N : sections'[s] = sections[s]
      /\ sections'[N + 1] = new
      /\ Len(sections') = N + 1
  <2>1. sections \in Seq(Section) /\ sections' = Append(sections, new)
    BY DEF TypeOK, Section, OpenSection
  <2>2. new \in Section
    BY <1>1, <1>2 DEF Section
  <2>. HIDE DEF new
  <2>. QED
    BY <1>1, <2>1, <2>2, AppendProperties, LenProperties
<1>4. /\ DOMAIN stack' = 1..(D + 1)
      /\ \A k \in 1..D : stack'[k] = stack[k]
      /\ stack'[D + 1] = N + 1
      /\ CurrentSection' = N + 1
  <2>1. stack \in Seq(1..(N + 1)) /\ stack' = Append(stack, N + 1) /\ N + 1 \in 1..(N + 1)
    <3>1. stack \in Seq(1..N) /\ stack' = Append(stack, N + 1)
      BY <1>1, <1>3 DEF TypeOK, OpenSection
    <3>2. 1..N \subseteq 1..(N + 1) /\ N + 1 \in 1..(N + 1)
      BY <1>1
    <3>. QED
      BY <3>1, <3>2, SeqMonotonic
  <2>2. /\ stack' \in Seq(1..(N + 1)) /\ Len(stack') = D + 1
        /\ \A k \in 1..D : stack'[k] = stack[k]
        /\ stack'[D + 1] = N + 1
    BY <2>1, AppendProperties
  <2>3. stack' # <<>> /\ DOMAIN stack' = 1..(D + 1)
    BY <1>1, <2>2, EmptySeq, LenProperties
  <2>. QED
    BY <2>2, <2>3 DEF CurrentSection, Last
<1>5. /\ \A s \in 1..N : sections'[s].level = Level(s)
      /\ sections'[N + 1].level = HeadingLevel
  BY <1>3 DEF Level
<1>6. \A s \in 1..N : CurrentSection < s => HeadingLevel <= Level(s)
  BY <1>1 DEF TreeInvariant, ClosedLast
<1>7. SectionsAreNested'
  <2>1. SUFFICES ASSUME NEW s \in 1..(N + 1)
                 PROVE  /\ \/ sections'[s].parent = 0
                           \/ /\ sections'[s].parent \in 1..(s - 1)
                              /\ sections'[sections'[s].parent].level < sections'[s].level
                        /\ \A p \in 1..(s - 1) : sections'[p].level < sections'[s].level =>
                             p <= sections'[s].parent
    BY <1>3 DEF SectionsAreNested
  <2>2. CASE s \in 1..N
    <3>1. \A p \in 1..(s - 1) : p \in 1..N
      BY <1>1, <2>2
    <3>2. /\ \/ sections[s].parent = 0
             \/ /\ sections[s].parent \in 1..(s - 1)
                /\ sections[sections[s].parent].level < sections[s].level
          /\ \A p \in 1..(s - 1) : sections[p].level < sections[s].level => p <= sections[s].parent
      BY <1>1, <2>2 DEF TreeInvariant, SectionsAreNested
    <3>. QED
      BY <1>3, <2>2, <3>1, <3>2
  <2>3. CASE s = N + 1
    <3>1. sections'[s].parent = CurrentSection /\ sections'[s].level = HeadingLevel
      BY <1>3, <2>3
    <3>2. \A p \in 1..(s - 1) : p \in 1..N /\ sections'[p].level = Level(p)
      BY <1>1, <1>3, <2>3 DEF Level
    <3>3. CurrentSection = 0 \/ (CurrentSection \in 1..(s - 1) /\ Level(CurrentSection) < HeadingLevel)
      BY <1>1, <1>2, <2>3
    <3>4. \A p \in 1..N : Level(p) < HeadingLevel => p <= CurrentSection
      <4>1. CurrentSection \in Nat
        BY <1>1
      <4>. QED
        BY <1>1, <1>2, <1>6, <4>1
    <3>. QED
      BY <3>1, <3>2, <3>3, <3>4
  <2>. QED
    BY <1>1, <2>1, <2>2, <2>3
<1>8. OpenAreOrdered'
  <2>1. SUFFICES ASSUME NEW j \in 1..(D + 1), NEW k \in 1..(D + 1), j < k
                 PROVE  /\ stack'[j] < stack'[k]
                        /\ sections'[stack'[j]].level < sections'[stack'[k]].level
    BY <1>4 DEF OpenAreOrdered, Level
  <2>2. j \in 1..D /\ stack'[j] = stack[j] /\ stack[j] \in 1..N /\ Level(stack[j]) \in Nat
    <3>1. j \in 1..D
      BY <1>1, <2>1
    <3>. QED
      BY <1>1, <1>4, <3>1
  <2>3. CASE k \in 1..D
    <3>1. stack'[k] = stack[k] /\ stack[k] \in 1..N
      BY <1>1, <1>4, <2>3
    <3>2. stack[j] < stack[k] /\ Level(stack[j]) < Level(stack[k])
      BY <1>1, <2>1, <2>2, <2>3 DEF TreeInvariant, OpenAreOrdered
    <3>. QED
      BY <1>5, <2>2, <3>1, <3>2
  <2>4. CASE k = D + 1
    <3>1. D \in 1..D /\ stack[D] \in 1..N /\ Level(stack[D]) \in Nat
      BY <1>1, <2>2
    <3>2. Level(stack[j]) <= Level(stack[D])
      <4>1. CASE j = D
        BY <3>1, <4>1
      <4>2. CASE j < D
        <5>1. Level(stack[j]) < Level(stack[D])
          BY <1>1, <2>2, <3>1, <4>2 DEF TreeInvariant, OpenAreOrdered
        <5>. QED
          BY <2>2, <3>1, <5>1
      <4>. QED
        BY <2>2, <3>1, <4>1, <4>2
    <3>3. Level(stack[j]) < HeadingLevel
      BY <1>2, <2>2, <3>1, <3>2
    <3>4. stack'[k] = N + 1 /\ stack[j] < N + 1
      BY <1>1, <1>4, <2>2, <2>4
    <3>. QED
      BY <1>5, <2>2, <3>3, <3>4
  <2>. QED
    BY <1>1, <2>3, <2>4
<1>9. ClosedBetween'
  <2>1. SUFFICES ASSUME NEW k \in 1..(D + 1), NEW s \in 1..(stack'[k] - 1),
                        k = 1 \/ stack'[k - 1] < s
                 PROVE  sections'[stack'[k]].level <= sections'[s].level
    BY <1>4 DEF ClosedBetween, Level
  <2>2. CASE k \in 1..D
    <3>1. stack'[k] = stack[k] /\ stack[k] \in 1..N
      BY <1>1, <1>4, <2>2
    <3>4. k = 1 \/ stack'[k - 1] = stack[k - 1]
      <4>1. k = 1 \/ k - 1 \in 1..D
        BY <1>1, <2>2
      <4>. QED
        BY <1>4, <4>1
    <3>2. Level(stack[k]) <= Level(s)
      BY <1>1, <2>1, <2>2, <3>1, <3>4 DEF TreeInvariant, ClosedBetween
    <3>3. s \in 1..N
      BY <1>1, <3>1
    <3>. QED
      BY <1>3, <3>1, <3>2, <3>3 DEF Level
  <2>3. CASE k = D + 1
    <3>1. s \in 1..N /\ sections'[s].level = Level(s) /\ sections'[stack'[k]].level = HeadingLevel
      BY <1>1, <1>3, <1>4, <2>3 DEF Level
    <3>2. CurrentSection < s
      BY <1>1, <1>4, <2>1, <2>3, <3>1
    <3>. QED
      BY <1>6, <3>1, <3>2
  <2>. QED
    BY <1>1, <2>2, <2>3
<1>10. ClosedLast'
  BY <1>1, <1>3, <1>4 DEF ClosedLast
<1>. QED
  BY <1>7, <1>8, <1>9, <1>10 DEF TreeInvariant

\* A step that is about no new section leaves the tree as it is.
LEMMA OthersKeepTree ==
  ASSUME TreeInvariant, UNCHANGED <<sections, stack>>, ~NewSection
  PROVE  TreeInvariant'
<1>1. SectionsAreNested'
  BY DEF TreeInvariant, SectionsAreNested
<1>2. OpenAreOrdered'
  BY DEF TreeInvariant, OpenAreOrdered, Level
<1>3. ClosedBetween'
  BY DEF TreeInvariant, ClosedBetween, Level
<1>4. ClosedLast'
  BY DEF TreeInvariant, ClosedLast, CurrentSection
<1>. QED
  BY <1>1, <1>2, <1>3, <1>4 DEF TreeInvariant

\* So every step keeps the tree.
LEMMA StepKeepsTree ==
  ASSUME TypeOK, TreeInvariant, [Next]_vars
  PROVE  TreeInvariant'
<1>1. CASE CloseSection
  BY <1>1, CloseKeepsTree
<1>2. CASE OpenSection
  BY <1>2, OpenKeepsTree
<1>3. CASE SkipItem
  BY <1>3, OthersKeepTree DEF SkipItem, NewSection, Heading, paper
<1>4. CASE StrayHeading
  BY <1>4, OthersKeepTree DEF StrayHeading, NewSection, paper
<1>5. CASE SpecialHeading
  BY <1>5, OthersKeepTree DEF SpecialHeading, NewSection, paper
<1>6. CASE AbstractText
  BY <1>6, OthersKeepTree DEF AbstractText, Text, NewSection, Heading
<1>7. CASE ReferenceText
  BY <1>7, OthersKeepTree DEF ReferenceText, Text, NewSection, Heading
<1>8. CASE Place
  BY <1>8, OthersKeepTree DEF Place, Text, NewSection, Heading
<1>9. CASE Convert
  BY <1>9, OthersKeepTree DEF Convert, NewSection, Heading, Mapping, mapping
<1>10. CASE Validate
  <2>1. ~Mapping
    BY <1>10 DEF Validate, Mapping, TypeOK
  <2>. QED
    BY <1>10, <2>1, OthersKeepTree DEF Validate, NewSection, Heading, mapping, paper
<1>11. CASE Persist
  BY <1>11, OthersKeepTree DEF Persist, NewSection, Heading, Mapping, mapping, paper
<1>12. CASE Build
  <2>1. pc \in {"parsed", "interrupted", "walk", "detect", "check"}
    BY <1>12 DEF Build, StartBuild, TakeParagraph, TakeVisual, Walking, FinishWalk, Detect, Check
  <2>2. UNCHANGED <<sections, stack>>
    BY <1>12 DEF Build, StartBuild, TakeParagraph, TakeVisual, FinishWalk, Detect, Check, paper,
       mapping
  <2>. QED
    BY <2>1, <2>2, OthersKeepTree DEF NewSection, Heading, Mapping
<1>13. CASE UNCHANGED vars
  BY <1>13 DEF vars, parseVars, TreeInvariant, SectionsAreNested, OpenAreOrdered, ClosedBetween,
     ClosedLast, CurrentSection, Level, NewSection, Heading, Mapping, HeadingLevel, IsStray, IsSpecial,
     IsTheTitle, ReadsLikeTheTitle
<1>. QED
  BY <1>1, <1>2, <1>3, <1>4, <1>5, <1>6, <1>7, <1>8, <1>9, <1>10, <1>11, <1>12, <1>13
  DEF Next, Parse, MapItem

\* A section of the paper belongs to the nearest section before it that is of a
\* higher rank, whatever headings Docling returns (PaperParsing, MapItem).
THEOREM SectionsNested == Spec => []SectionsAreNested
<1>1. Init => TreeInvariant
  <2>1. SUFFICES ASSUME Init
                 PROVE  TreeInvariant
    OBVIOUS
  <2>2. sections = <<>> /\ stack = <<>>
    BY <2>1 DEF Init, ParseInit
  <2>3. DOMAIN sections = {} /\ DOMAIN stack = {}
    BY <2>2, EmptySeq, LenProperties
  <2>. QED
    BY <2>3 DEF TreeInvariant, SectionsAreNested, OpenAreOrdered, ClosedBetween, ClosedLast
<1>2. TypeOK /\ TreeInvariant /\ [Next]_vars => TreeInvariant'
  BY StepKeepsTree
<1>3. TreeInvariant => SectionsAreNested
  BY DEF TreeInvariant
<1>. QED
  BY <1>1, <1>2, <1>3, TypeCorrect, PTL DEF Spec

\* In such a tree every section has a parent, and no section is above itself: of
\* any sections the first has its parent outside of them.
LEMMA NestedIsValid ==
  ASSUME TypeOK, SectionsAreNested
  PROVE  HierarchyIsValid
<1>1. /\ DOMAIN sections \subseteq Nat
      /\ \A s \in DOMAIN sections :
           \/ sections[s].parent = 0
           \/ sections[s].parent \in 1..(s - 1)
  BY TreeTypes DEF SectionsAreNested
<1>2. \A s \in DOMAIN sections : sections[s].parent \in {0} \cup DOMAIN sections
  <2>1. \A s \in DOMAIN sections : 1..(s - 1) \subseteq DOMAIN sections
    BY TreeTypes
  <2>. QED
    BY <1>1, <2>1
<1>3. ASSUME NEW S \in (SUBSET DOMAIN sections) \ {{}}
      PROVE  \E s \in S : sections[s].parent \notin S
  <2>1. S \subseteq Nat /\ S # {} /\ S \subseteq DOMAIN sections
    BY <1>1, <1>3
  <2>2. First(S) \in S /\ \A n \in S : First(S) <= n
    BY <2>1, FirstExists
  <2>3. sections[First(S)].parent = 0 \/ sections[First(S)].parent \in 1..(First(S) - 1)
    BY <1>1, <2>1, <2>2
  <2>4. 0 \notin S
    BY <2>1, TreeTypes
  <2>5. First(S) \in Nat /\ \A n \in 1..(First(S) - 1) : n \notin S
    <3>1. First(S) \in Nat
      BY <2>1, <2>2
    <3>2. \A n \in 1..(First(S) - 1) : n \in Nat /\ ~(First(S) <= n)
      BY <3>1
    <3>. QED
      BY <2>2, <3>1, <3>2
  <2>. QED
    BY <2>2, <2>3, <2>4, <2>5
<1>. QED
  BY <1>2, <1>3 DEF HierarchyIsValid

\* The hierarchy validator refuses no paper that the mapper makes
\* (paper_validator.py): what it would stop cannot come about.
THEOREM HierarchyAccepted == Spec => [](pc # "invalid")
<1>1. Init => pc # "invalid"
  BY DEF Init, ParseInit
<1>2. TypeOK /\ SectionsAreNested /\ pc # "invalid" /\ [Next]_vars => (pc # "invalid")'
  <2>. SUFFICES ASSUME TypeOK, SectionsAreNested, pc # "invalid", [Next]_vars
                PROVE  pc' # "invalid"
    OBVIOUS
  <2>1. CASE Validate
    BY <2>1, NestedIsValid DEF Validate
  <2>2. CASE Convert
    BY <2>2 DEF Convert
  <2>3. CASE MapItem
    BY <2>3 DEF MapItem, SkipItem, StrayHeading, SpecialHeading, CloseSection, OpenSection,
       AbstractText, ReferenceText, Place
  <2>4. CASE Persist
    BY <2>4 DEF Persist
  <2>5. CASE Build
    BY <2>5 DEF Build, StartBuild, TakeParagraph, TakeVisual, Walking, FinishWalk, Detect, Check
  <2>6. CASE UNCHANGED vars
    BY <2>6 DEF vars, parseVars
  <2>. QED
    BY <2>1, <2>2, <2>3, <2>4, <2>5, <2>6 DEF Next, Parse
<1>. QED
  BY <1>1, <1>2, TypeCorrect, SectionsNested, PTL DEF Spec

-----------------------------------------------------------------------------
(* The order of the content.                                               *)

\* What the mapper places: paragraphs that are not blank, tables and figures.
Content ==
  {i \in DOMAIN doc : /\ doc[i].kind \in {"text", "table", "picture"}
                      /\ doc[i].kind = "text" => doc[i].text # <<>>}

\* Nothing else is placed.
PlacedAreContent == PlacedItems \subseteq Content

\* Content has a place on its page and a rank among what stands there.
LEMMA ContentHasPlaces ==
  ASSUME TypeOK, NEW i \in Content
  PROVE  /\ i \in Nat /\ i \in DOMAIN doc /\ doc[i].position \in Nat /\ Rank(doc[i].kind) \in Nat
         /\ doc[i].text \in Seq(Piece) /\ doc[i].kind \in {"text", "table", "picture"}
<1>1. i \in DOMAIN doc /\ doc[i] \in Item /\ i \in Nat /\ doc[i].kind \in {"text", "table", "picture"}
  BY DEF TypeOK, Content
<1>2. doc[i].position \in Nat /\ doc[i].text \in Seq(Piece)
  BY <1>1 DEF Item
<1>3. Rank(doc[i].kind) \in Nat
  BY <1>1 DEF Rank
<1>. QED
  BY <1>1, <1>2, <1>3

\* The keys of the sort, component by component.
Boxless(i) == IF doc[i].position = 0 THEN 1 ELSE 0

\* What comes before what, spelled out.
LEMMA ComesBeforeIs ==
  ASSUME NEW i, NEW j
  PROVE  ComesBefore(i, j) <=>
           \/ Boxless(i) < Boxless(j)
           \/ /\ Boxless(i) = Boxless(j)
              /\ \/ doc[i].position < doc[j].position
                 \/ /\ doc[i].position = doc[j].position
                    /\ \/ Rank(doc[i].kind) < Rank(doc[j].kind)
                       \/ Rank(doc[i].kind) = Rank(doc[j].kind) /\ i < j
<1>. DEFINE a == SortKey(i)
            b == SortKey(j)
<1>1. /\ a[1] = Boxless(i) /\ a[2] = doc[i].position /\ a[3] = Rank(doc[i].kind) /\ a[4] = i
      /\ b[1] = Boxless(j) /\ b[2] = doc[j].position /\ b[3] = Rank(doc[j].kind) /\ b[4] = j
  BY DEF SortKey, Boxless
<1>. HIDE DEF a, b
<1>2. ComesBefore(i, j) <=> \E k \in 1..4 : a[k] < b[k] /\ \A l \in 1..(k - 1) : a[l] = b[l]
  BY DEF ComesBefore, a, b
<1>3. (\E k \in 1..4 : a[k] < b[k] /\ \A l \in 1..(k - 1) : a[l] = b[l]) <=>
        \/ a[1] < b[1]
        \/ a[1] = b[1] /\ a[2] < b[2]
        \/ a[1] = b[1] /\ a[2] = b[2] /\ a[3] < b[3]
        \/ a[1] = b[1] /\ a[2] = b[2] /\ a[3] = b[3] /\ a[4] < b[4]
  <2>1. 1..4 = {1, 2, 3, 4} /\ 1..(1 - 1) = {} /\ 1..(2 - 1) = {1} /\ 1..(3 - 1) = {1, 2}
        /\ 1..(4 - 1) = {1, 2, 3}
    OBVIOUS
  <2>. DEFINE P(k) == a[k] < b[k] /\ \A l \in 1..(k - 1) : a[l] = b[l]
  <2>2. (\E k \in 1..4 : P(k)) <=> P(1) \/ P(2) \/ P(3) \/ P(4)
    <3>. HIDE DEF P
    <3>. QED
      BY <2>1
  <2>3. /\ P(1) <=> a[1] < b[1]
        /\ P(2) <=> a[1] = b[1] /\ a[2] < b[2]
        /\ P(3) <=> a[1] = b[1] /\ a[2] = b[2] /\ a[3] < b[3]
        /\ P(4) <=> a[1] = b[1] /\ a[2] = b[2] /\ a[3] = b[3] /\ a[4] < b[4]
    BY <2>1
  <2>. QED
    BY <2>2, <2>3
<1>. QED
  BY <1>1, <1>2, <1>3

\* What comes before what among the items of a section.
Precedes(s) == {p \in ItemsIn(s) \X ItemsIn(s) : ComesBefore(p[1], p[2])}

\* The items of a section have an order.
LEMMA InPlaceIsInOrder ==
  ASSUME TypeOK, PlacedAreContent, NEW s
  PROVE  InPlace(s) \in Seq(PlacedItems) /\ Lists(InPlace(s), Precedes(s), ItemsIn(s))
<1>. DEFINE S == ItemsIn(s)
            R == Precedes(s)
<1>1. S \subseteq PlacedItems /\ S \subseteq Content /\ S \subseteq DOMAIN doc
  BY DEF ItemsIn, PlacedItems, PlacedAreContent, Content
<1>2. IsFiniteSet(S)
  <2>1. Len(doc) \in Nat /\ DOMAIN doc = 1..Len(doc)
    BY DEF TypeOK
  <2>2. IsFiniteSet(DOMAIN doc)
    BY <2>1, FS_Interval
  <2>. HIDE DEF S
  <2>. QED
    BY <1>1, <2>2, FS_Subset
<1>. HIDE DEF S
<1>3. \A i, j \in S : <<i, j>> \in R <=> ComesBefore(i, j)
  <2>. DEFINE P(i, j) == ComesBefore(i, j)
  <2>. HIDE DEF P
  <2>1. \A i, j \in S : <<i, j>> \in {p \in S \X S : P(p[1], p[2])} <=> P(i, j)
    OBVIOUS
  <2>. QED
    BY <2>1 DEF P, Precedes, S
<1>. HIDE DEF R
<1>4. \A i \in S : /\ i \in Nat /\ doc[i].position \in Nat /\ Rank(doc[i].kind) \in Nat
                   /\ Boxless(i) \in Nat
  BY <1>1, ContentHasPlaces DEF Boxless
<1>5. Orders(R, S)
  <2>1. ASSUME NEW i \in S
        PROVE  <<i, i>> \notin R
    BY <1>3, <1>4, ComesBeforeIs
  <2>2. ASSUME NEW i \in S, NEW j \in S, i # j
        PROVE  <<i, j>> \in R \/ <<j, i>> \in R
    <3>1. /\ i \in Nat /\ doc[i].position \in Nat /\ Rank(doc[i].kind) \in Nat /\ Boxless(i) \in Nat
          /\ j \in Nat /\ doc[j].position \in Nat /\ Rank(doc[j].kind) \in Nat /\ Boxless(j) \in Nat
      BY <1>4
    <3>2. ComesBefore(i, j) \/ ComesBefore(j, i)
      BY <2>2, <3>1, ComesBeforeIs
    <3>. QED
      BY <1>3, <3>2
  <2>3. ASSUME NEW i \in S, NEW j \in S, NEW k \in S, <<i, j>> \in R, <<j, k>> \in R
        PROVE  <<i, k>> \in R
    <3>1. /\ i \in Nat /\ doc[i].position \in Nat /\ Rank(doc[i].kind) \in Nat /\ Boxless(i) \in Nat
          /\ j \in Nat /\ doc[j].position \in Nat /\ Rank(doc[j].kind) \in Nat /\ Boxless(j) \in Nat
          /\ k \in Nat /\ doc[k].position \in Nat /\ Rank(doc[k].kind) \in Nat /\ Boxless(k) \in Nat
      BY <1>4
    <3>2. ComesBefore(i, j) /\ ComesBefore(j, k)
      BY <1>3, <2>3
    <3>3. ComesBefore(i, k)
      BY <3>1, <3>2, ComesBeforeIs
    <3>. QED
      BY <1>3, <3>3
  <2>. QED
    BY <2>1, <2>2, <2>3 DEF Orders
<1>6. \A i \in S : Below(R, S, i) = {j \in S : ComesBefore(j, i)}
  BY <1>3 DEF Below
<1>7. Sorts(InPlace(s), R, S)
  <2>1. ASSUME NEW n \in 1..Cardinality(S)
        PROVE  InPlace(s)[n] \in S /\ Cardinality(Below(R, S, InPlace(s)[n])) = n - 1
    <3>1. S \in SUBSET S
      OBVIOUS
    <3>2. \E i \in S : Cardinality({j \in S : ComesBefore(j, i)}) = n - 1
      <4>1. PICK i \in S : Cardinality(Below(R, S, i)) = n - 1
        BY <1>2, <1>5, <3>1, NthExists
      <4>. QED
        BY <1>6, <4>1
    <3>3. InPlace(s)[n] = CHOOSE i \in S : Cardinality({j \in S : ComesBefore(j, i)}) = n - 1
      BY DEF InPlace, S
    <3>. QED
      BY <1>6, <3>2, <3>3
  <2>2. InPlace(s) \in [1..Cardinality(S) -> S]
    <3>1. \A n \in 1..Cardinality(S) : InPlace(s)[n] \in S
      BY <2>1
    <3>. DEFINE nth(n) == CHOOSE i \in S : Cardinality({j \in S : ComesBefore(j, i)}) = n - 1
    <3>2. InPlace(s) = [n \in 1..Cardinality(S) |-> nth(n)]
      BY DEF InPlace, S
    <3>. HIDE DEF nth
    <3>. QED
      BY <3>1, <3>2
  <2>. QED
    BY <2>1, <2>2 DEF Sorts
<1>8. Lists(InPlace(s), R, S)
  BY <1>2, <1>5, <1>7, SortedIsInOrder
<1>9. InPlace(s) \in Seq(S)
  BY <1>8 DEF Lists
<1>10. InPlace(s) \in Seq(PlacedItems)
  BY <1>1, <1>9, SeqMonotonic
<1>. QED
  BY <1>8, <1>10 DEF R, S

-----------------------------------------------------------------------------

\* The subsections of a section come after it.
LEMMA SubsectionsComeAfter ==
  ASSUME TypeOK, SectionsAreNested, NEW s \in 0..Len(sections)
  PROVE  /\ Subsections(s) \in Seq((s + 1)..Len(sections))
         /\ Len(sections) \in Nat
<1>. DEFINE S == {c \in DOMAIN sections : sections[c].parent = s}
<1>1. Len(sections) \in Nat /\ DOMAIN sections = 1..Len(sections)
  BY TreeTypes
<1>2. ASSUME NEW c \in S
      PROVE  c \in (s + 1)..Len(sections)
  <2>1. sections[c].parent = 0 \/ sections[c].parent \in 1..(c - 1)
    BY DEF SectionsAreNested
  <2>. QED
    BY <1>1, <2>1
<1>3. S \subseteq Nat /\ IsFiniteSet(S)
  <2>1. IsFiniteSet(1..Len(sections)) /\ S \in SUBSET (1..Len(sections))
    BY <1>1, FS_Interval
  <2>2. IsFiniteSet(S)
    <3>. HIDE DEF S
    <3>. QED
      BY <2>1, FS_Subset
  <2>. QED
    BY <1>1, <2>2
<1>4. Ascending(S) \in Seq(S)
  <2>. HIDE DEF S
  <2>. QED
    BY <1>3, AscendingIsInOrder
<1>5. Subsections(s) \in Seq(S)
  BY <1>4 DEF Subsections
<1>6. S \subseteq (s + 1)..Len(sections)
  BY <1>2
<1>. HIDE DEF S
<1>. QED
  BY <1>1, <1>5, <1>6, SeqMonotonic

\* What the visit of s appends, when f is what the visits of its subsections append.
Visit(f, s) ==
  <<s>> \o FlattenSeq([k \in DOMAIN Subsections(s) |-> f[Subsections(s)[k]]])

\* A visit lists sections, if the visits of the later sections do.
LEMMA VisitIsSeq ==
  ASSUME TypeOK, SectionsAreNested, NEW s \in 0..Len(sections), NEW f,
         \A c \in (s + 1)..Len(sections) : f[c] \in Seq(0..Len(sections))
  PROVE  Visit(f, s) \in Seq(0..Len(sections))
<1>. DEFINE N == 0..Len(sections)
            below == Subsections(s)
            parts == [k \in DOMAIN below |-> f[below[k]]]
<1>1. below \in Seq((s + 1)..Len(sections))
  BY SubsectionsComeAfter
<1>2. parts \in Seq(Seq(N))
  <2>. HIDE DEF N, below
  <2>1. Len(below) \in Nat /\ DOMAIN below = 1..Len(below)
        /\ \A k \in 1..Len(below) : f[below[k]] \in Seq(N)
    BY <1>1 DEF N
  <2>. QED
    BY <2>1
<1>3. FlattenSeq(parts) \in Seq(N)
  <2>. HIDE DEF parts, N
  <2>. QED
    BY <1>2, FlattenIsSeq
<1>4. <<s>> \in Seq(N)
  OBVIOUS
<1>5. Visit(f, s) = <<s>> \o FlattenSeq(parts)
  BY DEF Visit
<1>. HIDE DEF N, parts
<1>. QED
  BY <1>3, <1>4, <1>5, ConcatProperties DEF N

\* The visit of s is settled by the visits of what comes after s.
LEMMA VisitDependsOnLater ==
  ASSUME TypeOK, SectionsAreNested, NEW s \in 0..Len(sections), NEW f, NEW g,
         \A c \in (s + 1)..Len(sections) : f[c] = g[c]
  PROVE  Visit(f, s) = Visit(g, s)
<1>. DEFINE below == Subsections(s)
<1>1. below \in Seq((s + 1)..Len(sections))
  BY SubsectionsComeAfter
<1>. HIDE DEF below
<1>2. \A k \in DOMAIN below : below[k] \in (s + 1)..Len(sections)
  BY <1>1
<1>3. [k \in DOMAIN below |-> f[below[k]]] = [k \in DOMAIN below |-> g[below[k]]]
  BY <1>2
<1>. QED
  BY <1>3 DEF Visit, below

\* The visit in depth-first order ends.
LEMMA DepthFirstEnds ==
  ASSUME TypeOK, SectionsAreNested
  PROVE  DepthFirst = [s \in 0..Len(sections) |-> Visit(DepthFirst, s)]
<1>. DEFINE N == Len(sections)
            Upto(f, m) == f = [s \in ((N + 1) - m)..N |-> Visit(f, s)]
            A == {m \in Nat : m <= N + 1 => \E f \in [((N + 1) - m)..N -> Seq(0..N)] : Upto(f, m)}
<1>0. N \in Nat
  BY TreeTypes
<1>1. 0 \in A
  <2>. DEFINE f == [s \in ((N + 1) - 0)..N |-> <<>>]
  <2>1. ((N + 1) - 0)..N = {}
    BY <1>0
  <2>2. f \in [((N + 1) - 0)..N -> Seq(0..N)] /\ Upto(f, 0)
    BY <2>1
  <2>. HIDE DEF Upto, f
  <2>. QED
    BY <2>2
<1>2. ASSUME NEW m \in Nat, m \in A
      PROVE  m + 1 \in A
  <2>1. SUFFICES ASSUME m + 1 <= N + 1
                 PROVE  \E f \in [((N + 1) - (m + 1))..N -> Seq(0..N)] : Upto(f, m + 1)
    <3>. HIDE DEF Upto
    <3>. QED
      OBVIOUS
  <2>2. PICK f \in [((N + 1) - m)..N -> Seq(0..N)] : Upto(f, m)
    <3>1. m <= N + 1
      BY <1>0, <2>1
    <3>. HIDE DEF Upto
    <3>. QED
      BY <1>2, <3>1
  <2>. DEFINE lo == N - m
              g == [s \in lo..N |-> IF s = lo THEN Visit(f, s) ELSE f[s]]
  <2>3. /\ lo \in 0..N /\ (N + 1) - (m + 1) = lo /\ (N + 1) - m = lo + 1
        /\ \A s \in lo..N : s \in 0..N /\ (s # lo => s \in (lo + 1)..N)
        /\ \A s \in lo..N : \A c \in (s + 1)..N : c \in lo..N /\ c # lo /\ c \in (lo + 1)..N
    BY <1>0, <2>1
  <2>. HIDE DEF lo
  <2>4. Visit(f, lo) \in Seq(0..N)
    BY <2>2, <2>3, VisitIsSeq
  <2>5. g \in [lo..N -> Seq(0..N)]
    BY <2>2, <2>3, <2>4
  <2>6. ASSUME NEW s \in lo..N
        PROVE  g[s] = Visit(g, s)
    <3>1. \A c \in (s + 1)..N : f[c] = g[c]
      BY <2>3
    <3>2. Visit(f, s) = Visit(g, s)
      <4>. HIDE DEF g
      <4>. QED
        BY <2>3, <3>1, VisitDependsOnLater
    <3>3. g[s] = Visit(f, s)
      BY <2>2, <2>3
    <3>. QED
      BY <3>2, <3>3
  <2>. HIDE DEF g
  <2>7. Upto(g, m + 1)
    BY <2>3, <2>5, <2>6
  <2>. HIDE DEF Upto
  <2>. QED
    BY <2>3, <2>5, <2>7
<1>3. \E f : f = [s \in 0..N |-> Visit(f, s)]
  <2>1. N + 1 \in A
    <3>. HIDE DEF A
    <3>. QED
      BY <1>0, <1>1, <1>2, NumberInduction
  <2>2. PICK f \in [((N + 1) - (N + 1))..N -> Seq(0..N)] : Upto(f, N + 1)
    <3>1. N + 1 <= N + 1
      BY <1>0
    <3>. HIDE DEF Upto
    <3>. QED
      BY <2>1, <3>1
  <2>3. (N + 1) - (N + 1) = 0
    BY <1>0
  <2>. QED
    BY <2>2, <2>3
<1>. QED
  BY <1>3 DEF DepthFirst, Visit

\* It lists sections.
LEMMA DepthFirstIsSeq ==
  ASSUME TypeOK, SectionsAreNested
  PROVE  \A s \in 0..Len(sections) : DepthFirst[s] \in Seq(0..Len(sections))
<1>. DEFINE N == Len(sections)
            B == {m \in Nat : \A s \in 0..N : s + m >= N => DepthFirst[s] \in Seq(0..N)}
<1>0. N \in Nat
  BY TreeTypes
<1>4. DepthFirst = [s \in 0..N |-> Visit(DepthFirst, s)]
  BY DepthFirstEnds
<1>5. 0 \in B
  <2>1. ASSUME NEW s \in 0..N, s + 0 >= N
        PROVE  DepthFirst[s] \in Seq(0..N)
    <3>1. (s + 1)..N = {}
      BY <1>0, <2>1
    <3>2. Visit(DepthFirst, s) \in Seq(0..N)
      BY <3>1, VisitIsSeq
    <3>. QED
      BY <1>4, <3>2
  <2>. QED
    BY <2>1
<1>6. ASSUME NEW m \in Nat, m \in B
      PROVE  m + 1 \in B
  <2>1. ASSUME NEW s \in 0..N, s + (m + 1) >= N
        PROVE  DepthFirst[s] \in Seq(0..N)
    <3>1. \A c \in (s + 1)..N : c \in 0..N /\ c + m >= N
      BY <1>0, <2>1
    <3>2. \A c \in (s + 1)..N : DepthFirst[c] \in Seq(0..N)
      BY <1>6, <3>1
    <3>3. Visit(DepthFirst, s) \in Seq(0..N)
      BY <3>2, VisitIsSeq
    <3>. QED
      BY <1>4, <3>3
  <2>. QED
    BY <2>1
<1>7. N \in B
  <2>. HIDE DEF B
  <2>. QED
    BY <1>0, <1>5, <1>6, NumberInduction
<1>8. \A s \in 0..N : s + N >= N
  BY <1>0
<1>. QED
  BY <1>7, <1>8

\* The reading order lists what was placed.
LEMMA ReadingOrderIsSeq ==
  ASSUME TypeOK, SectionsAreNested, PlacedAreContent
  PROVE  ReadingOrder \in Seq(PlacedItems)
<1>. DEFINE order == DepthFirst[0]
            parts == [k \in DOMAIN order |-> InPlace(order[k])]
<1>1. order \in Seq(0..Len(sections))
  <2>1. 0 \in 0..Len(sections)
    BY TreeTypes
  <2>. QED
    BY <2>1, DepthFirstIsSeq
<1>2. parts \in Seq(Seq(PlacedItems))
  <2>1. \A s : InPlace(s) \in Seq(PlacedItems)
    BY InPlaceIsInOrder
  <2>. HIDE DEF order
  <2>2. Len(order) \in Nat /\ DOMAIN order = 1..Len(order)
    BY <1>1
  <2>. QED
    BY <2>1, <2>2
<1>3. ReadingOrder = FlattenSeq(parts)
  BY DEF ReadingOrder
<1>. HIDE DEF parts
<1>. QED
  BY <1>2, <1>3, FlattenIsSeq

-----------------------------------------------------------------------------
(* What the build has made so far.                                         *)

\* A step places an item only after looking at what it is.
LEMMA StepKeepsContent ==
  ASSUME TypeOK, PlacedAreContent, [Next]_vars
  PROVE  PlacedAreContent'
<1>1. CASE Place
  <2>1. Mapping /\ placed' = Append(placed, [item |-> at, section |-> CurrentSection]) /\ doc' = doc
    BY <1>1 DEF Place, Text
  <2>2. at \in Content
    <3>1. at \in DOMAIN doc
      BY <2>1, HeadingHasLevel
    <3>. QED
      BY <1>1, <3>1 DEF Place, Text, Content
  <2>3. placed \in Seq(Placement) /\ [item |-> at, section |-> CurrentSection] \in Placement
    BY <2>1, HeadingHasLevel, CurrentSectionExists DEF TypeOK, Placement
  <2>4. \A k \in DOMAIN placed' : placed'[k].item = at \/ \E l \in DOMAIN placed : placed'[k] = placed[l]
    BY <2>1, <2>3
  <2>5. PlacedItems' \subseteq PlacedItems \cup {at}
    BY <2>4 DEF PlacedItems
  <2>6. Content' = Content
    BY <2>1 DEF Content
  <2>. QED
    BY <2>2, <2>5, <2>6 DEF PlacedAreContent
<1>2. CASE UNCHANGED <<doc, placed>>
  BY <1>2 DEF PlacedAreContent, PlacedItems, Content
<1>. QED
  BY <1>1, <1>2 DEF Next, Parse, MapItem, SkipItem, StrayHeading, SpecialHeading, CloseSection, OpenSection,
     AbstractText, ReferenceText, Convert, Validate, Persist, Build, StartBuild, TakeParagraph,
     TakeVisual, FinishWalk, Detect, Check, vars, parseVars, paper

\* Whatever the mapper places is a paragraph that is not blank, a table or a
\* figure (PaperParsing, Place).
THEOREM ContentIsPlaced == Spec => []PlacedAreContent
<1>1. Init => PlacedAreContent
  <2>1. Init => placed = <<>>
    BY DEF Init, ParseInit
  <2>2. DOMAIN <<>> = {}
    OBVIOUS
  <2>. QED
    BY <2>1, <2>2 DEF PlacedAreContent, PlacedItems
<1>2. TypeOK /\ PlacedAreContent /\ [Next]_vars => PlacedAreContent'
  BY StepKeepsContent
<1>. QED
  BY <1>1, <1>2, TypeCorrect, PTL DEF Spec

\* Where the build is once it has started.
Building == {"walk", "detect", "check", "represented", "refused"}

\* What a chunk looks like, given the sections that there are.
ChunkRecord ==
  [kind:    {"title", "abstract", "text", "table", "picture", "reference"},
   section: {0} \cup DOMAIN sections,
   text:    Seq(Piece),
   entity:  Nat,
   context: Contexts]

\* What a link looks like, given the chunks that there are.
Relationship == [source: DOMAIN chunks, target: DOMAIN chunks, type: {"CONTINUES", "CITES", "REFERENCES"}]

\* The paragraphs of the body.
PlacedTexts == {i \in PlacedItems : doc[i].kind = "text"}

\* The types of what the build works on.
BuildIsTyped ==
  /\ todo \in Seq(PlacedItems) /\ buffer \in Seq(PlacedTexts)
  /\ chunks \in Seq(ChunkRecord) /\ chunks # <<>>
  /\ relationships \in Seq(Relationship)

\* Before the references are detected, parts continue each other and nothing else.
LinksAreEarly == \A k \in DOMAIN relationships : relationships[k].type = "CONTINUES"

\* The inductive invariant of the build: nothing is built before it starts, and then no
\* link is made twice and no validator has refused.
BuildIsSound ==
  /\ pc \notin Building => BuildInit
  /\ pc \in Building => BuildIsTyped /\ Distinct(relationships)
  /\ pc \in {"walk", "detect"} => LinksAreEarly
  /\ pc # "refused"

-----------------------------------------------------------------------------

\* A placed item stands in the paper or in one of its sections.
LEMMA SectionOfPlaced ==
  ASSUME TypeOK, NEW i \in PlacedItems
  PROVE  SectionOf(i) \in {0} \cup DOMAIN sections
<1>1. \E k \in DOMAIN placed : placed[k].item = i
  BY DEF PlacedItems
<1>2. PICK k \in DOMAIN placed : SectionOf(i) = placed[k].section
  BY <1>1 DEF SectionOf
<1>3. placed \in Seq(Placement)
  BY DEF TypeOK, Placement
<1>4. placed[k] \in Placement
  BY <1>3
<1>. QED
  BY <1>2, <1>4 DEF Placement

\* The text of some items is a text.
LEMMA TextOfIsTyped ==
  ASSUME TypeOK, NEW items \in Seq(DOMAIN doc)
  PROVE  /\ TextOf(items) \in Seq(Piece)
         /\ [k \in DOMAIN items |-> doc[items[k]].text] \in Seq(Seq(Piece))
<1>1. \A i \in DOMAIN doc : doc[i].text \in Seq(Piece)
  <2>1. \A i \in DOMAIN doc : doc[i] \in Item
    BY DEF TypeOK
  <2>. QED
    BY <2>1 DEF Item
<1>2. [k \in DOMAIN items |-> doc[items[k]].text] \in Seq(Seq(Piece))
  <2>1. Len(items) \in Nat /\ DOMAIN items = 1..Len(items) /\ \A k \in DOMAIN items : items[k] \in DOMAIN doc
    OBVIOUS
  <2>. QED
    BY <1>1, <2>1
<1>. QED
  BY <1>2, FlattenIsSeq DEF TextOf

\* The references are texts.
LEMMA ReferencesAreTexts ==
  ASSUME TypeOK
  PROVE  References \in Seq(Seq(Piece))
<1>. DEFINE combined == TextOf(bibliography)
            brackets == {k \in DOMAIN combined : Bracketed(combined[k])}
<1>1. bibliography \in Seq(DOMAIN doc)
  BY DEF TypeOK
<1>2. /\ combined \in Seq(Piece)
      /\ [k \in DOMAIN bibliography |-> doc[bibliography[k]].text] \in Seq(Seq(Piece))
  BY <1>1, TextOfIsTyped
<1>3. References = IF Cardinality(brackets) >= 2 THEN CutBefore(combined, {1} \cup brackets)
                   ELSE [k \in DOMAIN bibliography |-> doc[bibliography[k]].text]
  BY DEF References
<1>4. brackets \subseteq DOMAIN combined
  OBVIOUS
<1>. HIDE DEF combined, brackets
<1>5. ASSUME Cardinality(brackets) >= 2
      PROVE  CutBefore(combined, {1} \cup brackets) \in Seq(Seq(Piece))
  <2>1. brackets # {}
    BY <1>5, FS_EmptySet
  <2>2. {1} \cup brackets \in SUBSET DOMAIN combined
    BY <1>2, <1>4, <2>1
  <2>. QED
    BY <1>2, <2>2, CutIsSeq
<1>. QED
  BY <1>2, <1>3, <1>5

\* The parts of the buffer are texts.
LEMMA FlushedPartsAreTyped ==
  ASSUME TypeOK, PlacedAreContent, buffer \in Seq(PlacedTexts)
  PROVE  FlushedParts \in Seq(Parts)
<1>. DEFINE texts == [k \in DOMAIN buffer |-> doc[buffer[k]].text]
<1>1. \A i \in PlacedTexts : doc[i].text \in Texts
  <2>1. \A i \in PlacedTexts : i \in Content /\ doc[i].kind = "text"
    BY DEF PlacedTexts, PlacedAreContent
  <2>2. \A i \in PlacedTexts : doc[i].text \in Seq(Piece) /\ doc[i].text # <<>>
    BY <2>1, ContentHasPlaces DEF Content
  <2>. QED
    BY <2>2 DEF Texts
<1>2. texts \in Seq(Texts)
  <2>1. Len(buffer) \in Nat /\ DOMAIN buffer = 1..Len(buffer)
        /\ \A k \in DOMAIN buffer : buffer[k] \in PlacedTexts
    OBVIOUS
  <2>. QED
    BY <1>1, <2>1
<1>. HIDE DEF texts
<1>3. PartsOf(texts) \in Seq(Parts)
  BY <1>2, PartsOfIsTyped
<1>. QED
  BY <1>3 DEF FlushedParts, texts

\* What a flush appends to the chunks.
LEMMA FlushedChunksAreTyped ==
  ASSUME TypeOK, PlacedAreContent, buffer \in Seq(PlacedTexts)
  PROVE  /\ FlushedChunks \in Seq(ChunkRecord)
         /\ buffer # <<>> => Len(FlushedChunks) = Len(FlushedParts)
<1>1. CASE buffer = <<>>
  BY <1>1 DEF FlushedChunks
<1>2. CASE buffer # <<>>
  <2>. DEFINE s == SectionOf(Head(buffer))
              new(k) == Chunk("text", s, FlushedParts[k].text, 0, RunContext)
  <2>1. FlushedParts \in Seq(Parts)
    BY FlushedPartsAreTyped
  <2>2. s \in {0} \cup DOMAIN sections
    <3>1. Head(buffer) \in PlacedItems
      BY <1>2 DEF PlacedTexts
    <3>. QED
      BY <3>1, SectionOfPlaced
  <2>3. RunContext \in Contexts
    BY DEF RunContext, Contexts
  <2>4. ASSUME NEW k \in DOMAIN FlushedParts
        PROVE  new(k) \in ChunkRecord
    <3>1. FlushedParts[k] \in Parts
      BY <2>1
    <3>2. FlushedParts[k].text \in Seq(Piece)
      BY <3>1 DEF Parts
    <3>. HIDE DEF s
    <3>. QED
      BY <2>2, <2>3, <3>2 DEF Chunk, ChunkRecord
  <2>5. FlushedChunks = [k \in DOMAIN FlushedParts |-> new(k)]
    BY <1>2 DEF FlushedChunks
  <2>6. Len(FlushedParts) \in Nat /\ DOMAIN FlushedParts = 1..Len(FlushedParts)
    BY <2>1
  <2>. HIDE DEF new
  <2>7. [k \in DOMAIN FlushedParts |-> new(k)] \in [1..Len(FlushedParts) -> ChunkRecord]
    BY <2>4, <2>6
  <2>8. FlushedChunks \in Seq(ChunkRecord)
    BY <2>5, <2>6, <2>7, SeqDef
  <2>. QED
    BY <2>5, <2>6, <2>7, <2>8, LenProperties
<1>. QED
  BY <1>1, <1>2

\* And to the relationships: links to the new chunks, each to another.
LEMMA FlushedLinksAreNew ==
  ASSUME TypeOK, PlacedAreContent, buffer \in Seq(PlacedTexts),
         chunks \in Seq(ChunkRecord), chunks # <<>>,
         NEW n \in Nat, Len(chunks) + Len(FlushedChunks) <= n
  PROVE  /\ FlushedLinks \in Seq([source: 1..n, target: 1..n, type: {"CONTINUES"}])
         /\ \A k \in DOMAIN FlushedLinks : Len(chunks) < FlushedLinks[k].target
         /\ Distinct(FlushedLinks)
<1>1. CASE buffer = <<>>
  BY <1>1 DEF FlushedLinks, Distinct
<1>2. CASE buffer # <<>>
  <2>. DEFINE S == {k \in DOMAIN FlushedParts : FlushedParts[k].continues}
              later == Ascending(S)
              L == Len(chunks)
              new(i) == Link(L + later[i] - 1, L + later[i], "CONTINUES")
              Links == [source: 1..n, target: 1..n, type: {"CONTINUES"}]
  <2>0. FlushedParts \in Seq(Parts) /\ Len(FlushedChunks) = Len(FlushedParts) /\ L \in Nat \ {0}
    <3>1. L \in Nat \ {0}
      BY EmptySeq
    <3>. QED
      BY <1>2, <3>1, FlushedPartsAreTyped, FlushedChunksAreTyped
  <2>1. Len(FlushedParts) \in Nat /\ DOMAIN FlushedParts = 1..Len(FlushedParts)
    BY <2>0
  <2>2. S \subseteq Nat /\ IsFiniteSet(S) /\ S \subseteq 1..Len(FlushedParts)
    <3>1. IsFiniteSet(1..Len(FlushedParts)) /\ S \in SUBSET (1..Len(FlushedParts))
      BY <2>1, FS_Interval
    <3>. HIDE DEF S
    <3>2. IsFiniteSet(S)
      BY <3>1, FS_Subset
    <3>. QED
      BY <2>1, <3>1, <3>2
  <2>3. FlushedLinks = [i \in DOMAIN later |-> new(i)]
    BY <1>2 DEF FlushedLinks
  <2>. HIDE DEF S
  <2>4. /\ later \in Seq(S) /\ Len(later) = Cardinality(S) /\ Cardinality(S) \in Nat
        /\ DOMAIN later = 1..Cardinality(S)
        /\ \A j, k \in DOMAIN later : j < k => later[j] < later[k]
    BY <2>2, AscendingIsInOrder
  <2>. HIDE DEF later, L
  <2>5. \A i \in DOMAIN later : /\ later[i] \in Nat \ {0} /\ L + later[i] \in 1..n
                                /\ L + later[i] - 1 \in 1..n /\ L < L + later[i]
    <3>1. \A i \in DOMAIN later : later[i] \in 1..Len(FlushedParts)
      <4>1. \A i \in DOMAIN later : later[i] \in S
        BY <2>4
      <4>. QED
        BY <2>2, <4>1
    <3>2. L + Len(FlushedParts) <= n
      BY <2>0 DEF L
    <3>. QED
      BY <2>0, <2>1, <3>1, <3>2
  <2>6. \A i \in DOMAIN later : new(i) \in Links
    BY <2>5 DEF Link
  <2>7. FlushedLinks \in Seq(Links) /\ DOMAIN FlushedLinks = DOMAIN later
    <3>. HIDE DEF new, Links
    <3>1. [i \in DOMAIN later |-> new(i)] \in [1..Cardinality(S) -> Links]
      BY <2>4, <2>6
    <3>2. FlushedLinks \in [1..Cardinality(S) -> Links]
      BY <2>3, <3>1
    <3>3. FlushedLinks \in Seq(Links)
      BY <2>4, <3>2, SeqDef
    <3>. QED
      BY <2>4, <3>2, <3>3
  <2>8. \A i \in DOMAIN later : FlushedLinks[i].target = L + later[i]
    BY <2>3 DEF Link
  <2>9. ASSUME NEW j \in DOMAIN later, NEW k \in DOMAIN later, FlushedLinks[j] = FlushedLinks[k]
        PROVE  j = k
    <3>1. L + later[j] = L + later[k]
      BY <2>8, <2>9
    <3>2. later[j] = later[k]
      BY <2>0, <2>5, <3>1, SMTT(20) DEF L
    <3>3. j < k \/ k < j \/ j = k
      BY <2>4
    <3>4. later[j] \in Nat /\ later[k] \in Nat
      BY <2>5
    <3>. QED
      BY <2>4, <3>2, <3>3, <3>4
  <2>. QED
    BY <2>5, <2>7, <2>8, <2>9 DEF Distinct, L
<1>. QED
  BY <1>1, <1>2

\* A flush keeps the build sound.
LEMMA FlushKeepsSound ==
  ASSUME TypeOK, PlacedAreContent, BuildIsTyped, Distinct(relationships), LinksAreEarly,
         UNCHANGED sections, NEW followers \in Seq(ChunkRecord), Flush(followers)
  PROVE  /\ chunks' \in Seq(ChunkRecord) /\ chunks' # <<>>
         /\ relationships' \in Seq(Relationship')
         /\ Distinct(relationships') /\ LinksAreEarly'
<1>. DEFINE L == Len(chunks)
            n == Len(chunks')
            Links == [source: 1..n, target: 1..n, type: {"CONTINUES"}]
            T == [source: 1..n, target: 1..n, type: {"CONTINUES", "CITES", "REFERENCES"}]
<1>1. /\ chunks \in Seq(ChunkRecord) /\ chunks # <<>> /\ buffer \in Seq(PlacedTexts)
      /\ relationships \in Seq(Relationship)
  BY DEF BuildIsTyped
<1>2. FlushedChunks \in Seq(ChunkRecord)
  BY <1>1, FlushedChunksAreTyped
<1>3. /\ chunks' \in Seq(ChunkRecord) /\ n = L + Len(FlushedChunks) + Len(followers)
      /\ L \in Nat \ {0} /\ Len(FlushedChunks) \in Nat /\ Len(followers) \in Nat
  <2>1. chunks' = (chunks \o FlushedChunks) \o followers
    BY DEF Flush
  <2>2. /\ chunks \o FlushedChunks \in Seq(ChunkRecord)
        /\ Len(chunks \o FlushedChunks) = Len(chunks) + Len(FlushedChunks)
    BY <1>1, <1>2, ConcatProperties
  <2>3. /\ chunks' \in Seq(ChunkRecord)
        /\ Len(chunks') = Len(chunks \o FlushedChunks) + Len(followers)
    BY <2>1, <2>2, ConcatProperties
  <2>4. L \in Nat \ {0}
    BY <1>1, EmptySeq
  <2>. QED
    BY <1>2, <2>2, <2>3, <2>4
<1>4. chunks' # <<>> /\ n \in Nat /\ L <= n /\ L + Len(FlushedChunks) <= n
  BY <1>3
<1>5. DOMAIN chunks = 1..L /\ DOMAIN chunks' = 1..n
  BY <1>1, <1>3
<1>6. /\ FlushedLinks \in Seq(Links)
      /\ \A k \in DOMAIN FlushedLinks : L < FlushedLinks[k].target
      /\ Distinct(FlushedLinks)
  BY <1>1, <1>4, FlushedLinksAreNew
<1>. HIDE DEF n, L
<1>7. Relationship \subseteq T /\ Links \subseteq T /\ Relationship' = T
  BY <1>3, <1>4, <1>5 DEF Relationship
<1>. HIDE DEF Links, T
<1>8. relationships \in Seq(T) /\ FlushedLinks \in Seq(T)
  BY <1>1, <1>6, <1>7, SeqMonotonic
<1>9. \A j \in DOMAIN relationships, k \in DOMAIN FlushedLinks : relationships[j] # FlushedLinks[k]
  <2>1. \A j \in DOMAIN relationships : relationships[j] \in Relationship
    BY <1>1
  <2>2. \A x \in Relationship : x.target \in 1..L
    BY <1>5 DEF Relationship
  <2>. QED
    BY <1>3, <1>6, <2>1, <2>2
<1>10. relationships' = relationships \o FlushedLinks
  BY DEF Flush
<1>11. relationships' \in Seq(T) /\ Distinct(relationships')
  BY <1>6, <1>8, <1>9, <1>10, ConcatIsDistinct
<1>12. LinksAreEarly'
  <2>1. \A k \in DOMAIN FlushedLinks : FlushedLinks[k].type = "CONTINUES"
    <3>1. \A k \in DOMAIN FlushedLinks : FlushedLinks[k] \in Links
      BY <1>6
    <3>2. \A x \in Links : x.type = "CONTINUES"
      BY DEF Links
    <3>. QED
      BY <3>1, <3>2
  <2>2. \A k \in DOMAIN relationships' :
          \/ \E j \in DOMAIN relationships : relationships'[k] = relationships[j]
          \/ \E j \in DOMAIN FlushedLinks : relationships'[k] = FlushedLinks[j]
    <3>1. /\ DOMAIN (relationships \o FlushedLinks) = 1..(Len(relationships) + Len(FlushedLinks))
          /\ Len(relationships) \in Nat /\ DOMAIN relationships = 1..Len(relationships)
          /\ Len(FlushedLinks) \in Nat /\ DOMAIN FlushedLinks = 1..Len(FlushedLinks)
      BY <1>8, ConcatProperties, LenProperties
    <3>2. \A k \in 1..(Len(relationships) + Len(FlushedLinks)) :
            (relationships \o FlushedLinks)[k]
              = IF k <= Len(relationships) THEN relationships[k] ELSE FlushedLinks[k - Len(relationships)]
      BY <1>8, ConcatProperties
    <3>3. DOMAIN relationships' = 1..(Len(relationships) + Len(FlushedLinks))
      BY <1>10, <3>1
    <3>4. \A k \in 1..(Len(relationships) + Len(FlushedLinks)) :
            ~(k <= Len(relationships)) => k - Len(relationships) \in 1..Len(FlushedLinks)
      BY <3>1
    <3>5. \A k \in 1..(Len(relationships) + Len(FlushedLinks)) :
            k <= Len(relationships) => k \in 1..Len(relationships)
      BY <3>1
    <3>. QED
      BY <1>10, <3>1, <3>2, <3>3, <3>4, <3>5
  <2>. QED
    BY <2>1, <2>2 DEF LinksAreEarly
<1>. QED
  BY <1>3, <1>4, <1>7, <1>11, <1>12

-----------------------------------------------------------------------------
(* The references that are detected.                                       *)

\* Links from c, each to another chunk.
LinksFrom(c) ==
  {links \in Seq([source: {c}, target: DOMAIN chunks, type: {"CITES", "REFERENCES"}]) :
     \A j, k \in DOMAIN links : links[j].target = links[k].target => j = k}

\* At first there are none.
LEMMA NoLinks == \A c : <<>> \in LinksFrom(c)
  BY DEF LinksFrom

\* A mention adds at most one link, and none to a chunk linked before.
LEMMA LinkStepIsTyped ==
  ASSUME chunks \in Seq(ChunkRecord), NEW c, NEW links \in LinksFrom(c), NEW mention \in Mentions
  PROVE  LinkStep(links, c, mention) \in LinksFrom(c)
<1>. DEFINE Links == [source: {c}, target: DOMAIN chunks, type: {"CITES", "REFERENCES"}]
            seen == {links[k].target : k \in DOMAIN links}
            new == Targets(mention) \ seen
            type == IF mention[1] = "cites" THEN "CITES" ELSE "REFERENCES"
            link == Link(c, First(new), type)
<1>1. links \in Seq(Links) /\ \A j, k \in DOMAIN links : links[j].target = links[k].target => j = k
  BY DEF LinksFrom
<1>2. DOMAIN chunks \subseteq Nat
  OBVIOUS
<1>3. Targets(mention) \subseteq DOMAIN chunks
  BY DEF Targets
<1>4. LinkStep(links, c, mention) = IF new = {} THEN links ELSE Append(links, link)
  BY DEF LinkStep
<1>5. CASE new = {}
  BY <1>4, <1>5
<1>6. CASE new # {}
  <2>1. First(new) \in new
    BY <1>2, <1>3, <1>6, FirstExists
  <2>2. First(new) \in DOMAIN chunks /\ \A k \in DOMAIN links : links[k].target # First(new)
    BY <1>3, <2>1
  <2>. HIDE DEF new
  <2>3. link \in Links /\ link.target = First(new)
    BY <2>2 DEF Link
  <2>. HIDE DEF link, Links, seen
  <2>4. /\ Append(links, link) \in Seq(Links)
        /\ DOMAIN Append(links, link) = 1..(Len(links) + 1)
        /\ Len(links) \in Nat /\ DOMAIN links = 1..Len(links)
        /\ \A k \in 1..Len(links) : Append(links, link)[k] = links[k]
        /\ Append(links, link)[Len(links) + 1] = link
    BY <1>1, <2>3
  <2>5. ASSUME NEW j \in 1..(Len(links) + 1), NEW k \in 1..(Len(links) + 1),
               Append(links, link)[j].target = Append(links, link)[k].target
        PROVE  j = k
    <3>1. CASE j \in 1..Len(links) /\ k \in 1..Len(links)
      BY <1>1, <2>4, <2>5, <3>1
    <3>2. CASE j = Len(links) + 1 /\ k \in 1..Len(links)
      BY <2>2, <2>3, <2>4, <2>5, <3>2
    <3>3. CASE j \in 1..Len(links) /\ k = Len(links) + 1
      BY <2>2, <2>3, <2>4, <2>5, <3>3
    <3>4. CASE j = Len(links) + 1 /\ k = Len(links) + 1
      BY <3>4
    <3>. QED
      BY <2>4, <3>1, <3>2, <3>3, <3>4
  <2>6. Append(links, link) \in LinksFrom(c)
    BY <2>4, <2>5 DEF LinksFrom, Links
  <2>. QED
    BY <1>4, <1>6, <2>6
<1>. QED
  BY <1>5, <1>6

\* What Detected computes, as a fold by a function step.
LEMMA DetectedIsAFold ==
  ASSUME chunks \in Seq(ChunkRecord), NEW c, Found(chunks[c].text) \in Seq(Mentions)
  PROVE  Detected(c) = Folded([p \in LinksFrom(c) \X Mentions |-> LinkStep(p[1], c, p[2])],
                              <<>>, Found(chunks[c].text))
<1>. DEFINE step == [p \in LinksFrom(c) \X Mentions |-> LinkStep(p[1], c, p[2])]
<1>1. step \in StepOf(LinksFrom(c), Mentions) /\ <<>> \in LinksFrom(c)
  BY LinkStepIsTyped, NoLinks DEF StepOf
<1>2. \A x \in LinksFrom(c), e \in Mentions : step[<<x, e>>] = LinkStep(x, c, e)
  OBVIOUS
<1>. HIDE DEF step
<1>3. PICK g \in [SUBSET DOMAIN Found(chunks[c].text) -> LinksFrom(c)] :
             ComputesFold(g, step, <<>>, Found(chunks[c].text))
  BY <1>1, FoldExists
<1>4. g = [t \in SUBSET DOMAIN Found(chunks[c].text) |->
            IF t = {} THEN <<>> ELSE LinkStep(g[t \ {Max(t)}], c, Found(chunks[c].text)[Max(t)])]
  <2>1. ASSUME NEW t \in SUBSET DOMAIN Found(chunks[c].text), t # {}
        PROVE  step[<<g[t \ {Max(t)}], Found(chunks[c].text)[Max(t)]>>]
                 = LinkStep(g[t \ {Max(t)}], c, Found(chunks[c].text)[Max(t)])
    <3>1. Found(chunks[c].text)[Max(t)] \in Mentions /\ g[t \ {Max(t)}] \in LinksFrom(c)
      BY <2>1, MaxIsAnIndex
    <3>. HIDE DEF Max
    <3>. QED
      BY <1>2, <3>1
  <2>. QED
    BY <1>3, <2>1 DEF ComputesFold
<1>5. PICK it : /\ it = [t \in SUBSET DOMAIN Found(chunks[c].text) |->
                        IF t = {} THEN <<>> ELSE LinkStep(it[t \ {Max(t)}], c, Found(chunks[c].text)[Max(t)])]
                /\ Detected(c) = it[DOMAIN Found(chunks[c].text)]
  BY <1>4 DEF Detected, FoldLeft, MapThenFoldSet
<1>6. FollowsFold(it, LinksFrom(c), step, <<>>, Found(chunks[c].text))
  <2>1. it[{}] = <<>>
    BY <1>5
  <2>2. ASSUME NEW m \in 1..Len(Found(chunks[c].text)), it[1..(m - 1)] \in LinksFrom(c)
        PROVE  it[1..m] = step[<<it[1..(m - 1)], Found(chunks[c].text)[m]>>]
    <3>1. /\ 1..m \in SUBSET DOMAIN Found(chunks[c].text) /\ 1..m # {}
          /\ Max(1..m) = m /\ (1..m) \ {m} = 1..(m - 1) /\ Found(chunks[c].text)[m] \in Mentions
      BY PrefixOfIndexes
    <3>2. it[1..m] = LinkStep(it[1..(m - 1)], c, Found(chunks[c].text)[m])
      <4>. HIDE DEF Max
      <4>. QED
        BY <1>5, <3>1
    <3>. QED
      BY <1>2, <2>2, <3>1, <3>2
  <2>. QED
    BY <2>1, <2>2 DEF FollowsFold
<1>7. /\ it[DOMAIN Found(chunks[c].text)] = Folded(step, <<>>, Found(chunks[c].text))
      /\ it[DOMAIN Found(chunks[c].text)] \in LinksFrom(c)
  BY <1>1, <1>6, FoldIsUnique
<1>. QED
  BY <1>5, <1>7 DEF step

\* What is detected in a text is typed.
LEMMA DetectedIsTyped ==
  ASSUME chunks \in Seq(ChunkRecord), NEW c \in DOMAIN chunks
  PROVE  Detected(c) \in LinksFrom(c)
<1>. DEFINE step == [p \in LinksFrom(c) \X Mentions |-> LinkStep(p[1], c, p[2])]
            X == LinksFrom(c)
            s == Found(chunks[c].text)
<1>1. s \in Seq(Mentions)
  <2>1. chunks[c] \in ChunkRecord
    OBVIOUS
  <2>2. chunks[c].text \in Seq(Piece)
    BY <2>1 DEF ChunkRecord
  <2>. QED
    BY <2>2, FoundIsTyped
<1>2. step \in StepOf(X, Mentions) /\ <<>> \in X
  BY LinkStepIsTyped, NoLinks DEF StepOf
<1>3. Detected(c) = Folded(step, <<>>, s)
  BY <1>1, DetectedIsAFold
<1>. HIDE DEF step, X, s
<1>4. Folded(step, <<>>, s) \in X
  BY <1>1, <1>2, FoldedIsTyped
<1>. QED
  BY <1>3, <1>4 DEF X

\* Detection keeps the build sound.
LEMMA DetectKeepsSound ==
  ASSUME BuildIsTyped, Distinct(relationships), LinksAreEarly, Detect
  PROVE  /\ relationships' \in Seq(Relationship)
         /\ Distinct(relationships')
<1>. DEFINE part(c) == IF chunks[c].kind = "text" THEN Detected(c) ELSE <<>>
            parts == [c \in DOMAIN chunks |-> part(c)]
            Late == [source: DOMAIN chunks, target: DOMAIN chunks, type: {"CITES", "REFERENCES"}]
<1>1. /\ chunks \in Seq(ChunkRecord) /\ relationships \in Seq(Relationship)
      /\ Len(chunks) \in Nat /\ DOMAIN chunks = 1..Len(chunks)
  BY DEF BuildIsTyped
<1>2. relationships' = relationships \o FlattenSeq(parts)
  BY DEF Detect
<1>3. ASSUME NEW c \in DOMAIN chunks
      PROVE  part(c) \in LinksFrom(c)
  BY <1>1, DetectedIsTyped, NoLinks
<1>. HIDE DEF part
<1>4. ASSUME NEW c \in DOMAIN chunks
      PROVE  /\ part(c) \in Seq(Late) /\ Distinct(part(c))
             /\ \A k \in DOMAIN part(c) : part(c)[k].source = c
  <2>. DEFINE Links == [source: {c}, target: DOMAIN chunks, type: {"CITES", "REFERENCES"}]
  <2>1. /\ part(c) \in Seq(Links)
        /\ \A j, k \in DOMAIN part(c) : part(c)[j].target = part(c)[k].target => j = k
    BY <1>3 DEF LinksFrom
  <2>2. Links \subseteq Late /\ \A x \in Links : x.source = c
    OBVIOUS
  <2>. HIDE DEF Links, Late
  <2>3. part(c) \in Seq(Late)
    BY <2>1, <2>2, SeqMonotonic
  <2>4. \A k \in DOMAIN part(c) : part(c)[k] \in Links
    BY <2>1
  <2>5. Distinct(part(c))
    BY <2>1 DEF Distinct
  <2>. QED
    BY <2>2, <2>3, <2>4, <2>5
<1>5. parts \in Seq(Seq(Late)) /\ DOMAIN parts = DOMAIN chunks /\ \A c \in DOMAIN chunks : parts[c] = part(c)
  <2>. HIDE DEF Late
  <2>. QED
    BY <1>1, <1>4
<1>. HIDE DEF parts
<1>6. Apart(parts)
  <2>1. ASSUME NEW c \in DOMAIN chunks, NEW d \in DOMAIN chunks, c # d,
               NEW i \in DOMAIN part(c), NEW j \in DOMAIN part(d)
        PROVE  part(c)[i] # part(d)[j]
    <3>1. part(c)[i].source = c /\ part(d)[j].source = d
      BY <1>4
    <3>. QED
      BY <2>1, <3>1
  <2>. QED
    BY <1>4, <1>5, <2>1 DEF Apart
<1>7. FlattenSeq(parts) \in Seq(Late) /\ Distinct(FlattenSeq(parts))
  <2>. HIDE DEF Late
  <2>. QED
    BY <1>5, <1>6, FlattenIsSeq, FlattenIsDistinct
<1>. DEFINE links == FlattenSeq(parts)
<1>. HIDE DEF links
<1>8. Late \subseteq Relationship /\ \A x \in Late : x.type # "CONTINUES"
  BY DEF Relationship
<1>. HIDE DEF Late
<1>9. links \in Seq(Relationship) /\ links \in Seq(Late) /\ Distinct(links)
  BY <1>7, <1>8, SeqMonotonic DEF links
<1>10. \A j \in DOMAIN relationships, k \in DOMAIN links : relationships[j] # links[k]
  <2>1. \A k \in DOMAIN links : links[k] \in Late
    BY <1>9
  <2>. QED
    BY <1>8, <2>1 DEF LinksAreEarly
<1>11. relationships \o links \in Seq(Relationship) /\ Distinct(relationships \o links)
  BY <1>1, <1>9, <1>10, ConcatIsDistinct
<1>. QED
  BY <1>2, <1>11 DEF links

-----------------------------------------------------------------------------
(* The steps of the build.                                                 *)

\* The chunks a build begins with.
LEMMA FirstChunksAreTyped ==
  ASSUME TypeOK
  PROVE  <<TitleChunk>> \o AbstractChunks \in Seq(ChunkRecord) /\ <<TitleChunk>> \o AbstractChunks # <<>>
<1>1. TitleChunk \in ChunkRecord
  BY DEF TitleChunk, Chunk, ChunkRecord, Contexts
<1>2. Chunk("abstract", 0, TextOf(abstract), 0, "abstract") \in ChunkRecord
  <2>1. TextOf(abstract) \in Seq(Piece)
    BY TextOfIsTyped DEF TypeOK
  <2>. QED
    BY <2>1 DEF Chunk, ChunkRecord, Contexts
<1>3. AbstractChunks \in Seq(ChunkRecord)
  BY <1>2 DEF AbstractChunks
<1>4. <<TitleChunk>> \in Seq(ChunkRecord)
  BY <1>1
<1>5. /\ <<TitleChunk>> \o AbstractChunks \in Seq(ChunkRecord)
      /\ Len(<<TitleChunk>> \o AbstractChunks) = 1 + Len(AbstractChunks)
      /\ Len(AbstractChunks) \in Nat
  <2>1. Len(<<TitleChunk>>) = 1
    OBVIOUS
  <2>. QED
    BY <1>3, <1>4, <2>1, ConcatProperties, LenProperties
<1>6. Len(<<TitleChunk>> \o AbstractChunks) # 0
  BY <1>5
<1>. QED
  BY <1>5, <1>6, EmptySeq

\* The chunks of the references.
LEMMA ReferenceChunksAreTyped ==
  ASSUME TypeOK
  PROVE  ReferenceChunks \in Seq(ChunkRecord)
<1>1. References \in Seq(Seq(Piece))
  BY ReferencesAreTexts
<1>2. Len(References) \in Nat /\ DOMAIN References = 1..Len(References)
  BY <1>1
<1>3. \A n \in DOMAIN References : Chunk("reference", 0, References[n], n, "reference") \in ChunkRecord
  BY <1>1, <1>2 DEF Chunk, ChunkRecord, Contexts
<1>4. ReferenceChunks \in [1..Len(References) -> ChunkRecord]
  BY <1>2, <1>3 DEF ReferenceChunks
<1>. QED
  BY <1>2, <1>4, SeqDef

\* The chunk of a table or figure.
LEMMA VisualChunkIsTyped ==
  ASSUME TypeOK, PlacedAreContent, NEW i \in PlacedItems
  PROVE  VisualChunk(i) \in ChunkRecord
<1>1. i \in Content
  BY DEF PlacedAreContent
<1>2. i \in Nat /\ doc[i].kind \in {"text", "table", "picture"}
  BY <1>1, ContentHasPlaces
<1>3. SectionOf(i) \in {0} \cup DOMAIN sections
  BY SectionOfPlaced
<1>. QED
  BY <1>2, <1>3 DEF VisualChunk, Chunk, ChunkRecord, Contexts

\* While the paper does not change, what chunks and items are does not either.
LEMMA SamePaper ==
  ASSUME UNCHANGED <<doc, paper>>
  PROVE  ChunkRecord' = ChunkRecord /\ PlacedItems' = PlacedItems /\ PlacedTexts' = PlacedTexts
         /\ sections' = sections
BY DEF ChunkRecord, PlacedItems, PlacedTexts, paper

\* The build starts with the first chunks and no links.
LEMMA StartKeepsSound ==
  ASSUME TypeOK, SectionsAreNested, PlacedAreContent, BuildIsSound, StartBuild
  PROVE  BuildIsSound'
<1>1. BuildInit /\ pc' = "walk" /\ UNCHANGED <<doc, paper, buffer, relationships>>
  BY DEF BuildIsSound, Building, StartBuild
<1>2. chunks' \in Seq(ChunkRecord) /\ chunks' # <<>>
  BY FirstChunksAreTyped DEF StartBuild
<1>3. todo' \in Seq(PlacedItems)
  BY ReadingOrderIsSeq DEF StartBuild
<1>4. buffer' = <<>> /\ relationships' = <<>>
  BY <1>1 DEF BuildInit
<1>5. /\ ChunkRecord' = ChunkRecord /\ PlacedItems' = PlacedItems
  BY <1>1, SamePaper
<1>6. BuildIsTyped'
  BY <1>2, <1>3, <1>4, <1>5 DEF BuildIsTyped
<1>7. Distinct(relationships') /\ LinksAreEarly'
  BY <1>4 DEF Distinct, LinksAreEarly
<1>. QED
  BY <1>1, <1>6, <1>7 DEF BuildIsSound, Building

\* A paragraph only waits in the buffer, which may have been flushed before.
LEMMA ParagraphKeepsSound ==
  ASSUME TypeOK, PlacedAreContent, BuildIsSound, TakeParagraph
  PROVE  BuildIsSound'
<1>1. /\ pc = "walk" /\ pc' = "walk" /\ UNCHANGED <<doc, paper>> /\ todo # <<>>
      /\ doc[NextItem].kind = "text" /\ todo' = Tail(todo)
  BY DEF TakeParagraph, Walking
<1>2. /\ BuildIsTyped /\ Distinct(relationships) /\ LinksAreEarly
  BY <1>1 DEF BuildIsSound, Building
<1>3. /\ ChunkRecord' = ChunkRecord /\ PlacedItems' = PlacedItems /\ PlacedTexts' = PlacedTexts
      /\ sections' = sections
  BY <1>1, SamePaper
<1>4. NextItem \in PlacedTexts /\ todo' \in Seq(PlacedItems)
  BY <1>1, <1>2 DEF BuildIsTyped, NextItem, PlacedTexts
<1>5. CASE buffer # <<>> /\ SectionOf(Last(buffer)) # SectionOf(NextItem)
  <2>1. Flush(<<>>) /\ buffer' = <<NextItem>>
    BY <1>5 DEF TakeParagraph
  <2>2. <<>> \in Seq(ChunkRecord)
    OBVIOUS
  <2>3. /\ chunks' \in Seq(ChunkRecord) /\ chunks' # <<>>
        /\ relationships' \in Seq(Relationship')
        /\ Distinct(relationships') /\ LinksAreEarly'
    BY <1>2, <1>3, <2>1, <2>2, FlushKeepsSound
  <2>4. buffer' \in Seq(PlacedTexts)
    BY <1>4, <2>1
  <2>. QED
    BY <1>1, <1>3, <1>4, <2>3, <2>4 DEF BuildIsSound, BuildIsTyped, Building
<1>6. CASE ~(buffer # <<>> /\ SectionOf(Last(buffer)) # SectionOf(NextItem))
  <2>1. buffer' = Append(buffer, NextItem) /\ UNCHANGED <<chunks, relationships>>
    BY <1>6 DEF TakeParagraph
  <2>2. buffer' \in Seq(PlacedTexts)
    BY <1>2, <1>4, <2>1, AppendProperties DEF BuildIsTyped
  <2>3. Relationship' = Relationship /\ LinksAreEarly'
    BY <1>2, <2>1 DEF Relationship, LinksAreEarly
  <2>. QED
    BY <1>1, <1>2, <1>3, <1>4, <2>1, <2>2, <2>3 DEF BuildIsSound, BuildIsTyped, Building
<1>. QED
  BY <1>5, <1>6

\* A table or figure becomes a chunk after the buffer is flushed.
LEMMA VisualKeepsSound ==
  ASSUME TypeOK, PlacedAreContent, BuildIsSound, TakeVisual
  PROVE  BuildIsSound'
<1>1. /\ pc = "walk" /\ pc' = "walk" /\ UNCHANGED <<doc, paper>> /\ todo # <<>>
      /\ todo' = Tail(todo) /\ buffer' = <<>> /\ Flush(<<VisualChunk(NextItem)>>)
  BY DEF TakeVisual, Walking
<1>2. /\ BuildIsTyped /\ Distinct(relationships) /\ LinksAreEarly
  BY <1>1 DEF BuildIsSound, Building
<1>3. /\ ChunkRecord' = ChunkRecord /\ PlacedItems' = PlacedItems /\ PlacedTexts' = PlacedTexts
      /\ sections' = sections
  BY <1>1, SamePaper
<1>4. NextItem \in PlacedItems /\ todo' \in Seq(PlacedItems)
  BY <1>1, <1>2 DEF BuildIsTyped, NextItem
<1>5. <<VisualChunk(NextItem)>> \in Seq(ChunkRecord)
  <2>1. VisualChunk(NextItem) \in ChunkRecord
    BY <1>4, VisualChunkIsTyped
  <2>. QED
    BY <2>1
<1>6. /\ chunks' \in Seq(ChunkRecord) /\ chunks' # <<>>
      /\ relationships' \in Seq(Relationship')
      /\ Distinct(relationships') /\ LinksAreEarly'
  BY <1>1, <1>2, <1>3, <1>5, FlushKeepsSound
<1>7. buffer' \in Seq(PlacedTexts)
  BY <1>1
<1>. QED
  BY <1>1, <1>3, <1>4, <1>6, <1>7 DEF BuildIsSound, BuildIsTyped, Building

\* The walk ends with a flush and the chunks of the references.
LEMMA FinishKeepsSound ==
  ASSUME TypeOK, PlacedAreContent, BuildIsSound, FinishWalk
  PROVE  BuildIsSound'
<1>1. /\ pc = "walk" /\ pc' = "detect" /\ UNCHANGED <<doc, paper, todo>>
      /\ buffer' = <<>> /\ Flush(ReferenceChunks)
  BY DEF FinishWalk
<1>2. /\ BuildIsTyped /\ Distinct(relationships) /\ LinksAreEarly
  BY <1>1 DEF BuildIsSound, Building
<1>3. /\ ChunkRecord' = ChunkRecord /\ PlacedItems' = PlacedItems /\ PlacedTexts' = PlacedTexts
      /\ sections' = sections
  BY <1>1, SamePaper
<1>4. ReferenceChunks \in Seq(ChunkRecord)
  BY ReferenceChunksAreTyped
<1>5. /\ chunks' \in Seq(ChunkRecord) /\ chunks' # <<>>
      /\ relationships' \in Seq(Relationship')
      /\ Distinct(relationships') /\ LinksAreEarly'
  BY <1>1, <1>2, <1>3, <1>4, FlushKeepsSound
<1>6. buffer' \in Seq(PlacedTexts) /\ todo' \in Seq(PlacedItems)
  BY <1>1, <1>2 DEF BuildIsTyped
<1>. QED
  BY <1>1, <1>3, <1>5, <1>6 DEF BuildIsSound, BuildIsTyped, Building

\* The detected links are new: no chunk is linked twice to another, and the links before are of another type.
LEMMA DetectionKeepsSound ==
  ASSUME BuildIsSound, Detect
  PROVE  BuildIsSound'
<1>1. pc = "detect" /\ pc' = "check" /\ UNCHANGED <<doc, paper, todo, buffer, chunks>>
  BY DEF Detect
<1>2. /\ BuildIsTyped /\ Distinct(relationships) /\ LinksAreEarly
  BY <1>1 DEF BuildIsSound, Building
<1>3. /\ ChunkRecord' = ChunkRecord /\ PlacedItems' = PlacedItems /\ PlacedTexts' = PlacedTexts
  BY <1>1, SamePaper
<1>4. relationships' \in Seq(Relationship) /\ Distinct(relationships')
  BY <1>2, DetectKeepsSound
<1>5. Relationship' = Relationship
  BY <1>1 DEF Relationship
<1>. QED
  BY <1>1, <1>2, <1>3, <1>4, <1>5 DEF BuildIsSound, BuildIsTyped, Building

\* The validator of the builder finds nothing to refuse.
LEMMA CheckKeepsSound ==
  ASSUME BuildIsSound, Check
  PROVE  BuildIsSound'
<1>1. pc = "check" /\ UNCHANGED <<doc, paper, todo, buffer, chunks, relationships>>
      /\ pc' = IF RepresentationIsValid THEN "represented" ELSE "refused"
  BY DEF Check, buildVars
<1>2. BuildIsTyped /\ Distinct(relationships)
  BY <1>1 DEF BuildIsSound, Building
<1>3. /\ ChunkRecord' = ChunkRecord /\ PlacedItems' = PlacedItems /\ PlacedTexts' = PlacedTexts
  BY <1>1, SamePaper
<1>4. RepresentationIsValid
  <2>1. \A c \in DOMAIN chunks : chunks[c] \in ChunkRecord
    BY <1>2 DEF BuildIsTyped
  <2>2. \A k \in DOMAIN relationships : relationships[k] \in Relationship
    BY <1>2 DEF BuildIsTyped
  <2>3. chunks # <<>>
    BY <1>2 DEF BuildIsTyped
  <2>. QED
    BY <2>1, <2>2, <2>3 DEF RepresentationIsValid, ChunkRecord, Relationship
<1>5. Relationship' = Relationship
  BY <1>1 DEF Relationship
<1>6. BuildIsTyped'
  BY <1>1, <1>2, <1>3, <1>5 DEF BuildIsTyped
<1>. QED
  BY <1>1, <1>2, <1>4, <1>6 DEF BuildIsSound, Building

\* So every step keeps the build sound.
LEMMA StepKeepsSound ==
  ASSUME TypeOK, SectionsAreNested, PlacedAreContent, BuildIsSound, [Next]_vars
  PROVE  BuildIsSound'
<1>1. CASE Parse /\ UNCHANGED buildVars
  <2>1. pc \notin Building /\ pc' \notin Building /\ pc' # "refused"
    BY <1>1 DEF Parse, Convert, MapItem, SkipItem, StrayHeading, SpecialHeading, CloseSection,
       OpenSection, NewSection, AbstractText, ReferenceText, Place, Text, Heading, Mapping, Validate, Persist,
       Building
  <2>2. BuildInit'
    BY <1>1, <2>1 DEF BuildIsSound, BuildInit, buildVars
  <2>. QED
    BY <2>1, <2>2 DEF BuildIsSound, Building
<1>2. CASE Build
  BY <1>2, StartKeepsSound, ParagraphKeepsSound, VisualKeepsSound, FinishKeepsSound,
     DetectionKeepsSound, CheckKeepsSound DEF Build
<1>3. CASE UNCHANGED vars
  <2>1. UNCHANGED <<doc, paper, pc, todo, buffer, seenBody, chunks, relationships>>
    BY <1>3 DEF vars, parseVars, buildVars, paper
  <2>2. /\ ChunkRecord' = ChunkRecord /\ PlacedItems' = PlacedItems /\ PlacedTexts' = PlacedTexts
        /\ Relationship' = Relationship
    BY <2>1, SamePaper DEF Relationship
  <2>3. BuildIsTyped' <=> BuildIsTyped
    BY <2>1, <2>2 DEF BuildIsTyped
  <2>4. /\ BuildInit' <=> BuildInit
        /\ LinksAreEarly' <=> LinksAreEarly
    BY <2>1 DEF BuildInit, LinksAreEarly
  <2>. QED
    BY <2>1, <2>3, <2>4 DEF BuildIsSound
<1>. QED
  BY <1>1, <1>2, <1>3 DEF Next

-----------------------------------------------------------------------------
(* The graph of what was built.                                            *)

\* What is planned for a typed representation without duplicate links is a graph that is accepted.
LEMMA GraphIsAccepted ==
  ASSUME TypeOK, BuildIsTyped, Distinct(relationships)
  PROVE  Graph!Accepts(Representation, relationships)
<1>. DEFINE n == Len(chunks)
            C == DOMAIN chunks
            r == Representation
            kept == Range(relationships)
            I == {c \in C : chunks[c].section # 0}
            Held == {0 - chunks[c].section : c \in I}
            Contained == {Graph!Edge(c, 0, "BELONGS_TO") : c \in C}
                         \cup {Graph!Edge(c, 0 - chunks[c].section, "BELONGS_TO") : c \in I}
                         \cup {Graph!Edge(0 - chunks[c].section, 0, "BELONGS_TO") : c \in I}
            InARow == {Graph!Edge(k, k + 1, "NEXT") : k \in 1..(n - 1)}
<1>1. n \in Nat \ {0} /\ C = 1..n /\ \A c \in C : chunks[c].section \in Nat
  <2>1. chunks \in Seq(ChunkRecord) /\ chunks # <<>>
    BY DEF BuildIsTyped
  <2>2. n \in Nat \ {0} /\ C = 1..n /\ \A c \in C : chunks[c] \in ChunkRecord
    BY <2>1, EmptySeq, LenProperties
  <2>3. DOMAIN sections \subseteq Nat
    BY TreeTypes
  <2>. QED
    BY <2>2, <2>3 DEF ChunkRecord
<1>2. \A x \in kept : x \in [source: C, target: C, type: {"CONTINUES", "CITES", "REFERENCES"}]
  <2>1. relationships \in Seq(Relationship)
    BY DEF BuildIsTyped
  <2>2. \A k \in DOMAIN relationships : relationships[k] \in Relationship
    BY <2>1
  <2>. QED
    BY <2>2 DEF Relationship, Range
<1>3. Cardinality(kept) = Len(relationships)
  BY DistinctAreCounted DEF BuildIsTyped
<1>4. /\ r.order = [c \in C |-> c] /\ r.relationships = kept
      /\ r.section = [c \in C |-> IF chunks[c].section = 0 THEN n + 1 ELSE 0 - chunks[c].section]
  BY DEF Representation
<1>5. Len(r.order) = n
  <2>1. [c \in C |-> c] = [c \in 1..n |-> c]
    BY <1>1
  <2>2. Len([c \in 1..n |-> c]) = n
    BY <1>1
  <2>. QED
    BY <1>4, <2>1, <2>2
<1>. HIDE DEF r, kept, C, n
<1>6. Graph!UnitsOf(r) = C
  BY <1>4 DEF Graph!UnitsOf
<1>7. Graph!InSection(r) = I /\ \A c \in I : r.section[c] = 0 - chunks[c].section
  BY <1>1, <1>4, <1>6 DEF Graph!InSection, n
<1>. HIDE DEF I
<1>8. Graph!PlannedNodes(r) = {0} \cup Held \cup C
  <2>1. {r.section[c] : c \in I} = Held
    BY <1>7
  <2>. QED
    BY <2>1, <1>6, <1>7 DEF Graph!PlannedNodes
<1>9. Graph!ContainmentEdges(r) = Contained
  <2>1. {Graph!Edge(c, r.section[c], "BELONGS_TO") : c \in I}
          = {Graph!Edge(c, 0 - chunks[c].section, "BELONGS_TO") : c \in I}
    BY <1>7
  <2>2. {Graph!Edge(r.section[c], 0, "BELONGS_TO") : c \in I}
          = {Graph!Edge(0 - chunks[c].section, 0, "BELONGS_TO") : c \in I}
    BY <1>7
  <2>. QED
    BY <2>1, <2>2, <1>6, <1>7 DEF Graph!ContainmentEdges
<1>10. Graph!SequenceEdges(r) = InARow
  <2>1. \A k \in 1..(n - 1) : r.order[k] = k /\ r.order[k + 1] = k + 1
    BY <1>1, <1>4
  <2>. QED
    BY <2>1, <1>5 DEF Graph!SequenceEdges
<1>11. Graph!RelationshipEdges(r) = kept
  <2>1. \A x \in kept : Graph!Edge(x.source, x.target, x.type) = x
    BY <1>2 DEF Graph!Edge
  <2>. QED
    BY <2>1, <1>4 DEF Graph!RelationshipEdges
<1>12. Graph!PlannedEdges(r) = Contained \cup InARow \cup kept
  BY <1>9, <1>10, <1>11 DEF Graph!PlannedEdges
<1>13. \A e \in Contained : /\ e.type = "BELONGS_TO" /\ e.source \in Held \cup C /\ e.target \in {0} \cup Held
  <2>1. I \subseteq C
    BY DEF I
  <2>. QED
    BY <2>1 DEF Graph!Edge
<1>14. \A e \in InARow : e.type = "NEXT" /\ e.source \in C /\ e.target \in C
  BY <1>1 DEF Graph!Edge
<1>15. \A e \in kept : /\ e.type \in {"CONTINUES", "CITES", "REFERENCES"}
                        /\ e.source \in C /\ e.target \in C
  BY <1>2
<1>16. 0 \notin Held \cup C /\ Held \cap C = {}
  <2>1. \A c \in I : c \in C /\ chunks[c].section # 0
    BY DEF I
  <2>. QED
    BY <2>1, <1>1
<1>17. \A x \in Held \cup C : \E e \in Contained : e.source = x
  <2>1. \A c \in C : Graph!Edge(c, 0, "BELONGS_TO") \in Contained /\ Graph!Edge(c, 0, "BELONGS_TO").source = c
    BY DEF Graph!Edge
  <2>2. \A c \in I : /\ Graph!Edge(0 - chunks[c].section, 0, "BELONGS_TO") \in Contained
                     /\ Graph!Edge(0 - chunks[c].section, 0, "BELONGS_TO").source = 0 - chunks[c].section
    BY DEF Graph!Edge
  <2>. HIDE DEF Contained
  <2>. QED
    BY <2>1, <2>2
<1>. HIDE DEF Held, Contained, InARow
<1>18. Graph!NoDuplicateEdges(r, relationships)
  BY DEF Graph!NoDuplicateEdges, Distinct
<1>19. Graph!NoDanglingEdges(r)
  BY <1>8, <1>12, <1>13, <1>14, <1>15 DEF Graph!NoDanglingEdges
<1>20. Graph!EndpointTypesFit(r)
  BY <1>6, <1>12, <1>13, <1>14, <1>15, <1>16 DEF Graph!EndpointTypesFit
<1>21. Graph!NoOrphans(r)
  BY <1>8, <1>12, <1>17 DEF Graph!NoOrphans
<1>22. Graph!IsComplete(r, relationships)
  <2>1. Graph!PlannedNodes(r) \cap C = Graph!UnitsOf(r)
    BY <1>6, <1>8, <1>16
  <2>2. Graph!Projected(r) = kept
    BY <1>12, <1>13, <1>14, <1>15 DEF Graph!Projected
  <2>3. Graph!Cardinality(kept) = Cardinality(kept)
    BY DEF Graph!Cardinality, Cardinality
  <2>. QED
    BY <2>1, <2>2, <2>3, <1>3 DEF Graph!IsComplete, C
<1>. QED
  BY <1>18, <1>19, <1>20, <1>21, <1>22 DEF Graph!Accepts, r

-----------------------------------------------------------------------------

\* Whatever is in progress, the build is sound.
LEMMA BuildSound == Spec => []BuildIsSound
<1>1. Init => BuildIsSound
  BY DEF Init, ParseInit, BuildInit, BuildIsSound, Building, LinksAreEarly
<1>2. TypeOK /\ SectionsAreNested /\ PlacedAreContent /\ BuildIsSound /\ [Next]_vars => BuildIsSound'
  BY StepKeepsSound
<1>. QED
  BY <1>1, <1>2, TypeCorrect, SectionsNested, ContentIsPlaced, PTL DEF Spec

\* No paper the mapper makes is refused: the parse never ends with an invalid
\* hierarchy, and the representation is always accepted by the validator of the
\* representation and by that of the graph planned for it.
THEOREM ValidatorsNeverRefuse == Spec => []ValidatorsAccept
<1>1. TypeOK /\ BuildIsSound /\ (pc # "invalid") => ValidatorsAccept
  BY GraphIsAccepted DEF BuildIsSound, Building, ValidatorsAccept
<1>. QED
  BY <1>1, TypeCorrect, HierarchyAccepted, BuildSound, PTL

-----------------------------------------------------------------------------
(* The visit of the sections misses none.                                  *)

\* The sections from s on that stand below it, s among them; 0 is the paper.
Beneath(s) == {t \in s..Len(sections) : s = 0 \/ \A u \in (s + 1)..t : Level(u) > Level(s)}

\* Less, as a relation.
Less == {p \in Nat \X Nat : p[1] < p[2]}

\* It is less.
LEMMA LessIs == \A x, y \in Nat : <<x, y>> \in Less <=> x < y
  BY DEF Less

\* What stands below a subsection stands below the section, and before the next subsection.
LEMMA BeneathSubsections ==
  ASSUME TypeOK, SectionsAreNested, NEW s \in 0..Len(sections),
         NEW a \in DOMAIN sections, sections[a].parent = s
  PROVE  /\ a \in (s + 1)..Len(sections)
         /\ \A x \in Beneath(a) : x \in Beneath(s) /\ x > s
         /\ \A b \in DOMAIN sections : sections[b].parent = s /\ a < b => \A x \in Beneath(a) : x < b
<1>1. /\ Len(sections) \in Nat /\ DOMAIN sections = 1..Len(sections)
      /\ \A k \in DOMAIN sections : Level(k) \in Nat
  BY TreeTypes DEF Level
<1>. DEFINE above(c) == {p \in 1..(c - 1) : Level(p) < Level(c)}
<1>2. \A c \in DOMAIN sections : /\ sections[c].parent \in {0} \cup above(c)
                                 /\ \A p \in above(c) : p <= sections[c].parent
  BY DEF SectionsAreNested, Level
<1>3. a \in (s + 1)..Len(sections)
  BY <1>1, <1>2
<1>4. \A p \in 1..(a - 1) : p > s => Level(p) >= Level(a)
  <2>. SUFFICES ASSUME NEW p \in 1..(a - 1), p > s, ~(Level(p) >= Level(a))
                PROVE  FALSE
    OBVIOUS
  <2>1. p \in above(a)
    BY <1>1
  <2>2. p <= s
    BY <1>2, <2>1
  <2>. QED
    BY <2>2
<1>5. s # 0 => Level(a) > Level(s)
  BY <1>1, <1>2
<1>. HIDE DEF above
<1>6. ASSUME NEW x \in Beneath(a)
      PROVE  x \in Beneath(s) /\ x > s
  <2>1. /\ x \in a..Len(sections) /\ a # 0 /\ x > s /\ x \in s..Len(sections)
        /\ \A u \in (a + 1)..x : Level(u) > Level(a)
    BY <1>1, <1>3 DEF Beneath
  <2>2. ASSUME s # 0, NEW u \in (s + 1)..x
        PROVE  Level(u) > Level(s)
    <3>1. u \in DOMAIN sections /\ s \in DOMAIN sections
      BY <1>1, <2>1, <2>2
    <3>2. Level(u) >= Level(a)
      <4>1. CASE u < a
        <5>1. u \in 1..(a - 1) /\ u > s
          BY <1>1, <3>1, <4>1
        <5>. QED
          BY <1>4, <5>1
      <4>2. CASE u = a
        BY <1>1, <4>2
      <4>3. CASE u > a
        <5>1. u \in (a + 1)..x
          BY <1>1, <2>1, <4>3
        <5>. QED
          BY <1>1, <2>1, <3>1, <5>1
      <4>. QED
        BY <1>1, <3>1, <4>1, <4>2, <4>3
    <3>. QED
      BY <1>1, <1>5, <2>2, <3>1, <3>2
  <2>. QED
    BY <2>1, <2>2 DEF Beneath
<1>7. ASSUME NEW b \in DOMAIN sections, sections[b].parent = s, a < b, NEW x \in Beneath(a)
      PROVE  x < b
  <2>1. /\ x \in a..Len(sections) /\ a # 0
        /\ \A u \in (a + 1)..x : Level(u) > Level(a)
    BY <1>1, <1>3 DEF Beneath
  <2>2. Level(b) <= Level(a)
    <3>. SUFFICES ASSUME Level(a) < Level(b)
                  PROVE  FALSE
      BY <1>1
    <3>1. a \in above(b)
      BY <1>1, <1>3, <1>7 DEF above
    <3>2. a <= s
      BY <1>2, <1>7, <3>1
    <3>. QED
      BY <1>1, <1>3, <3>2
  <2>3. ASSUME b <= x
        PROVE  FALSE
    <3>1. b \in (a + 1)..x
      BY <1>1, <1>7, <2>1, <2>3
    <3>. QED
      BY <1>1, <2>1, <2>2, <3>1
  <2>. QED
    BY <1>1, <2>1, <2>3
<1>. QED
  BY <1>3, <1>6, <1>7

\* A visit of s goes down the table of contents, and misses nothing below s.
GoesDown(visit, s) == visit \in Seq(Beneath(s)) /\ InOrder(visit, Less)

\* The visit comes to x.
Visits(visit, x) == \E n \in DOMAIN visit : visit[n] = x

\* The visit comes to s, and with a section to all its subsections.
VisitsAll(visit, s) ==
  /\ Visits(visit, s)
  /\ \A c \in DOMAIN sections : Visits(visit, sections[c].parent) => Visits(visit, c)

\* The subsections are listed in the order of the document, each of them.
LEMMA SubsectionsAre ==
  ASSUME TypeOK, SectionsAreNested, NEW s \in 0..Len(sections)
  PROVE  /\ Subsections(s) \in Seq((s + 1)..Len(sections))
         /\ Len(sections) \in Nat /\ DOMAIN sections = 1..Len(sections)
         /\ \A k \in DOMAIN Subsections(s) :
              Subsections(s)[k] \in DOMAIN sections /\ sections[Subsections(s)[k]].parent = s
         /\ \A j, k \in DOMAIN Subsections(s) : j < k => Subsections(s)[j] < Subsections(s)[k]
         /\ \A c \in DOMAIN sections : sections[c].parent = s => \E k \in DOMAIN Subsections(s) : Subsections(s)[k] = c
<1>. DEFINE S == {c \in DOMAIN sections : sections[c].parent = s}
<1>1. Subsections(s) \in Seq((s + 1)..Len(sections)) /\ Len(sections) \in Nat /\ DOMAIN sections = 1..Len(sections)
  BY SubsectionsComeAfter, TreeTypes
<1>2. S \subseteq Nat /\ IsFiniteSet(S)
  <2>1. IsFiniteSet(1..Len(sections)) /\ S \in SUBSET (1..Len(sections))
    BY <1>1, FS_Interval
  <2>2. IsFiniteSet(S)
    <3>. HIDE DEF S
    <3>. QED
      BY <2>1, FS_Subset
  <2>. QED
    BY <1>1, <2>2
<1>3. \A c \in S : c \in DOMAIN sections /\ sections[c].parent = s
  OBVIOUS
<1>4. \A c \in DOMAIN sections : sections[c].parent = s => c \in S
  OBVIOUS
<1>5. Subsections(s) = Ascending(S)
  BY DEF Subsections
<1>. HIDE DEF S
<1>6. /\ Ascending(S) \in Seq(S)
      /\ \A j, k \in DOMAIN Ascending(S) : j < k => Ascending(S)[j] < Ascending(S)[k]
      /\ \A x \in S : \E n \in DOMAIN Ascending(S) : Ascending(S)[n] = x
  BY <1>2, AscendingIsInOrder
<1>7. \A k \in DOMAIN Ascending(S) : Ascending(S)[k] \in S
  BY <1>6
<1>. QED
  BY <1>1, <1>3, <1>4, <1>5, <1>6, <1>7

\* If the visits of the later sections go down and miss nothing, so does this one.
LEMMA VisitGoesDown ==
  ASSUME TypeOK, SectionsAreNested, NEW s \in 0..Len(sections), NEW f,
         \A c \in (s + 1)..Len(sections) : GoesDown(f[c], c) /\ VisitsAll(f[c], c)
  PROVE  GoesDown(Visit(f, s), s) /\ VisitsAll(Visit(f, s), s)
<1>. DEFINE below == Subsections(s)
            parts == [k \in DOMAIN below |-> f[below[k]]]
            flat == FlattenSeq(parts)
            visit == <<s>> \o flat
            B == Beneath(s) \ {s}
<1>1. /\ below \in Seq((s + 1)..Len(sections))
      /\ Len(sections) \in Nat /\ DOMAIN sections = 1..Len(sections)
      /\ \A k \in DOMAIN below : below[k] \in DOMAIN sections /\ sections[below[k]].parent = s
      /\ \A j, k \in DOMAIN below : j < k => below[j] < below[k]
      /\ \A c \in DOMAIN sections : sections[c].parent = s => \E k \in DOMAIN below : below[k] = c
  BY SubsectionsAre
<1>2. Visit(f, s) = visit
  BY DEF Visit
<1>. HIDE DEF below
<1>3. \A k \in DOMAIN below : /\ GoesDown(f[below[k]], below[k]) /\ VisitsAll(f[below[k]], below[k])
                              /\ Beneath(below[k]) \subseteq B
  <2>. SUFFICES ASSUME NEW k \in DOMAIN below
                PROVE  /\ GoesDown(f[below[k]], below[k]) /\ VisitsAll(f[below[k]], below[k])
                       /\ Beneath(below[k]) \subseteq B
    OBVIOUS
  <2>1. below[k] \in (s + 1)..Len(sections)
    BY <1>1
  <2>2. \A x \in Beneath(below[k]) : x \in Beneath(s) /\ x > s
    BY <1>1, BeneathSubsections
  <2>3. s \notin Beneath(below[k])
    BY <2>2
  <2>. QED
    BY <2>1, <2>2, <2>3
<1>. HIDE DEF B
<1>4. /\ Len(below) \in Nat /\ DOMAIN below = 1..Len(below)
      /\ DOMAIN parts = DOMAIN below /\ \A k \in DOMAIN below : parts[k] = f[below[k]]
  BY <1>1
<1>. HIDE DEF parts
<1>5. \A k \in DOMAIN parts : parts[k] \in Seq(Beneath(below[k])) /\ parts[k] \in Seq(B) /\ InOrder(parts[k], Less)
  BY <1>3, <1>4, SeqMonotonic DEF GoesDown
<1>6. parts \in Seq(Seq(B))
  <2>1. parts \in [1..Len(below) -> Seq(B)]
    <3>1. parts = [k \in 1..Len(below) |-> parts[k]]
      BY <1>4 DEF parts
    <3>. QED
      BY <1>4, <1>5, <3>1
  <2>. QED
    BY <1>4, <2>1, SeqDef
<1>7. B \subseteq Nat /\ \A x \in B : s < x /\ x \in Beneath(s)
  BY <1>1 DEF B, Beneath
<1>8. AllInOrder(parts, Less)
  <2>1. ASSUME NEW k \in DOMAIN parts, NEW l \in DOMAIN parts, k < l,
               NEW i \in DOMAIN parts[k], NEW j \in DOMAIN parts[l]
        PROVE  <<parts[k][i], parts[l][j]>> \in Less
    <3>. DEFINE x == parts[k][i]
                y == parts[l][j]
    <3>1. /\ x \in Beneath(below[k]) /\ x \in B /\ y \in Beneath(below[l]) /\ y \in B
      BY <1>5
    <3>. HIDE DEF x, y
    <3>2. below[k] < below[l]
      BY <1>1, <1>4, <2>1
    <3>3. x < below[l]
      <4>1. \A u \in Beneath(below[k]) : u < below[l]
        BY <1>1, <1>4, <3>2, BeneathSubsections
      <4>. QED
        BY <3>1, <4>1
    <3>4. below[l] <= y /\ below[l] \in Nat
      BY <1>1, <1>4, <3>1 DEF Beneath
    <3>5. x \in Nat /\ y \in Nat
      BY <1>7, <3>1
    <3>6. \A a, b, c \in Nat : a < b /\ b <= c => a < c
      OBVIOUS
    <3>7. x < y
      BY <3>3, <3>4, <3>5, <3>6
    <3>. QED
      BY <3>5, <3>7, LessIs DEF x, y
  <2>. QED
    BY <1>5, <2>1 DEF AllInOrder
<1>9. flat \in Seq(B) /\ InOrder(flat, Less) /\ InRows(flat, parts)
  BY <1>6, <1>8, FlattenIsSeq, FlattenIsInOrder, FlattenIsInRows
<1>. HIDE DEF flat
<1>10. s \in Beneath(s) /\ s \in Nat
  <2>1. s \in s..Len(sections) /\ (s + 1)..s = {}
    BY <1>1
  <2>. QED
    BY <1>1, <2>1 DEF Beneath
<1>11. /\ visit \in Seq(Beneath(s)) /\ Len(flat) \in Nat /\ DOMAIN flat = 1..Len(flat)
       /\ DOMAIN visit = 1..(1 + Len(flat)) /\ visit[1] = s
       /\ \A n \in 1..Len(flat) : visit[1 + n] = flat[n]
  <2>1. flat \in Seq(Beneath(s)) /\ <<s>> \in Seq(Beneath(s)) /\ Len(<<s>>) = 1 /\ <<s>>[1] = s
    <3>1. B \subseteq Beneath(s)
      BY <1>7
    <3>. QED
      BY <1>9, <1>10, <3>1, SeqMonotonic
  <2>2. /\ visit \in Seq(Beneath(s)) /\ Len(visit) = 1 + Len(flat)
        /\ \A n \in 1..(1 + Len(flat)) : visit[n] = IF n <= 1 THEN <<s>>[n] ELSE flat[n - 1]
    <3>1. /\ visit \in Seq(Beneath(s)) /\ Len(visit) = Len(<<s>>) + Len(flat)
          /\ \A n \in 1..(Len(<<s>>) + Len(flat)) :
               visit[n] = IF n <= Len(<<s>>) THEN <<s>>[n] ELSE flat[n - Len(<<s>>)]
      BY <2>1, ConcatProperties
    <3>. QED
      BY <2>1, <3>1
  <2>. HIDE DEF visit
  <2>3. Len(flat) \in Nat /\ DOMAIN flat = 1..Len(flat) /\ DOMAIN visit = 1..(1 + Len(flat))
    BY <2>1, <2>2, LenProperties
  <2>4. \A n \in 1..Len(flat) : 1 + n \in 1..(1 + Len(flat)) /\ ~(1 + n <= 1) /\ (1 + n) - 1 = n
    BY <2>3
  <2>5. 1 \in 1..(1 + Len(flat))
    BY <2>3
  <2>. QED
    BY <2>1, <2>2, <2>3, <2>4, <2>5, SMTT(20)
<1>12. InOrder(visit, Less)
  <2>1. InOrder(<<s>>, Less) /\ DOMAIN <<s>> = {1} /\ <<s>>[1] = s
    BY DEF InOrder
  <2>2. \A j \in DOMAIN <<s>>, k \in DOMAIN flat : <<<<s>>[j], flat[k]>> \in Less
    <3>1. \A k \in DOMAIN flat : flat[k] \in B
      BY <1>9
    <3>. QED
      BY <1>7, <1>10, <2>1, <3>1, LessIs
  <2>3. <<s>> \in Seq(Nat)
    BY <1>10
  <2>4. flat \in Seq(Nat)
    BY <1>7, <1>9, SeqMonotonic
  <2>. QED
    BY <1>9, <2>1, <2>2, <2>3, <2>4, ConcatIsInOrder
<1>. HIDE DEF visit
<1>13. \A k \in DOMAIN parts : \A x : Visits(parts[k], x) => Visits(visit, x)
  <2>. SUFFICES ASSUME NEW k \in DOMAIN parts, NEW x, Visits(parts[k], x)
                PROVE  Visits(visit, x)
    OBVIOUS
  <2>1. PICK j \in DOMAIN parts[k] : parts[k][j] = x
    BY DEF Visits
  <2>2. PICK n \in DOMAIN flat : flat[n] = x
    BY <1>9, <2>1 DEF InRows
  <2>3. 1 + n \in DOMAIN visit /\ visit[1 + n] = x
    BY <1>11, <2>2
  <2>. QED
    BY <2>3 DEF Visits
<1>14. Visits(visit, s)
  <2>1. 1 \in DOMAIN visit
    BY <1>11
  <2>. QED
    BY <1>11, <2>1 DEF Visits
<1>15. ASSUME NEW c \in DOMAIN sections, Visits(visit, sections[c].parent)
       PROVE  Visits(visit, c)
  <2>1. PICK n \in DOMAIN visit : visit[n] = sections[c].parent
    BY <1>15 DEF Visits
  <2>2. CASE n = 1
    <3>1. PICK k \in DOMAIN below : below[k] = c
      BY <1>1, <1>11, <2>1, <2>2
    <3>2. Visits(parts[k], c)
      BY <1>3, <1>4, <3>1 DEF VisitsAll
    <3>. QED
      BY <1>4, <1>13, <3>2
  <2>3. CASE n # 1
    <3>. DEFINE m == n - 1
    <3>1. m \in DOMAIN flat /\ n = 1 + m
      BY <1>11, <2>3
    <3>. HIDE DEF m
    <3>2. flat[m] = sections[c].parent
      BY <1>11, <2>1, <3>1
    <3>3. PICK k \in DOMAIN parts : \E j \in DOMAIN parts[k] : flat[m] = parts[k][j]
      BY <1>9, <3>1 DEF InRows
    <3>4. Visits(parts[k], sections[c].parent)
      BY <3>2, <3>3 DEF Visits
    <3>5. Visits(parts[k], c)
      BY <1>3, <1>4, <3>4 DEF VisitsAll
    <3>. QED
      BY <1>13, <3>5
  <2>. QED
    BY <2>2, <2>3
<1>. QED
  BY <1>2, <1>11, <1>12, <1>14, <1>15 DEF GoesDown, VisitsAll

\* Every visit goes down the table of contents and misses nothing.
LEMMA DepthFirstGoesDown ==
  ASSUME TypeOK, SectionsAreNested
  PROVE  \A s \in 0..Len(sections) : GoesDown(DepthFirst[s], s) /\ VisitsAll(DepthFirst[s], s)
<1>. DEFINE N == Len(sections)
            Good(s) == GoesDown(DepthFirst[s], s) /\ VisitsAll(DepthFirst[s], s)
            B == {m \in Nat : \A s \in 0..N : s + m >= N => Good(s)}
<1>0. N \in Nat
  BY TreeTypes
<1>1. \A s \in 0..N : (\A c \in (s + 1)..N : Good(c)) => Good(s)
  <2>. SUFFICES ASSUME NEW s \in 0..N, \A c \in (s + 1)..N : Good(c)
                PROVE  Good(s)
    OBVIOUS
  <2>1. DepthFirst[s] = Visit(DepthFirst, s)
    BY DepthFirstEnds
  <2>2. GoesDown(Visit(DepthFirst, s), s) /\ VisitsAll(Visit(DepthFirst, s), s)
    BY VisitGoesDown
  <2>. QED
    BY <2>1, <2>2
<1>. HIDE DEF Good
<1>2. 0 \in B
  <2>1. ASSUME NEW s \in 0..N, s + 0 >= N
        PROVE  Good(s)
    <3>1. (s + 1)..N = {}
      BY <1>0, <2>1
    <3>. QED
      BY <1>1, <3>1
  <2>. QED
    BY <2>1
<1>3. ASSUME NEW m \in Nat, m \in B
      PROVE  m + 1 \in B
  <2>1. ASSUME NEW s \in 0..N, s + (m + 1) >= N
        PROVE  Good(s)
    <3>1. \A c \in (s + 1)..N : c \in 0..N /\ c + m >= N
      BY <1>0, <2>1
    <3>. QED
      BY <1>1, <1>3, <3>1
  <2>. QED
    BY <2>1
<1>4. N \in B
  <2>. HIDE DEF B
  <2>. QED
    BY <1>0, <1>2, <1>3, NumberInduction
<1>5. \A s \in 0..N : s + N >= N
  BY <1>0
<1>. QED
  BY <1>4, <1>5 DEF Good

\* The visit of the paper comes to every section once, in the order of their headings.
LEMMA SectionsAreVisited ==
  ASSUME TypeOK, SectionsAreNested
  PROVE  /\ DepthFirst[0] \in Seq(0..Len(sections)) /\ Len(sections) \in Nat
         /\ InOrder(DepthFirst[0], Less) /\ Distinct(DepthFirst[0])
         /\ \A s \in 0..Len(sections) : Visits(DepthFirst[0], s)
<1>. DEFINE order == DepthFirst[0]
            N == Len(sections)
            B == {m \in Nat : \A s \in 0..N : s <= m => Visits(order, s)}
<1>0. N \in Nat /\ DOMAIN sections = 1..N /\ 0 \in 0..N
  BY TreeTypes
<1>1. order \in Seq(0..N)
  BY <1>0, DepthFirstIsSeq
<1>2. InOrder(order, Less) /\ VisitsAll(order, 0)
  BY <1>0, DepthFirstGoesDown DEF GoesDown
<1>. HIDE DEF order
<1>3. Distinct(order)
  <2>. SUFFICES ASSUME NEW j \in DOMAIN order, NEW k \in DOMAIN order, order[j] = order[k], j # k
                PROVE  FALSE
    BY DEF Distinct
  <2>1. Len(order) \in Nat /\ DOMAIN order = 1..Len(order) /\ \A i \in DOMAIN order : order[i] \in Nat
    BY <1>0, <1>1
  <2>2. j < k \/ k < j
    BY <2>1
  <2>3. <<order[j], order[k]>> \in Less \/ <<order[k], order[j]>> \in Less
    BY <1>2, <2>2 DEF InOrder
  <2>. QED
    BY <2>1, <2>3, LessIs
<1>4. \A c \in 1..N : sections[c].parent \in 0..(c - 1)
  <2>. SUFFICES ASSUME NEW c \in 1..N
                PROVE  sections[c].parent \in 0..(c - 1)
    OBVIOUS
  <2>1. sections[c].parent = 0 \/ sections[c].parent \in 1..(c - 1)
    BY <1>0 DEF SectionsAreNested
  <2>. QED
    BY <2>1
<1>5. 0 \in B
  <2>1. \A s \in 0..N : s <= 0 => s = 0
    OBVIOUS
  <2>. QED
    BY <1>2, <2>1 DEF VisitsAll
<1>6. ASSUME NEW m \in Nat, m \in B
      PROVE  m + 1 \in B
  <2>1. ASSUME NEW s \in 0..N, s <= m + 1
        PROVE  Visits(order, s)
    <3>1. CASE s = 0
      BY <1>2, <3>1 DEF VisitsAll
    <3>2. CASE s # 0
      <4>1. s \in 1..N /\ sections[s].parent \in 0..(s - 1)
        BY <1>4, <2>1, <3>2
      <4>2. sections[s].parent \in 0..N /\ sections[s].parent <= m
        <5>1. \A p \in 0..(s - 1) : p \in 0..N /\ p <= m
          BY <1>0, <2>1, <4>1
        <5>. QED
          BY <4>1, <5>1
      <4>3. Visits(order, sections[s].parent)
        BY <1>6, <4>2
      <4>. QED
        BY <1>0, <1>2, <4>1, <4>3 DEF VisitsAll
    <3>. QED
      BY <3>1, <3>2
  <2>. QED
    BY <2>1
<1>7. N \in B
  <2>. HIDE DEF B
  <2>. QED
    BY <1>0, <1>5, <1>6, NumberInduction
<1>8. \A s \in 0..N : s <= N
  BY <1>0
<1>9. \A s \in 0..N : Visits(order, s)
  BY <1>7, <1>8
<1>. QED
  BY <1>0, <1>1, <1>2, <1>3, <1>9 DEF order

\* No item has been placed twice.
PlacedOnce == \A j, k \in DOMAIN placed : placed[j].item = placed[k].item => j = k

\* Nothing that was placed gets lost or repeated in the reading order.
LEMMA ReadingOrderIsWhole ==
  ASSUME TypeOK, SectionsAreNested, PlacedAreContent, PlacedOnce
  PROVE  /\ ReadingOrder \in Seq(PlacedItems) /\ Distinct(ReadingOrder)
         /\ \A i \in PlacedItems : \E n \in DOMAIN ReadingOrder : ReadingOrder[n] = i
<1>. DEFINE order == DepthFirst[0]
            parts == [k \in DOMAIN order |-> InPlace(order[k])]
<1>1. /\ order \in Seq(0..Len(sections)) /\ Len(sections) \in Nat /\ Distinct(order)
      /\ \A s \in 0..Len(sections) : Visits(order, s)
  BY SectionsAreVisited
<1>2. ReadingOrder = FlattenSeq(parts)
  BY DEF ReadingOrder
<1>. HIDE DEF order
<1>3. \A s : InPlace(s) \in Seq(PlacedItems) /\ Lists(InPlace(s), Precedes(s), ItemsIn(s))
  BY InPlaceIsInOrder
<1>4. \A s : /\ Distinct(InPlace(s))
             /\ \A n \in DOMAIN InPlace(s) : InPlace(s)[n] \in ItemsIn(s)
             /\ \A i \in ItemsIn(s) : \E n \in DOMAIN InPlace(s) : InPlace(s)[n] = i
  <2>. SUFFICES ASSUME NEW s
                PROVE  /\ Distinct(InPlace(s))
                       /\ \A n \in DOMAIN InPlace(s) : InPlace(s)[n] \in ItemsIn(s)
                       /\ \A i \in ItemsIn(s) : \E n \in DOMAIN InPlace(s) : InPlace(s)[n] = i
    OBVIOUS
  <2>1. Lists(InPlace(s), Precedes(s), ItemsIn(s))
    BY <1>3
  <2>. QED
    BY <2>1 DEF Lists, Distinct
<1>5. Len(order) \in Nat /\ DOMAIN order = 1..Len(order) /\ DOMAIN parts = DOMAIN order
      /\ \A k \in DOMAIN order : parts[k] = InPlace(order[k])
  BY <1>1
<1>6. parts \in Seq(Seq(PlacedItems))
  BY <1>3, <1>5
<1>. HIDE DEF parts
<1>7. \A s, t, i : i \in ItemsIn(s) /\ i \in ItemsIn(t) => s = t
  BY DEF ItemsIn, PlacedOnce
<1>8. Apart(parts)
  <2>1. ASSUME NEW k \in DOMAIN parts, NEW l \in DOMAIN parts, k # l,
               NEW i \in DOMAIN parts[k], NEW j \in DOMAIN parts[l]
        PROVE  parts[k][i] # parts[l][j]
    <3>1. order[k] # order[l]
      BY <1>1, <1>5, <2>1 DEF Distinct
    <3>2. parts[k][i] \in ItemsIn(order[k]) /\ parts[l][j] \in ItemsIn(order[l])
      BY <1>4, <1>5
    <3>. QED
      BY <1>7, <3>1, <3>2
  <2>. QED
    BY <1>4, <1>5, <2>1 DEF Apart
<1>9. Distinct(FlattenSeq(parts)) /\ FlattenSeq(parts) \in Seq(PlacedItems)
      /\ InRows(FlattenSeq(parts), parts)
  BY <1>6, <1>8, FlattenIsDistinct, FlattenIsSeq, FlattenIsInRows
<1>10. ASSUME NEW i \in PlacedItems
       PROVE  \E n \in DOMAIN FlattenSeq(parts) : FlattenSeq(parts)[n] = i
  <2>1. PICK m \in DOMAIN placed : placed[m].item = i
    BY DEF PlacedItems
  <2>2. placed[m].section \in 0..Len(sections) /\ i \in ItemsIn(placed[m].section)
    <3>1. placed \in Seq(Placement) /\ DOMAIN sections = 1..Len(sections)
      BY DEF TypeOK, Placement
    <3>2. placed[m] \in Placement
      BY <3>1
    <3>3. placed[m].section \in 0..Len(sections)
      BY <1>1, <3>1, <3>2 DEF Placement
    <3>. QED
      BY <2>1, <3>3 DEF ItemsIn
  <2>3. PICK k \in DOMAIN order : order[k] = placed[m].section
    BY <1>1, <2>2 DEF Visits
  <2>4. PICK j \in DOMAIN parts[k] : parts[k][j] = i
    BY <1>4, <1>5, <2>2, <2>3
  <2>. QED
    BY <1>5, <1>9, <2>4 DEF InRows
<1>. QED
  BY <1>2, <1>9, <1>10

-----------------------------------------------------------------------------
(* Every item of the body is in one place.                                 *)

\* One more element of its own.
LEMMA AppendIsDistinct ==
  ASSUME NEW S, NEW s \in Seq(S), Distinct(s), NEW e \in S, e \notin Range(s)
  PROVE  Append(s, e) \in Seq(S) /\ Distinct(Append(s, e)) /\ Range(Append(s, e)) = Range(s) \cup {e}
<1>. DEFINE t == Append(s, e)
<1>1. /\ t \in Seq(S) /\ Len(s) \in Nat /\ DOMAIN s = 1..Len(s) /\ DOMAIN t = 1..(Len(s) + 1)
      /\ \A k \in 1..Len(s) : t[k] = s[k]
      /\ t[Len(s) + 1] = e
  OBVIOUS
<1>. HIDE DEF t
<1>2. \A k \in DOMAIN t : k \in DOMAIN s \/ k = Len(s) + 1
  BY <1>1
<1>3. \A k \in DOMAIN s : k \in DOMAIN t /\ k # Len(s) + 1
  BY <1>1
<1>4. Len(s) + 1 \in DOMAIN t
  BY <1>1
<1>5. Range(t) = Range(s) \cup {e}
  BY <1>1, <1>2, <1>3, <1>4 DEF Range
<1>6. Distinct(t)
  <2>1. \A k \in DOMAIN s : t[k] # e
    BY <1>1 DEF Range
  <2>. QED
    BY <1>1, <1>2, <1>3, <2>1 DEF Distinct
<1>. QED
  BY <1>1, <1>5, <1>6 DEF t

-----------------------------------------------------------------------------

\* The texts that are not blank.
Blocks == {i \in DOMAIN doc : doc[i].kind = "text" /\ doc[i].text # <<>>}

\* Where the mapper has looked at every item.
AfterMapping == {"persist", "interrupted", "parsed"} \cup Building

\* Every block that was looked at stands in one place: in the abstract, in the
\* bibliography or in the body, and once.
TextIsDivided ==
  /\ Distinct(abstract) /\ Distinct(bibliography) /\ PlacedOnce
  /\ Range(abstract) \cup Range(bibliography) \cup PlacedItems \subseteq 1..(at - 1)
  /\ Range(abstract) \cap Range(bibliography) = {}
  /\ (Range(abstract) \cup Range(bibliography)) \cap PlacedItems = {}
  /\ \A i \in Blocks : i < at => i \in Range(abstract) \cup Range(bibliography) \cup PlacedItems
  /\ pc \in AfterMapping => at = Len(doc) + 1

\* An item that was looked at and left out is no block.
LEMMA LeftOutIsNoBlock ==
  ASSUME TypeOK, TextIsDivided, pc = "map", pc' = "map", UNCHANGED <<doc, abstract, bibliography, placed>>,
         at' = at \/ (at' = at + 1 /\ at \notin Blocks)
  PROVE  TextIsDivided'
<1>1. at \in Nat
  BY DEF TypeOK
<1>2. Blocks' = Blocks /\ PlacedItems' = PlacedItems /\ (PlacedOnce' <=> PlacedOnce)
  BY DEF Blocks, PlacedItems, PlacedOnce
<1>3. 1..(at - 1) \subseteq 1..(at' - 1)
  BY <1>1
<1>4. \A i \in Blocks : i < at' => i < at
  <2>1. \A i \in Blocks : i \in Nat
    BY DEF Blocks, TypeOK
  <2>. QED
    BY <1>1, <2>1
<1>5. pc' \notin AfterMapping
  BY DEF AfterMapping, Building
<1>6. Range(abstract)' = Range(abstract) /\ Range(bibliography)' = Range(bibliography)
      /\ (Distinct(abstract)' <=> Distinct(abstract)) /\ (Distinct(bibliography)' <=> Distinct(bibliography))
  BY DEF Range, Distinct
<1>. QED
  BY <1>2, <1>3, <1>4, <1>5, <1>6 DEF TextIsDivided

\* A step of the mapper takes a block to one place.
LEMMA MapKeepsDivision ==
  ASSUME TypeOK, TextIsDivided, MapItem
  PROVE  TextIsDivided'
<1>1. pc = "map" /\ pc' = "map" /\ doc' = doc
  BY DEF MapItem, SkipItem, StrayHeading, SpecialHeading, CloseSection, OpenSection, NewSection, AbstractText,
     ReferenceText, Place, Text, Heading, Mapping
<1>2. CASE SkipItem \/ StrayHeading \/ SpecialHeading \/ CloseSection \/ OpenSection
  <2>1. UNCHANGED <<abstract, bibliography, placed>>
    BY <1>2 DEF SkipItem, StrayHeading, SpecialHeading, CloseSection, OpenSection, paper
  <2>2. at' = at \/ (at' = at + 1 /\ at \notin Blocks)
    BY <1>2 DEF SkipItem, StrayHeading, SpecialHeading, CloseSection, OpenSection, NewSection, Heading, Blocks
  <2>. QED
    BY <1>1, <2>1, <2>2, LeftOutIsNoBlock
<1>3. ASSUME at <= Len(doc)
      PROVE  /\ at \in DOMAIN doc /\ at \in Nat
             /\ 1..(at - 1) \cup {at} = 1..((at + 1) - 1) /\ at \notin 1..(at - 1)
             /\ \A i \in Blocks : i < at + 1 => i < at \/ i = at
             /\ Blocks' = Blocks /\ pc' \notin AfterMapping
  <2>1. at \in 1..(Len(doc) + 1) /\ Len(doc) \in Nat /\ DOMAIN doc = 1..Len(doc)
    BY DEF TypeOK
  <2>2. \A i \in Blocks : i \in Nat
    BY <2>1 DEF Blocks
  <2>3. Blocks' = Blocks /\ pc' \notin AfterMapping
    BY <1>1 DEF Blocks, AfterMapping, Building
  <2>. QED
    BY <1>3, <2>1, <2>2, <2>3
<1>4. abstract \in Seq(DOMAIN doc) /\ bibliography \in Seq(DOMAIN doc) /\ placed \in Seq(Placement)
  BY DEF TypeOK, Placement
<1>5. CASE AbstractText
  <2>1. at <= Len(doc) /\ at' = at + 1 /\ abstract' = Append(abstract, at) /\ UNCHANGED <<bibliography, placed>>
    BY <1>5 DEF AbstractText, Text, Mapping
  <2>2. at \notin Range(abstract) /\ at \notin Range(bibliography) /\ at \notin PlacedItems
    BY <1>3, <2>1 DEF TextIsDivided
  <2>3. Distinct(abstract') /\ Range(abstract') = Range(abstract) \cup {at}
    BY <1>3, <1>4, <2>1, <2>2, AppendIsDistinct DEF TextIsDivided
  <2>4. PlacedItems' = PlacedItems /\ (PlacedOnce' <=> PlacedOnce) /\ Range(bibliography') = Range(bibliography)
        /\ (Distinct(bibliography') <=> Distinct(bibliography))
    BY <1>1, <2>1 DEF PlacedItems, PlacedOnce
  <2>. QED
    BY <1>3, <2>1, <2>2, <2>3, <2>4 DEF TextIsDivided
<1>6. CASE ReferenceText
  <2>1. at <= Len(doc) /\ at' = at + 1 /\ bibliography' = Append(bibliography, at) /\ UNCHANGED <<abstract, placed>>
    BY <1>6 DEF ReferenceText, Text, Mapping
  <2>2. at \notin Range(abstract) /\ at \notin Range(bibliography) /\ at \notin PlacedItems
    BY <1>3, <2>1 DEF TextIsDivided
  <2>3. Distinct(bibliography') /\ Range(bibliography') = Range(bibliography) \cup {at}
    BY <1>3, <1>4, <2>1, <2>2, AppendIsDistinct DEF TextIsDivided
  <2>4. PlacedItems' = PlacedItems /\ (PlacedOnce' <=> PlacedOnce) /\ Range(abstract') = Range(abstract)
        /\ (Distinct(abstract') <=> Distinct(abstract))
    BY <1>1, <2>1 DEF PlacedItems, PlacedOnce
  <2>. QED
    BY <1>3, <2>1, <2>2, <2>3, <2>4 DEF TextIsDivided
<1>7. CASE Place
  <2>. DEFINE new == [item |-> at, section |-> CurrentSection]
  <2>1. at <= Len(doc) /\ at' = at + 1 /\ placed' = Append(placed, new) /\ UNCHANGED <<abstract, bibliography>>
    BY <1>7 DEF Place, Text, Mapping
  <2>2. at \notin Range(abstract) /\ at \notin Range(bibliography) /\ at \notin PlacedItems
    BY <1>3, <2>1 DEF TextIsDivided
  <2>3. new \in Placement /\ new.item = at
    BY <1>3, <2>1, CurrentSectionExists DEF Placement
  <2>. HIDE DEF new
  <2>4. /\ Len(placed) \in Nat /\ DOMAIN placed = 1..Len(placed) /\ DOMAIN placed' = 1..(Len(placed) + 1)
        /\ \A k \in 1..Len(placed) : placed'[k] = placed[k]
        /\ placed'[Len(placed) + 1] = new
    BY <1>4, <2>1, <2>3
  <2>5. \A k \in DOMAIN placed' : k \in DOMAIN placed \/ k = Len(placed) + 1
    BY <2>4
  <2>6. \A k \in DOMAIN placed : k \in DOMAIN placed' /\ placed'[k].item = placed[k].item
    BY <2>4
  <2>7. Len(placed) + 1 \in DOMAIN placed' /\ placed'[Len(placed) + 1].item = at
    BY <2>3, <2>4
  <2>8. PlacedItems' = PlacedItems \cup {at}
    BY <2>5, <2>6, <2>7 DEF PlacedItems
  <2>9. PlacedOnce'
    <3>1. \A k \in DOMAIN placed : placed[k].item # at
      BY <2>2 DEF PlacedItems
    <3>. QED
      BY <2>5, <2>6, <2>7, <3>1 DEF PlacedOnce, TextIsDivided
  <2>10. Range(abstract') = Range(abstract) /\ Range(bibliography') = Range(bibliography)
         /\ (Distinct(abstract') <=> Distinct(abstract)) /\ (Distinct(bibliography') <=> Distinct(bibliography))
    BY <2>1
  <2>. QED
    BY <1>3, <2>1, <2>2, <2>8, <2>9, <2>10 DEF TextIsDivided
<1>. QED
  BY <1>2, <1>5, <1>6, <1>7 DEF MapItem

\* So does every step.
LEMMA StepKeepsDivision ==
  ASSUME TypeOK, TextIsDivided, [Next]_vars
  PROVE  TextIsDivided'
<1>1. CASE MapItem
  BY <1>1, MapKeepsDivision
<1>2. CASE UNCHANGED <<doc, at, paper>> /\ (pc' \in AfterMapping => pc \in AfterMapping \/ at = Len(doc) + 1)
  <2>1. UNCHANGED <<doc, at, abstract, bibliography, placed>>
    BY <1>2 DEF paper
  <2>2. PlacedItems' = PlacedItems /\ (PlacedOnce' <=> PlacedOnce) /\ Blocks' = Blocks
    BY <2>1 DEF PlacedItems, PlacedOnce, Blocks
  <2>3. /\ Range(abstract') = Range(abstract) /\ Range(bibliography') = Range(bibliography)
        /\ (Distinct(abstract') <=> Distinct(abstract)) /\ (Distinct(bibliography') <=> Distinct(bibliography))
    BY <2>1
  <2>. QED
    BY <1>2, <2>1, <2>2, <2>3 DEF TextIsDivided
<1>3. ASSUME Convert
      PROVE  TextIsDivided'
  <2>1. pc = "convert" /\ pc' \notin AfterMapping /\ UNCHANGED <<doc, at, placed, abstract, bibliography>>
    BY <1>3 DEF Convert, mapping, AfterMapping, Building
  <2>2. PlacedItems' = PlacedItems /\ (PlacedOnce' <=> PlacedOnce) /\ Blocks' = Blocks
    BY <2>1 DEF PlacedItems, PlacedOnce, Blocks
  <2>3. /\ Range(abstract') = Range(abstract) /\ Range(bibliography') = Range(bibliography)
        /\ (Distinct(abstract') <=> Distinct(abstract)) /\ (Distinct(bibliography') <=> Distinct(bibliography))
    BY <2>1
  <2>. QED
    BY <2>1, <2>2, <2>3 DEF TextIsDivided
<1>4. ASSUME Validate
      PROVE  UNCHANGED <<doc, at, paper>> /\ at = Len(doc) + 1
  <2>1. at \in 1..(Len(doc) + 1) /\ Len(doc) \in Nat /\ at > Len(doc)
    BY <1>4 DEF Validate, TypeOK
  <2>2. at = Len(doc) + 1
    BY <2>1
  <2>. QED
    BY <1>4, <2>2 DEF Validate, mapping
<1>5. ASSUME Persist
      PROVE  UNCHANGED <<doc, at, paper>> /\ pc \in AfterMapping
  BY <1>5 DEF Persist, mapping, AfterMapping
<1>6. ASSUME Build
      PROVE  UNCHANGED <<doc, at, paper>> /\ pc \in AfterMapping
  BY <1>6 DEF Build, StartBuild, TakeParagraph, TakeVisual, Walking, FinishWalk, Detect, Check, mapping,
     AfterMapping, Building
<1>7. ASSUME UNCHANGED vars
      PROVE  UNCHANGED <<doc, at, paper, pc>>
  BY <1>7 DEF vars, parseVars, paper
<1>. QED
  BY <1>1, <1>2, <1>3, <1>4, <1>5, <1>6, <1>7 DEF Next, Parse

\* Every block is in one place, from the start and after every step: the mapper puts a
\* text in the abstract, the bibliography or the body, whatever it has seen before.
THEOREM TextStaysDivided == Spec => []TextIsDivided
<1>1. Init => TextIsDivided
  <2>. SUFFICES ASSUME Init
                PROVE  TextIsDivided
    OBVIOUS
  <2>1. placed = <<>> /\ abstract = <<>> /\ bibliography = <<>> /\ at = 1 /\ pc = "convert"
    BY DEF Init, ParseInit
  <2>2. DOMAIN <<>> = {}
    OBVIOUS
  <2>3. Range(<<>>) = {} /\ Distinct(<<>>) /\ PlacedItems = {} /\ PlacedOnce
    BY <2>1, <2>2 DEF Range, Distinct, PlacedItems, PlacedOnce
  <2>4. doc \in Seq(Item)
    BY DocumentsAreSequences DEF Init, ParseInit
  <2>5. \A i \in Blocks : ~(i < 1)
    BY <2>4 DEF Blocks
  <2>6. pc \notin AfterMapping
    BY <2>1 DEF AfterMapping, Building
  <2>. QED
    BY <2>1, <2>3, <2>5, <2>6 DEF TextIsDivided
<1>2. TypeOK /\ TextIsDivided /\ [Next]_vars => TextIsDivided'
  BY StepKeepsDivision
<1>. QED
  BY <1>1, <1>2, TypeCorrect, PTL DEF Spec

-----------------------------------------------------------------------------
(* What the chunks show.                                                   *)

\* What the chunks show, for any chunks and links.
ContinuedIn(links, c) == \E k \in DOMAIN links : links[k].type = "CONTINUES" /\ links[k].target = c

\* What a chunk adds to the chunks before it.
FreshOf(links, c, text) == IF ContinuedIn(links, c) THEN FlattenSeq(Tail(Sentences(text))) ELSE text

\* What each chunk adds.
AllFresh(chs, links) == [c \in DOMAIN chs |-> FreshOf(links, c, chs[c].text)]

\* What they show, in their order.
ShownOf(chs, links) == FlattenSeq(AllFresh(chs, links))

\* It is what Knowledge says is shown.
LEMMA ShownIs == Shown = ShownOf(chunks, relationships)
  BY DEF Shown, ShownOf, AllFresh, FreshOf, Fresh, Continued, ContinuedIn

\* Links of chunks, and more links to new chunks that add text of their own.
Extends(chs, new, links, more, added) ==
  /\ \A k \in DOMAIN links : links[k].target \in 1..Len(chs)
  /\ \A k \in DOMAIN more : more[k].target \notin 1..Len(chs)
  /\ AllFresh(chs, links) \in Seq(Seq(Piece))
  /\ added \in Seq(Seq(Piece)) /\ Len(added) = Len(new)
  /\ \A n \in 1..Len(new) : added[n] = FreshOf(more, Len(chs) + n, new[n].text)

\* New chunks and links to them leave alone what the chunks before show.
LEMMA ShownGrows ==
  ASSUME NEW C, NEW R, NEW chs \in Seq(C), NEW new \in Seq(C), NEW links \in Seq(R), NEW more \in Seq(R),
         NEW added, Extends(chs, new, links, more, added)
  PROVE  /\ AllFresh(chs \o new, links \o more) \in Seq(Seq(Piece))
         /\ ShownOf(chs \o new, links \o more) = ShownOf(chs, links) \o FlattenSeq(added)
<1>. DEFINE all == chs \o new
            both == links \o more
            L == Len(chs)
            N == Len(new)
<1>0. /\ \A k \in DOMAIN links : links[k].target \in 1..Len(chs)
      /\ \A k \in DOMAIN more : more[k].target \notin 1..Len(chs)
      /\ AllFresh(chs, links) \in Seq(Seq(Piece))
      /\ added \in Seq(Seq(Piece)) /\ Len(added) = Len(new)
      /\ \A n \in 1..Len(new) : added[n] = FreshOf(more, Len(chs) + n, new[n].text)
  BY DEF Extends
<1>1. /\ L \in Nat /\ N \in Nat /\ DOMAIN chs = 1..L /\ DOMAIN new = 1..N
      /\ all \in Seq(C) /\ Len(all) = L + N /\ DOMAIN all = 1..(L + N)
      /\ \A c \in 1..L : all[c] = chs[c]
      /\ \A n \in 1..N : all[L + n] = new[n]
  <2>1. /\ all \in Seq(C) /\ Len(all) = L + N
        /\ \A i \in 1..(L + N) : all[i] = IF i <= L THEN chs[i] ELSE new[i - L]
    BY ConcatProperties
  <2>2. L \in Nat /\ N \in Nat /\ DOMAIN chs = 1..L /\ DOMAIN new = 1..N
    OBVIOUS
  <2>. HIDE DEF all, L, N
  <2>3. DOMAIN all = 1..(L + N)
    BY <2>1
  <2>4. \A n \in 1..N : L + n \in 1..(L + N) /\ ~(L + n <= L) /\ (L + n) - L = n
    BY <2>2
  <2>5. \A c \in 1..L : c \in 1..(L + N) /\ c <= L
    BY <2>2
  <2>. QED
    BY <2>1, <2>2, <2>3, <2>4, <2>5
<1>2. HasBoth(both, links, more)
  BY ConcatHasBoth
<1>. HIDE DEF all, both
<1>. HIDE DEF L, N
<1>a. /\ \A k \in DOMAIN links : links[k].target \in 1..L
      /\ \A k \in DOMAIN more : more[k].target \notin 1..L
  BY <1>0 DEF L
<1>b. Len(added) = N /\ \A n \in 1..N : added[n] = FreshOf(more, L + n, new[n].text)
  BY <1>0 DEF L, N
<1>4. \A c \in 1..L : ContinuedIn(both, c) <=> ContinuedIn(links, c)
  <2>. SUFFICES ASSUME NEW c \in 1..L
                PROVE  ContinuedIn(both, c) <=> ContinuedIn(links, c)
    OBVIOUS
  <2>1. ASSUME ContinuedIn(both, c)
        PROVE  ContinuedIn(links, c)
    <3>1. PICK k \in DOMAIN both : both[k].type = "CONTINUES" /\ both[k].target = c
      BY <2>1 DEF ContinuedIn
    <3>2. ~ \E j \in DOMAIN more : both[k] = more[j]
      BY <1>a, <3>1
    <3>3. PICK j \in DOMAIN links : both[k] = links[j]
      BY <1>2, <3>2 DEF HasBoth
    <3>. QED
      BY <3>1, <3>3 DEF ContinuedIn
  <2>2. ASSUME ContinuedIn(links, c)
        PROVE  ContinuedIn(both, c)
    <3>1. PICK j \in DOMAIN links : links[j].type = "CONTINUES" /\ links[j].target = c
      BY <2>2 DEF ContinuedIn
    <3>2. PICK k \in DOMAIN both : both[k] = links[j]
      BY <1>2 DEF HasBoth
    <3>. QED
      BY <3>1, <3>2 DEF ContinuedIn
  <2>. QED
    BY <2>1, <2>2
<1>5. \A n \in 1..N : ContinuedIn(both, L + n) <=> ContinuedIn(more, L + n)
  <2>. SUFFICES ASSUME NEW n \in 1..N
                PROVE  ContinuedIn(both, L + n) <=> ContinuedIn(more, L + n)
    OBVIOUS
  <2>0. L + n \notin 1..L
    BY <1>1
  <2>1. ASSUME ContinuedIn(both, L + n)
        PROVE  ContinuedIn(more, L + n)
    <3>1. PICK k \in DOMAIN both : both[k].type = "CONTINUES" /\ both[k].target = L + n
      BY <2>1 DEF ContinuedIn
    <3>2. ~ \E j \in DOMAIN links : both[k] = links[j]
      BY <1>a, <2>0, <3>1
    <3>3. PICK j \in DOMAIN more : both[k] = more[j]
      BY <1>2, <3>2 DEF HasBoth
    <3>. QED
      BY <3>1, <3>3 DEF ContinuedIn
  <2>2. ASSUME ContinuedIn(more, L + n)
        PROVE  ContinuedIn(both, L + n)
    <3>1. PICK j \in DOMAIN more : more[j].type = "CONTINUES" /\ more[j].target = L + n
      BY <2>2 DEF ContinuedIn
    <3>2. PICK k \in DOMAIN both : both[k] = more[j]
      BY <1>2 DEF HasBoth
    <3>. QED
      BY <3>1, <3>2 DEF ContinuedIn
  <2>. QED
    BY <2>1, <2>2
<1>. DEFINE old == AllFresh(chs, links)
            whole == AllFresh(all, both)
<1>6. /\ DOMAIN old = 1..L /\ Len(old) = L /\ \A c \in 1..L : old[c] = FreshOf(links, c, chs[c].text)
  BY <1>1 DEF AllFresh
<1>7. DOMAIN whole = 1..(L + N) /\ \A c \in 1..(L + N) : whole[c] = FreshOf(both, c, all[c].text)
  BY <1>1 DEF AllFresh
<1>. HIDE DEF whole, old
<1>8. /\ old \o added \in Seq(Seq(Piece)) /\ Len(old \o added) = L + N
      /\ \A i \in 1..(L + N) : (old \o added)[i] = IF i <= L THEN old[i] ELSE added[i - L]
  <2>0. old \in Seq(Seq(Piece))
    BY <1>0 DEF old
  <2>1. old \in Seq(Seq(Piece)) /\ Len(old) = L /\ Len(added) = N
    BY <1>0, <1>6, <1>b, <2>0
  <2>2. \A x, y \in Seq(Seq(Piece)) :
          /\ x \o y \in Seq(Seq(Piece)) /\ Len(x \o y) = Len(x) + Len(y)
          /\ \A i \in 1..(Len(x) + Len(y)) : (x \o y)[i] = IF i <= Len(x) THEN x[i] ELSE y[i - Len(x)]
    BY ConcatProperties
  <2>3. /\ old \o added \in Seq(Seq(Piece)) /\ Len(old \o added) = Len(old) + Len(added)
        /\ \A i \in 1..(Len(old) + Len(added)) : (old \o added)[i] = IF i <= Len(old) THEN old[i] ELSE added[i - Len(old)]
    BY <1>0, <2>1, <2>2
  <2>. QED
    BY <2>1, <2>3
<1>9. \A i \in 1..(L + N) : whole[i] = (old \o added)[i]
  <2>. SUFFICES ASSUME NEW i \in 1..(L + N)
                PROVE  whole[i] = (old \o added)[i]
    OBVIOUS
  <2>1. CASE i <= L
    <3>1. i \in 1..L
      BY <1>1, <2>1
    <3>2. whole[i] = FreshOf(both, i, chs[i].text) /\ (old \o added)[i] = FreshOf(links, i, chs[i].text)
      BY <1>1, <1>6, <1>7, <1>8, <2>1, <3>1
    <3>. QED
      BY <1>4, <3>1, <3>2 DEF FreshOf
  <2>2. CASE ~(i <= L)
    <3>. DEFINE n == i - L
    <3>1. n \in 1..N /\ i = L + n
      BY <1>1, <2>2
    <3>2. (old \o added)[i] = added[n]
      BY <1>8, <2>2
    <3>. HIDE DEF n
    <3>3. whole[i] = FreshOf(both, L + n, new[n].text) /\ added[n] = FreshOf(more, L + n, new[n].text)
      BY <1>1, <1>7, <1>b, <3>1
    <3>. QED
      BY <1>5, <3>1, <3>2, <3>3 DEF FreshOf
  <2>. QED
    BY <2>1, <2>2
<1>10. whole = old \o added
  <2>1. DOMAIN (old \o added) = 1..(L + N)
    BY <1>8
  <2>2. (old \o added) = [i \in 1..(L + N) |-> (old \o added)[i]]
    <3>. DEFINE r == old \o added
    <3>. HIDE DEF r
    <3>1. r \in Seq(Seq(Piece)) /\ DOMAIN r = 1..(L + N)
      BY <1>8, <2>1 DEF r
    <3>2. r = [i \in 1..(L + N) |-> r[i]]
      BY <3>1
    <3>. QED
      BY <3>2 DEF r
  <2>3. whole = [i \in 1..(L + N) |-> whole[i]]
    BY <1>7 DEF whole, AllFresh
  <2>. QED
    BY <1>9, <2>2, <2>3
<1>11. FlattenSeq(old \o added) = FlattenSeq(old) \o FlattenSeq(added)
  <2>1. old \in Seq(Seq(Piece)) /\ added \in Seq(Seq(Piece))
    BY <1>0 DEF old
  <2>. HIDE DEF old
  <2>. QED
    BY <2>1, FlattenConcat
<1>. QED
  BY <1>8, <1>10, <1>11 DEF ShownOf, whole, old, all, both

\* The parts of the buffer show what is in the buffer.
LEMMA FlushedPartsAreWhole ==
  ASSUME TypeOK, PlacedAreContent, buffer \in Seq(PlacedTexts)
  PROVE  /\ FlushedParts \in Seq(FullParts)
         /\ FlattenSeq([k \in DOMAIN FlushedParts |-> FreshText(FlushedParts[k])]) = TextOf(buffer)
<1>. DEFINE texts == [k \in DOMAIN buffer |-> doc[buffer[k]].text]
<1>1. \A i \in PlacedTexts : doc[i].text \in Texts
  <2>1. \A i \in PlacedTexts : i \in Content /\ doc[i].kind = "text"
    BY DEF PlacedTexts, PlacedAreContent
  <2>2. \A i \in PlacedTexts : doc[i].text \in Seq(Piece) /\ doc[i].text # <<>>
    BY <2>1, ContentHasPlaces DEF Content
  <2>. QED
    BY <2>2 DEF Texts
<1>2. texts \in Seq(Texts)
  <2>1. Len(buffer) \in Nat /\ DOMAIN buffer = 1..Len(buffer)
        /\ \A k \in DOMAIN buffer : buffer[k] \in PlacedTexts
    OBVIOUS
  <2>. QED
    BY <1>1, <2>1
<1>3. FlushedParts = PartsOf(texts) /\ TextOf(buffer) = FlattenSeq(texts)
  BY DEF FlushedParts, TextOf
<1>. HIDE DEF texts
<1>. QED
  BY <1>2, <1>3, PartsAreWhole

\* The links of a flush mark the parts that continue others.
LEMMA FlushedLinksFollow ==
  ASSUME TypeOK, PlacedAreContent, buffer \in Seq(PlacedTexts), buffer # <<>>,
         chunks \in Seq(ChunkRecord), NEW k \in DOMAIN FlushedParts
  PROVE  ContinuedIn(FlushedLinks, Len(chunks) + k) <=> FlushedParts[k].continues
<1>. DEFINE S == {j \in DOMAIN FlushedParts : FlushedParts[j].continues}
            later == Ascending(S)
            L == Len(chunks)
            new(i) == Link(L + later[i] - 1, L + later[i], "CONTINUES")
<1>1. FlushedParts \in Seq(Parts) /\ L \in Nat
  BY FlushedPartsAreTyped
<1>2. Len(FlushedParts) \in Nat /\ DOMAIN FlushedParts = 1..Len(FlushedParts)
  BY <1>1
<1>3. S \subseteq Nat /\ IsFiniteSet(S) /\ \A j \in DOMAIN FlushedParts : j \in S <=> FlushedParts[j].continues
  <2>1. IsFiniteSet(1..Len(FlushedParts)) /\ S \in SUBSET (1..Len(FlushedParts))
    BY <1>2, FS_Interval
  <2>2. \A j \in DOMAIN FlushedParts : j \in S <=> FlushedParts[j].continues
    OBVIOUS
  <2>. HIDE DEF S
  <2>3. IsFiniteSet(S)
    BY <2>1, FS_Subset
  <2>. QED
    BY <1>2, <2>1, <2>2, <2>3
<1>4. FlushedLinks = [i \in DOMAIN later |-> new(i)]
  BY DEF FlushedLinks
<1>. HIDE DEF S
<1>5. /\ later \in Seq(S) /\ Len(later) = Cardinality(S) /\ Cardinality(S) \in Nat /\ DOMAIN later = 1..Cardinality(S)
      /\ \A x \in S : \E n \in DOMAIN later : later[n] = x
  BY <1>3, AscendingIsInOrder
<1>. HIDE DEF later, L
<1>6. \A i \in DOMAIN later : later[i] \in S
  BY <1>5
<1>7. DOMAIN FlushedLinks = DOMAIN later
      /\ \A i \in DOMAIN later : FlushedLinks[i].target = L + later[i] /\ FlushedLinks[i].type = "CONTINUES"
  BY <1>4 DEF Link
<1>8. ASSUME FlushedParts[k].continues
      PROVE  ContinuedIn(FlushedLinks, L + k)
  <2>1. k \in S
    BY <1>3, <1>8
  <2>2. PICK i \in DOMAIN later : later[i] = k
    BY <1>5, <2>1
  <2>. QED
    BY <1>7, <2>2 DEF ContinuedIn
<1>9. ASSUME ContinuedIn(FlushedLinks, L + k)
      PROVE  FlushedParts[k].continues
  <2>1. PICK i \in DOMAIN later : L + later[i] = L + k
    BY <1>7, <1>9 DEF ContinuedIn
  <2>2. later[i] \in S /\ later[i] \in Nat /\ k \in Nat
    <3>1. later[i] \in S
      BY <1>6
    <3>2. k \in Nat
      BY <1>2
    <3>. QED
      BY <1>3, <3>1, <3>2
  <2>3. later[i] = k
    BY <1>1, <2>1, <2>2
  <2>. QED
    BY <1>3, <2>2, <2>3
<1>. QED
  BY <1>8, <1>9 DEF L

\* What the chunks show is text.
ShownIsText == AllFresh(chunks, relationships) \in Seq(Seq(Piece))

\* A flush appends what is in the buffer, and what the followers show.
LEMMA FlushShows ==
  ASSUME TypeOK, PlacedAreContent, BuildIsTyped, ShownIsText,
         NEW followers \in Seq(ChunkRecord), Flush(followers),
         NEW texts \in Seq(Seq(Piece)), Len(texts) = Len(followers),
         \A n \in 1..Len(followers) : texts[n] = followers[n].text
  PROVE  /\ ShownIsText'
         /\ Shown' = (Shown \o TextOf(buffer)) \o FlattenSeq(texts)
<1>. DEFINE R == [source: Nat, target: Nat, type: {"CONTINUES", "CITES", "REFERENCES"}]
            L == Len(chunks)
            first == chunks \o FlushedChunks
            links == relationships \o FlushedLinks
            n == L + Len(FlushedChunks)
            fresh == [k \in DOMAIN FlushedParts |-> FreshText(FlushedParts[k])]
            added == IF buffer = <<>> THEN <<>> ELSE fresh
<1>1. /\ chunks \in Seq(ChunkRecord) /\ chunks # <<>> /\ buffer \in Seq(PlacedTexts)
      /\ relationships \in Seq(Relationship)
      /\ Len(chunks) \in Nat /\ DOMAIN chunks = 1..Len(chunks)
  BY DEF BuildIsTyped
<1>2. FlushedChunks \in Seq(ChunkRecord) /\ Len(FlushedChunks) \in Nat
  BY <1>1, FlushedChunksAreTyped, LenProperties
<1>3. n \in Nat /\ Len(chunks) + Len(FlushedChunks) <= n
  BY <1>1, <1>2
<1>a. \A m \in Nat : Len(chunks) + Len(FlushedChunks) <= m =>
        /\ FlushedLinks \in Seq([source: 1..m, target: 1..m, type: {"CONTINUES"}])
        /\ \A k \in DOMAIN FlushedLinks : Len(chunks) < FlushedLinks[k].target
  BY <1>1, FlushedLinksAreNew
<1>4. /\ FlushedLinks \in Seq([source: 1..n, target: 1..n, type: {"CONTINUES"}])
      /\ \A k \in DOMAIN FlushedLinks : Len(chunks) < FlushedLinks[k].target
  BY <1>3, <1>a
<1>5. FlushedLinks \in Seq(R) /\ relationships \in Seq(R)
  <2>1. [source: 1..n, target: 1..n, type: {"CONTINUES"}] \subseteq R
    BY <1>3
  <2>2. Relationship \subseteq R
    BY <1>1 DEF Relationship
  <2>. HIDE DEF R
  <2>. QED
    BY <1>1, <1>4, <2>1, <2>2, SeqMonotonic
<1>6. \A k \in DOMAIN relationships : relationships[k].target \in 1..L
  <2>1. \A k \in DOMAIN relationships : relationships[k] \in Relationship
    BY <1>1
  <2>. QED
    BY <1>1, <2>1 DEF Relationship
<1>7. \A k \in DOMAIN FlushedLinks : FlushedLinks[k].target \notin 1..L /\ FlushedLinks[k].target \in 1..n
  <2>. DEFINE T == [source: 1..n, target: 1..n, type: {"CONTINUES"}]
  <2>1. \A x \in T : x.target \in 1..n
    OBVIOUS
  <2>. HIDE DEF T
  <2>2. \A k \in DOMAIN FlushedLinks : FlushedLinks[k] \in T
    <3>1. FlushedLinks \in Seq(T)
      BY <1>4 DEF T
    <3>. QED
      BY <3>1
  <2>3. \A k \in DOMAIN FlushedLinks : FlushedLinks[k].target \in 1..n
    BY <2>1, <2>2
  <2>. QED
    BY <1>1, <1>3, <1>4, <2>3
<1>. HIDE DEF R
<1>8. /\ added \in Seq(Seq(Piece)) /\ Len(added) = Len(FlushedChunks)
      /\ \A k \in 1..Len(FlushedChunks) : added[k] = FreshOf(FlushedLinks, L + k, FlushedChunks[k].text)
      /\ FlattenSeq(added) = TextOf(buffer)
  <2>1. CASE buffer = <<>>
    <3>1. added = <<>> /\ FlushedChunks = <<>>
      BY <2>1 DEF FlushedChunks
    <3>2. TextOf(buffer) = <<>>
      <4>1. [k \in DOMAIN <<>> |-> doc[<<>>[k]].text] = <<>>
        OBVIOUS
      <4>. QED
        BY <2>1, <4>1, FlattenNothing DEF TextOf
    <3>. HIDE DEF added
    <3>. QED
      BY <3>1, <3>2, FlattenNothing
  <2>2. CASE buffer # <<>>
    <3>1. added = fresh
      BY <2>2
    <3>2. /\ FlushedParts \in Seq(FullParts)
          /\ FlattenSeq(fresh) = TextOf(buffer)
      BY <1>1, FlushedPartsAreWhole
    <3>3. Len(FlushedChunks) = Len(FlushedParts)
      BY <1>1, <2>2, FlushedChunksAreTyped
    <3>4. Len(FlushedParts) \in Nat /\ DOMAIN FlushedParts = 1..Len(FlushedParts)
          /\ \A k \in DOMAIN FlushedParts : FlushedParts[k] \in FullParts
      BY <3>2
    <3>5. \A k \in DOMAIN FlushedParts : FreshText(FlushedParts[k]) \in Seq(Piece)
      BY <3>4, FreshIsSeq
    <3>6. fresh \in [1..Len(FlushedParts) -> Seq(Piece)] /\ \A k \in 1..Len(FlushedParts) : fresh[k] = FreshText(FlushedParts[k])
      BY <3>4, <3>5
    <3>. HIDE DEF added, fresh
    <3>7. fresh \in Seq(Seq(Piece)) /\ Len(fresh) = Len(FlushedParts)
      <4>1. fresh \in Seq(Seq(Piece))
        BY <3>4, <3>6, SeqDef
      <4>2. DOMAIN fresh = 1..Len(FlushedParts)
        BY <3>6
      <4>. QED
        BY <3>4, <4>1, <4>2, LenProperties
    <3>8. ASSUME NEW k \in 1..Len(FlushedParts)
          PROVE  FreshText(FlushedParts[k]) = FreshOf(FlushedLinks, L + k, FlushedChunks[k].text)
      <4>1. ContinuedIn(FlushedLinks, L + k) <=> FlushedParts[k].continues
        BY <1>1, <2>2, <3>4, FlushedLinksFollow
      <4>2. FlushedChunks[k].text = FlushedParts[k].text
        BY <2>2, <3>4 DEF FlushedChunks, Chunk
      <4>. QED
        BY <4>1, <4>2 DEF FreshOf, FreshText
    <3>. QED
      BY <3>1, <3>2, <3>3, <3>6, <3>7, <3>8
  <2>. QED
    BY <2>1, <2>2
<1>. HIDE DEF added, fresh
<1>9. /\ AllFresh(first, links) \in Seq(Seq(Piece))
      /\ ShownOf(first, links) = ShownOf(chunks, relationships) \o FlattenSeq(added)
  <2>1. Extends(chunks, FlushedChunks, relationships, FlushedLinks, added)
    BY <1>6, <1>7, <1>8 DEF ShownIsText, Extends
  <2>. QED
    BY <1>1, <1>2, <1>5, <2>1, ShownGrows
<1>10. /\ first \in Seq(ChunkRecord) /\ Len(first) = n /\ links \in Seq(R)
       /\ \A k \in DOMAIN links : links[k].target \in 1..n
  <2>1. first \in Seq(ChunkRecord) /\ Len(first) = n
    BY <1>1, <1>2, ConcatProperties
  <2>2. /\ links \in Seq(R) /\ Len(links) = Len(relationships) + Len(FlushedLinks)
        /\ \A i \in 1..(Len(relationships) + Len(FlushedLinks)) :
             links[i] = IF i <= Len(relationships) THEN relationships[i] ELSE FlushedLinks[i - Len(relationships)]
    BY <1>5, ConcatProperties
  <2>3. /\ Len(relationships) \in Nat /\ DOMAIN relationships = 1..Len(relationships)
        /\ Len(FlushedLinks) \in Nat /\ DOMAIN FlushedLinks = 1..Len(FlushedLinks)
    BY <1>5
  <2>. HIDE DEF links
  <2>4. DOMAIN links = 1..(Len(relationships) + Len(FlushedLinks))
    BY <2>2
  <2>5. \A i \in 1..(Len(relationships) + Len(FlushedLinks)) :
          ~(i <= Len(relationships)) => i - Len(relationships) \in 1..Len(FlushedLinks)
    BY <2>3
  <2>6. \A i \in 1..(Len(relationships) + Len(FlushedLinks)) :
          i <= Len(relationships) => i \in 1..Len(relationships)
    BY <2>3
  <2>7. \A t \in 1..L : t \in 1..n
    BY <1>1, <1>2
  <2>. QED
    BY <1>6, <1>7, <2>1, <2>2, <2>3, <2>4, <2>5, <2>6, <2>7
<1>11. chunks' = first \o followers /\ relationships' = links \o <<>>
  <2>1. chunks' = (chunks \o FlushedChunks) \o followers /\ relationships' = links
    BY DEF Flush
  <2>2. links \o <<>> = links
    BY <1>10, ConcatEmptySeq
  <2>. QED
    BY <2>1, <2>2
<1>. HIDE DEF first, links, n
<1>12. /\ AllFresh(first \o followers, links \o <<>>) \in Seq(Seq(Piece))
       /\ ShownOf(first \o followers, links \o <<>>) = ShownOf(first, links) \o FlattenSeq(texts)
  <2>1. <<>> \in Seq(R) /\ DOMAIN <<>> = {}
    OBVIOUS
  <2>2. \A c : FreshOf(<<>>, Len(first) + c, followers[c].text) = followers[c].text
    BY <2>1 DEF FreshOf, ContinuedIn
  <2>3. \A k \in 1..Len(followers) : texts[k] = FreshOf(<<>>, Len(first) + k, followers[k].text)
    BY <2>2
  <2>4. Extends(first, followers, links, <<>>, texts)
    BY <1>9, <1>10, <2>1, <2>3 DEF Extends
  <2>. DEFINE none == <<>>
  <2>5. none \in Seq(R) /\ Extends(first, followers, links, none, texts)
    BY <2>1, <2>4
  <2>. HIDE DEF none
  <2>6. /\ AllFresh(first \o followers, links \o none) \in Seq(Seq(Piece))
        /\ ShownOf(first \o followers, links \o none) = ShownOf(first, links) \o FlattenSeq(texts)
    BY <1>10, <2>5, ShownGrows
  <2>. QED
    BY <2>6 DEF none
<1>13. Shown' = ShownOf(chunks', relationships') /\ (ShownIsText' <=> AllFresh(chunks', relationships') \in Seq(Seq(Piece)))
  BY DEF ShownIsText, Shown, ShownOf, AllFresh, FreshOf, Fresh, Continued, ContinuedIn
<1>. QED
  BY <1>8, <1>9, <1>11, <1>12, <1>13, ShownIs

-----------------------------------------------------------------------------
(* Where the text of the document is.                                      *)

\* The text of items followed by others.
LEMMA TextOfConcat ==
  ASSUME TypeOK, NEW s \in Seq(DOMAIN doc), NEW t \in Seq(DOMAIN doc)
  PROVE  TextOf(s \o t) = TextOf(s) \o TextOf(t) /\ TextOf(s) \in Seq(Piece) /\ TextOf(t) \in Seq(Piece)
<1>. DEFINE f == [i \in DOMAIN doc |-> doc[i].text]
<1>1. \A i \in DOMAIN doc : doc[i].text \in Seq(Piece)
  <2>1. \A i \in DOMAIN doc : doc[i] \in Item
    BY DEF TypeOK
  <2>. QED
    BY <2>1 DEF Item
<1>2. Maps(f, DOMAIN doc, Seq(Piece)) /\ \A i \in DOMAIN doc : f[i] = doc[i].text
  BY <1>1 DEF Maps
<1>. HIDE DEF f
<1>3. \A r \in Seq(DOMAIN doc) : TextOf(r) = FlattenSeq(Mapped(f, r)) /\ Mapped(f, r) \in Seq(Seq(Piece))
  <2>. SUFFICES ASSUME NEW r \in Seq(DOMAIN doc)
                PROVE  TextOf(r) = FlattenSeq(Mapped(f, r)) /\ Mapped(f, r) \in Seq(Seq(Piece))
    OBVIOUS
  <2>1. \A k \in DOMAIN r : r[k] \in DOMAIN doc
    OBVIOUS
  <2>2. [k \in DOMAIN r |-> doc[r[k]].text] = [k \in DOMAIN r |-> f[r[k]]]
    BY <1>2, <2>1
  <2>3. Mapped(f, r) \in Seq(Seq(Piece))
    BY <1>2, MappedIsSeq
  <2>. QED
    BY <2>2, <2>3 DEF TextOf, Mapped
<1>4. s \o t \in Seq(DOMAIN doc)
  BY ConcatProperties
<1>5. Mapped(f, s \o t) = Mapped(f, s) \o Mapped(f, t)
  BY <1>2, MappedConcat
<1>6. FlattenSeq(Mapped(f, s) \o Mapped(f, t)) = FlattenSeq(Mapped(f, s)) \o FlattenSeq(Mapped(f, t))
  BY <1>3, FlattenConcat
<1>7. TextOf(s) \in Seq(Piece) /\ TextOf(t) \in Seq(Piece)
  BY TextOfIsTyped
<1>. QED
  BY <1>3, <1>4, <1>5, <1>6, <1>7

\* Wherever the bibliography is cut, its parts are the whole of it.
LEMMA ReferencesAreWhole ==
  ASSUME TypeOK
  PROVE  FlattenSeq(References) = TextOf(bibliography)
<1>. DEFINE combined == TextOf(bibliography)
            brackets == {k \in DOMAIN combined : Bracketed(combined[k])}
            blocks == [k \in DOMAIN bibliography |-> doc[bibliography[k]].text]
<1>1. combined \in Seq(Piece)
  BY TextOfIsTyped DEF TypeOK
<1>2. References = IF Cardinality(brackets) >= 2 THEN CutBefore(combined, {1} \cup brackets) ELSE blocks
  BY DEF References
<1>3. combined = FlattenSeq(blocks) /\ brackets \subseteq DOMAIN combined
  BY DEF TextOf
<1>. HIDE DEF combined, brackets, blocks
<1>4. ASSUME Cardinality(brackets) >= 2
      PROVE  FlattenSeq(CutBefore(combined, {1} \cup brackets)) = combined
  <2>1. brackets # {}
    BY <1>4, FS_EmptySet
  <2>2. {1} \cup brackets \in SUBSET DOMAIN combined /\ 1 \in {1} \cup brackets
    BY <1>1, <1>3, <2>1
  <2>. QED
    BY <1>1, <2>2, CutIsWhole
<1>. QED
  BY <1>2, <1>3, <1>4 DEF combined

\* What the first chunks show.
LEMMA FirstChunksShow ==
  ASSUME TypeOK
  PROVE  /\ AllFresh(<<TitleChunk>> \o AbstractChunks, <<>>) \in Seq(Seq(Piece))
         /\ ShownOf(<<TitleChunk>> \o AbstractChunks, <<>>) = TextOf(abstract)
<1>1. DOMAIN <<>> = {}
  OBVIOUS
<1>2. \A c, text : FreshOf(<<>>, c, text) = text
  BY <1>1 DEF FreshOf, ContinuedIn
<1>3. TextOf(abstract) \in Seq(Piece)
  BY TextOfIsTyped DEF TypeOK
<1>. DEFINE text == TextOf(abstract)
            a == Chunk("abstract", 0, text, 0, "abstract")
<1>4. TitleChunk.text = <<>> /\ a.text = text
  BY DEF TitleChunk, Chunk
<1>5. CASE abstract = <<>>
  <2>1. <<TitleChunk>> \o AbstractChunks = <<TitleChunk>>
    BY <1>5 DEF AbstractChunks
  <2>2. AllFresh(<<TitleChunk>>, <<>>) = << <<>> >>
    BY <1>2, <1>4 DEF AllFresh
  <2>3. text = <<>>
    <3>1. [k \in DOMAIN <<>> |-> doc[<<>>[k]].text] = <<>>
      OBVIOUS
    <3>. QED
      BY <1>5, <3>1, FlattenNothing DEF TextOf
  <2>4. <<>> \in Seq(Piece) /\ << <<>> >> \in Seq(Seq(Piece))
    OBVIOUS
  <2>5. FlattenSeq(<< <<>> >>) = <<>>
    BY <2>4, FlattenOne
  <2>. QED
    BY <2>1, <2>2, <2>3, <2>4, <2>5 DEF ShownOf
<1>6. CASE abstract # <<>>
  <2>1. <<TitleChunk>> \o AbstractChunks = <<TitleChunk, a>>
    <3>1. AbstractChunks = <<a>>
      BY <1>6 DEF AbstractChunks
    <3>. HIDE DEF a
    <3>2. \A x, y : <<x>> \o <<y>> = <<x, y>>
      <4>. SUFFICES ASSUME NEW x, NEW y
                    PROVE  <<x>> \o <<y>> = <<x, y>>
        OBVIOUS
      <4>. DEFINE S == {x, y}
      <4>1. x \in S /\ y \in S
        OBVIOUS
      <4>. HIDE DEF S
      <4>2. <<x>> \in Seq(S)
        BY <4>1
      <4>3. Append(<<x>>, y) = <<x, y>>
        <5>. DEFINE r == Append(<<x>>, y)
        <5>1. Len(<<x>>) = 1 /\ <<x>>[1] = x
          OBVIOUS
        <5>2. r \in Seq(S) /\ Len(r) = Len(<<x>>) + 1 /\ r[Len(<<x>>) + 1] = y /\ \A k \in 1..Len(<<x>>) : r[k] = <<x>>[k]
          BY <4>1, <4>2, AppendProperties
        <5>. HIDE DEF r
        <5>3. Len(r) = 2 /\ r[1] = x /\ r[2] = y
          BY <5>1, <5>2
        <5>4. r = <<x, y>>
          BY <5>2, <5>3
        <5>. QED
          BY <5>4 DEF r
      <4>4. Append(<<x>>, y) = <<x>> \o <<y>>
        BY <4>1, <4>2, AppendIsConcat
      <4>. QED
        BY <4>3, <4>4
    <3>. QED
      BY <3>1, <3>2
  <2>. HIDE DEF a, text
  <2>2. AllFresh(<<TitleChunk, a>>, <<>>) = << <<>>, text >>
    BY <1>2, <1>4 DEF AllFresh
  <2>3. text \in Seq(Piece)
    BY <1>3 DEF text
  <2>4. <<>> \in Seq(Piece) /\ << <<>> >> \in Seq(Seq(Piece)) /\ << <<>>, text >> \in Seq(Seq(Piece))
        /\ << <<>>, text >> = Append(<< <<>> >>, text)
    BY <2>3
  <2>5. FlattenSeq(<< <<>> >>) = <<>>
    BY <2>4, FlattenOne
  <2>6. FlattenSeq(Append(<< <<>> >>, text)) = <<>> \o text
    BY <2>3, <2>4, <2>5, FlattenByPart
  <2>7. <<>> \o text = text
    BY <2>3, ConcatEmptySeq
  <2>. QED
    BY <2>1, <2>2, <2>4, <2>6, <2>7 DEF ShownOf, text
<1>. QED
  BY <1>5, <1>6

-----------------------------------------------------------------------------

\* What has not been shown yet but for the buffer and what is to do.
Held == IF pc = "walk" THEN Range(bibliography) ELSE {}

\* The chunks show the items that were used, and every other block still waits.
Accounts(used) ==
  /\ used \in Seq(DOMAIN doc) /\ Shown = TextOf(used)
  /\ Distinct(used) /\ Distinct(buffer) /\ Distinct(todo)
  /\ Range(used) \cap Range(buffer) = {}
  /\ (Range(used) \cup Range(buffer)) \cap Range(todo) = {}
  /\ (Range(used) \cup Range(buffer) \cup Range(todo)) \cap Held = {}
  /\ Blocks \subseteq Range(used) \cup Range(buffer) \cup Range(todo) \cup Held

\* The inductive invariant of the text: while the build goes on, what is shown is the text
\* of items of the document, and no block is lost.
TextIsAccounted ==
  /\ pc \in Building => ShownIsText /\ \E used : Accounts(used)
  /\ pc \in Building \ {"walk"} => buffer = <<>> /\ todo = <<>>

\* At the start everything but the abstract is to do.
LEMMA StartAccounts ==
  ASSUME TypeOK, SectionsAreNested, PlacedAreContent, TextIsDivided, BuildIsSound, StartBuild
  PROVE  TextIsAccounted'
<1>1. /\ pc \in AfterMapping /\ pc' = "walk" /\ UNCHANGED <<doc, paper, buffer, relationships>>
      /\ todo' = ReadingOrder /\ chunks' = <<TitleChunk>> \o AbstractChunks
  BY DEF StartBuild, AfterMapping
<1>2. buffer' = <<>> /\ relationships' = <<>>
  BY <1>1 DEF BuildIsSound, StartBuild, Building, BuildInit
<1>3. ShownIsText' /\ Shown' = TextOf(abstract)
  <2>1. Shown' = ShownOf(chunks', relationships') /\ (ShownIsText' <=> AllFresh(chunks', relationships') \in Seq(Seq(Piece)))
    BY DEF ShownIsText, Shown, ShownOf, AllFresh, FreshOf, Fresh, Continued, ContinuedIn
  <2>. QED
    BY <1>1, <1>2, <2>1, FirstChunksShow
<1>4. /\ doc' = doc /\ abstract' = abstract /\ bibliography' = bibliography /\ placed' = placed
  BY <1>1 DEF paper
<1>5. /\ Blocks' = Blocks /\ Held' = Range(bibliography) /\ \A s : TextOf(s)' = TextOf(s)
  BY <1>1, <1>4 DEF Blocks, Held, TextOf
<1>6. /\ Distinct(todo') /\ Range(todo') = PlacedItems
  <2>1. PlacedOnce
    BY DEF TextIsDivided
  <2>2. /\ ReadingOrder \in Seq(PlacedItems) /\ Distinct(ReadingOrder)
        /\ \A i \in PlacedItems : \E n \in DOMAIN ReadingOrder : ReadingOrder[n] = i
    BY <2>1, ReadingOrderIsWhole
  <2>3. Range(ReadingOrder) = PlacedItems
    <3>1. \A n \in DOMAIN ReadingOrder : ReadingOrder[n] \in PlacedItems
      BY <2>2
    <3>. QED
      BY <2>2, <3>1 DEF Range
  <2>. QED
    BY <1>1, <2>2, <2>3
<1>7. Distinct(buffer') /\ Range(buffer') = {}
  <2>1. DOMAIN <<>> = {}
    OBVIOUS
  <2>. QED
    BY <1>2, <2>1 DEF Distinct, Range
<1>8. \A i \in Blocks : i \in Range(abstract) \cup Range(bibliography) \cup PlacedItems
  <2>1. \A i \in Blocks : i < at
    <3>1. at = Len(doc) + 1
      BY <1>1 DEF TextIsDivided
    <3>2. \A i \in Blocks : i \in 1..Len(doc) /\ Len(doc) \in Nat
      BY DEF Blocks, TypeOK
    <3>. QED
      BY <3>1, <3>2
  <2>. QED
    BY <2>1 DEF TextIsDivided
<1>9. \E used : Accounts(used)'
  <2>1. PICK used : used = abstract
    OBVIOUS
  <2>2. used \in Seq(DOMAIN doc) /\ Distinct(used)
    BY <2>1 DEF TypeOK, TextIsDivided
  <2>3. /\ Range(used) \cap Range(bibliography) = {}
        /\ (Range(used) \cup Range(bibliography)) \cap PlacedItems = {}
        /\ Blocks \subseteq Range(used) \cup Range(bibliography) \cup PlacedItems
    BY <1>8, <2>1 DEF TextIsDivided
  <2>4. Shown' = TextOf(used)'
    BY <1>3, <1>5, <2>1
  <2>5. Accounts(used)'
    BY <1>4, <1>5, <1>6, <1>7, <2>2, <2>3, <2>4 DEF Accounts
  <2>. QED
    BY <2>5
<1>. QED
  BY <1>1, <1>3, <1>9 DEF TextIsAccounted

\* The items in the buffer and to do are items of the document.
LEMMA WaitingAreItems ==
  ASSUME TypeOK, PlacedAreContent, BuildIsTyped
  PROVE  buffer \in Seq(DOMAIN doc) /\ todo \in Seq(DOMAIN doc) /\ buffer \in Seq(PlacedTexts) /\ todo \in Seq(PlacedItems)
<1>1. PlacedItems \subseteq DOMAIN doc /\ PlacedTexts \subseteq DOMAIN doc
  BY DEF PlacedAreContent, Content, PlacedTexts
<1>. QED
  BY <1>1, SeqMonotonic DEF BuildIsTyped

\* After a flush the buffer was used.
LEMMA FlushAccounts ==
  ASSUME TypeOK, PlacedAreContent, BuildIsTyped, ShownIsText, NEW used, Accounts(used),
         NEW followers \in Seq(ChunkRecord), Flush(followers),
         NEW texts \in Seq(Seq(Piece)), Len(texts) = Len(followers),
         \A n \in 1..Len(followers) : texts[n] = followers[n].text
  PROVE  /\ ShownIsText' /\ Shown' = TextOf(used \o buffer) \o FlattenSeq(texts)
         /\ used \o buffer \in Seq(DOMAIN doc) /\ Distinct(used \o buffer)
         /\ Range(used \o buffer) = Range(used) \cup Range(buffer)
         /\ TextOf(used \o buffer) \in Seq(Piece)
<1>1. used \in Seq(DOMAIN doc) /\ buffer \in Seq(DOMAIN doc)
  BY WaitingAreItems DEF Accounts
<1>2. ShownIsText' /\ Shown' = (Shown \o TextOf(buffer)) \o FlattenSeq(texts)
  BY FlushShows
<1>3. TextOf(used \o buffer) = TextOf(used) \o TextOf(buffer)
  BY <1>1, TextOfConcat
<1>4. /\ used \o buffer \in Seq(DOMAIN doc) /\ Distinct(used \o buffer)
      /\ Range(used \o buffer) = Range(used) \cup Range(buffer)
  <2>1. Distinct(used) /\ Distinct(buffer) /\ Range(used) \cap Range(buffer) = {}
    BY DEF Accounts
  <2>. QED
    BY <1>1, <2>1, ApartIsDistinct
<1>5. TextOf(used \o buffer) \in Seq(Piece)
  BY <1>4, TextOfIsTyped
<1>. QED
  BY <1>2, <1>3, <1>4, <1>5 DEF Accounts

\* What the steps of the walk have in common.
LEMMA WalkFacts ==
  ASSUME BuildIsSound, TextIsAccounted, pc = "walk"
  PROVE  BuildIsTyped /\ ShownIsText /\ \E used : Accounts(used)
  BY DEF BuildIsSound, TextIsAccounted, Building

\* A paragraph is to do or in the buffer, or was used.
LEMMA ParagraphAccounts ==
  ASSUME TypeOK, PlacedAreContent, BuildIsSound, TextIsAccounted, TakeParagraph
  PROVE  TextIsAccounted'
<1>1. /\ pc = "walk" /\ pc' = "walk" /\ UNCHANGED <<doc, paper>> /\ todo # <<>> /\ todo' = Tail(todo)
  BY DEF TakeParagraph, Walking
<1>2. BuildIsTyped /\ ShownIsText
  BY <1>1, WalkFacts
<1>3. PICK used : Accounts(used)
  BY <1>1, WalkFacts
<1>4. buffer \in Seq(DOMAIN doc) /\ todo \in Seq(DOMAIN doc)
  BY <1>2, WaitingAreItems
<1>5. /\ NextItem \in DOMAIN doc /\ Distinct(todo')
      /\ Range(todo) = Range(todo') \cup {NextItem} /\ NextItem \notin Range(todo')
  BY <1>1, <1>3, <1>4, TailIsDistinct DEF Accounts, NextItem
<1>6. /\ doc' = doc /\ Blocks' = Blocks /\ Held' = Held /\ Held = Range(bibliography)
      /\ \A s : TextOf(s)' = TextOf(s)
  BY <1>1 DEF Blocks, Held, TextOf, paper
<1>7. CASE buffer # <<>> /\ SectionOf(Last(buffer)) # SectionOf(NextItem)
  <2>1. Flush(<<>>) /\ buffer' = <<NextItem>>
    BY <1>7 DEF TakeParagraph
  <2>2. <<>> \in Seq(ChunkRecord) /\ <<>> \in Seq(Seq(Piece)) /\ Len(<<>>) = 0 /\ 1..0 = {}
    OBVIOUS
  <2>3. /\ ShownIsText' /\ Shown' = TextOf(used \o buffer) \o FlattenSeq(<<>>)
        /\ used \o buffer \in Seq(DOMAIN doc) /\ Distinct(used \o buffer)
        /\ Range(used \o buffer) = Range(used) \cup Range(buffer)
        /\ TextOf(used \o buffer) \in Seq(Piece)
    <3>. DEFINE none == <<>>
    <3>1. none \in Seq(ChunkRecord) /\ none \in Seq(Seq(Piece)) /\ Len(none) = Len(none) /\ Flush(none)
          /\ \A n \in 1..Len(none) : none[n] = none[n].text
      BY <2>1, <2>2
    <3>. HIDE DEF none
    <3>2. /\ ShownIsText' /\ Shown' = TextOf(used \o buffer) \o FlattenSeq(none)
          /\ used \o buffer \in Seq(DOMAIN doc) /\ Distinct(used \o buffer)
          /\ Range(used \o buffer) = Range(used) \cup Range(buffer)
          /\ TextOf(used \o buffer) \in Seq(Piece)
      BY <1>2, <1>3, <3>1, FlushAccounts
    <3>. QED
      BY <3>2 DEF none
  <2>4. Shown' = TextOf(used \o buffer)
    BY <2>3, FlattenNothing, ConcatEmptySeq
  <2>5. Distinct(buffer') /\ Range(buffer') = {NextItem}
    <3>1. DOMAIN <<NextItem>> = {1} /\ <<NextItem>>[1] = NextItem
      OBVIOUS
    <3>. QED
      BY <2>1, <3>1 DEF Distinct, Range
  <2>a. PICK more : more = used \o buffer
    OBVIOUS
  <2>6. /\ more \in Seq(DOMAIN doc) /\ Distinct(more) /\ Range(more) = Range(used) \cup Range(buffer)
        /\ Shown' = TextOf(more)
    BY <2>3, <2>4, <2>a
  <2>7. Accounts(more)'
    BY <1>3, <1>5, <1>6, <2>5, <2>6 DEF Accounts
  <2>. QED
    BY <1>1, <2>3, <2>7 DEF TextIsAccounted
<1>8. CASE ~(buffer # <<>> /\ SectionOf(Last(buffer)) # SectionOf(NextItem))
  <2>1. buffer' = Append(buffer, NextItem) /\ UNCHANGED <<chunks, relationships>>
    BY <1>8 DEF TakeParagraph
  <2>2. NextItem \notin Range(buffer)
    BY <1>3, <1>5 DEF Accounts
  <2>3. Distinct(buffer') /\ Range(buffer') = Range(buffer) \cup {NextItem}
    BY <1>3, <1>4, <1>5, <2>1, <2>2, AppendIsDistinct DEF Accounts
  <2>4. Shown' = Shown /\ ShownIsText'
    BY <1>2, <2>1 DEF Shown, Fresh, Continued, ShownIsText
  <2>5. Accounts(used)'
    BY <1>3, <1>5, <1>6, <2>3, <2>4 DEF Accounts
  <2>. QED
    BY <1>1, <2>4, <2>5 DEF TextIsAccounted
<1>. QED
  BY <1>7, <1>8

\* A table or figure shows no text.
LEMMA VisualAccounts ==
  ASSUME TypeOK, PlacedAreContent, BuildIsSound, TextIsAccounted, TakeVisual
  PROVE  TextIsAccounted'
<1>1. /\ pc = "walk" /\ pc' = "walk" /\ UNCHANGED <<doc, paper>> /\ todo # <<>> /\ todo' = Tail(todo)
      /\ doc[NextItem].kind # "text" /\ buffer' = <<>> /\ Flush(<<VisualChunk(NextItem)>>)
  BY DEF TakeVisual, Walking
<1>2. BuildIsTyped /\ ShownIsText
  BY <1>1, WalkFacts
<1>3. PICK used : Accounts(used)
  BY <1>1, WalkFacts
<1>4. todo \in Seq(DOMAIN doc) /\ todo \in Seq(PlacedItems)
  BY <1>2, WaitingAreItems
<1>5. /\ NextItem \in PlacedItems /\ Distinct(todo')
      /\ Range(todo) = Range(todo') \cup {NextItem} /\ NextItem \notin Range(todo')
  BY <1>1, <1>3, <1>4, TailIsDistinct DEF Accounts, NextItem
<1>6. /\ doc' = doc /\ Blocks' = Blocks /\ Held' = Held /\ NextItem \notin Blocks
      /\ \A s : TextOf(s)' = TextOf(s)
  BY <1>1 DEF Blocks, Held, TextOf, paper
<1>. DEFINE new == VisualChunk(NextItem)
<1>7. new \in ChunkRecord /\ new.text = <<>>
  BY <1>5, VisualChunkIsTyped DEF VisualChunk, Chunk
<1>. HIDE DEF new
<1>8. /\ <<new>> \in Seq(ChunkRecord) /\ Len(<<new>>) = 1 /\ <<new>>[1] = new
      /\ << <<>> >> \in Seq(Seq(Piece)) /\ Len(<< <<>> >>) = 1 /\ << <<>> >>[1] = <<>>
      /\ \A n \in 1..1 : n = 1
  BY <1>7
<1>9. /\ ShownIsText' /\ Shown' = TextOf(used \o buffer) \o FlattenSeq(<< <<>> >>)
      /\ used \o buffer \in Seq(DOMAIN doc) /\ Distinct(used \o buffer)
      /\ Range(used \o buffer) = Range(used) \cup Range(buffer)
      /\ TextOf(used \o buffer) \in Seq(Piece)
  <2>. DEFINE followers == <<new>>
              texts == << <<>> >>
  <2>1. /\ followers \in Seq(ChunkRecord) /\ texts \in Seq(Seq(Piece)) /\ Len(texts) = Len(followers)
        /\ \A n \in 1..Len(followers) : texts[n] = followers[n].text
    BY <1>7, <1>8
  <2>2. Flush(followers)
    BY <1>1 DEF new
  <2>. HIDE DEF followers, texts
  <2>3. /\ ShownIsText' /\ Shown' = TextOf(used \o buffer) \o FlattenSeq(texts)
        /\ used \o buffer \in Seq(DOMAIN doc) /\ Distinct(used \o buffer)
        /\ Range(used \o buffer) = Range(used) \cup Range(buffer)
        /\ TextOf(used \o buffer) \in Seq(Piece)
    BY <1>2, <1>3, <2>1, <2>2, FlushAccounts
  <2>. QED
    BY <2>3 DEF texts
<1>10. Shown' = TextOf(used \o buffer)
  <2>1. <<>> \in Seq(Piece)
    OBVIOUS
  <2>2. FlattenSeq(<< <<>> >>) = <<>>
    BY <2>1, FlattenOne
  <2>. QED
    BY <1>9, <2>2, ConcatEmptySeq
<1>11. Distinct(buffer') /\ Range(buffer') = {}
  <2>1. DOMAIN <<>> = {}
    OBVIOUS
  <2>. QED
    BY <1>1, <2>1 DEF Distinct, Range
<1>a. PICK more : more = used \o buffer
  OBVIOUS
<1>12. /\ more \in Seq(DOMAIN doc) /\ Distinct(more) /\ Range(more) = Range(used) \cup Range(buffer)
       /\ Shown' = TextOf(more)
  BY <1>9, <1>10, <1>a
<1>13. Accounts(more)'
  BY <1>3, <1>5, <1>6, <1>11, <1>12 DEF Accounts
<1>. QED
  BY <1>1, <1>9, <1>13 DEF TextIsAccounted

\* In the end the bibliography is shown as well.
LEMMA FinishAccounts ==
  ASSUME TypeOK, PlacedAreContent, TextIsDivided, BuildIsSound, TextIsAccounted, FinishWalk
  PROVE  TextIsAccounted'
<1>1. /\ pc = "walk" /\ pc' = "detect" /\ UNCHANGED <<doc, paper, todo>> /\ todo = <<>>
      /\ buffer' = <<>> /\ Flush(ReferenceChunks)
  BY DEF FinishWalk
<1>2. BuildIsTyped /\ ShownIsText
  BY <1>1, WalkFacts
<1>3. PICK used : Accounts(used)
  BY <1>1, WalkFacts
<1>4. /\ doc' = doc /\ Blocks' = Blocks /\ Held' = {} /\ Held = Range(bibliography)
      /\ \A s : TextOf(s)' = TextOf(s)
  BY <1>1 DEF Blocks, Held, TextOf, paper
<1>5. /\ ReferenceChunks \in Seq(ChunkRecord) /\ References \in Seq(Seq(Piece)) /\ Len(References) = Len(ReferenceChunks)
      /\ \A n \in 1..Len(ReferenceChunks) : References[n] = ReferenceChunks[n].text
  <2>1. ReferenceChunks \in Seq(ChunkRecord) /\ References \in Seq(Seq(Piece))
    BY ReferenceChunksAreTyped, ReferencesAreTexts
  <2>2. Len(References) \in Nat /\ DOMAIN References = 1..Len(References)
    BY <2>1
  <2>3. \A n \in DOMAIN References : ReferenceChunks[n].text = References[n]
    BY DEF ReferenceChunks, Chunk
  <2>4. DOMAIN ReferenceChunks = 1..Len(References)
    BY <2>2 DEF ReferenceChunks
  <2>5. Len(ReferenceChunks) = Len(References)
    BY <2>1, <2>2, <2>4, LenProperties
  <2>. QED
    BY <2>1, <2>2, <2>3, <2>5
<1>6. /\ ShownIsText' /\ Shown' = TextOf(used \o buffer) \o FlattenSeq(References)
      /\ used \o buffer \in Seq(DOMAIN doc) /\ Distinct(used \o buffer)
      /\ Range(used \o buffer) = Range(used) \cup Range(buffer)
  BY <1>1, <1>2, <1>3, <1>5, FlushAccounts
<1>a. PICK more : more = used \o buffer
  OBVIOUS
<1>7. /\ more \in Seq(DOMAIN doc) /\ Distinct(more) /\ Range(more) = Range(used) \cup Range(buffer)
      /\ Shown' = TextOf(more) \o FlattenSeq(References)
  BY <1>6, <1>a
<1>8. bibliography \in Seq(DOMAIN doc) /\ Distinct(bibliography) /\ Range(more) \cap Range(bibliography) = {}
  BY <1>3, <1>4, <1>7 DEF TypeOK, TextIsDivided, Accounts
<1>b. PICK all : all = more \o bibliography
  OBVIOUS
<1>9. all \in Seq(DOMAIN doc) /\ Distinct(all) /\ Range(all) = Range(used) \cup Range(buffer) \cup Range(bibliography)
  BY <1>7, <1>8, <1>b, ApartIsDistinct
<1>10. Shown' = TextOf(all)
  BY <1>7, <1>8, <1>b, TextOfConcat, ReferencesAreWhole
<1>11. Distinct(buffer') /\ Range(buffer') = {} /\ Distinct(todo') /\ Range(todo') = {} /\ Range(todo) = {}
  <2>1. DOMAIN <<>> = {}
    OBVIOUS
  <2>. QED
    BY <1>1, <2>1 DEF Distinct, Range
<1>12. Accounts(all)'
  BY <1>3, <1>4, <1>9, <1>10, <1>11 DEF Accounts
<1>. QED
  BY <1>1, <1>6, <1>12 DEF TextIsAccounted, Building

\* Detected links continue nothing.
LEMMA DetectShowsTheSame ==
  ASSUME BuildIsTyped, ShownIsText, Detect
  PROVE  ShownIsText' /\ Shown' = Shown
<1>. DEFINE part(c) == IF chunks[c].kind = "text" THEN Detected(c) ELSE <<>>
            parts == [c \in DOMAIN chunks |-> part(c)]
            Late == [source: DOMAIN chunks, target: DOMAIN chunks, type: {"CITES", "REFERENCES"}]
            links == FlattenSeq(parts)
<1>1. /\ chunks \in Seq(ChunkRecord) /\ relationships \in Seq(Relationship)
      /\ Len(chunks) \in Nat /\ DOMAIN chunks = 1..Len(chunks)
  BY DEF BuildIsTyped
<1>2. relationships' = relationships \o links /\ chunks' = chunks
  BY DEF Detect
<1>3. ASSUME NEW c \in DOMAIN chunks
      PROVE  part(c) \in LinksFrom(c)
  BY <1>1, DetectedIsTyped, NoLinks
<1>. HIDE DEF part
<1>4. ASSUME NEW c \in DOMAIN chunks
      PROVE  part(c) \in Seq(Late)
  <2>. DEFINE Links == [source: {c}, target: DOMAIN chunks, type: {"CITES", "REFERENCES"}]
  <2>1. part(c) \in Seq(Links)
    BY <1>3 DEF LinksFrom
  <2>2. Links \subseteq Late
    OBVIOUS
  <2>. HIDE DEF Links, Late
  <2>. QED
    BY <2>1, <2>2, SeqMonotonic
<1>5. parts \in Seq(Seq(Late))
  <2>. HIDE DEF Late
  <2>. QED
    BY <1>1, <1>4
<1>. HIDE DEF parts
<1>6. links \in Seq(Late)
  <2>. HIDE DEF Late
  <2>. QED
    BY <1>5, FlattenIsSeq
<1>7. Late \subseteq Relationship /\ \A x \in Late : x.type # "CONTINUES"
  BY DEF Relationship
<1>. HIDE DEF Late, links
<1>8. links \in Seq(Relationship) /\ \A k \in DOMAIN links : links[k].type # "CONTINUES"
  <2>1. \A k \in DOMAIN links : links[k] \in Late
    BY <1>6
  <2>. QED
    BY <1>6, <1>7, <2>1, SeqMonotonic
<1>9. HasBoth(relationships', relationships, links)
  BY <1>1, <1>2, <1>8, ConcatHasBoth
<1>10. \A c : ContinuedIn(relationships', c) <=> ContinuedIn(relationships, c)
  <2>. SUFFICES ASSUME NEW c
                PROVE  ContinuedIn(relationships', c) <=> ContinuedIn(relationships, c)
    OBVIOUS
  <2>1. ASSUME ContinuedIn(relationships', c)
        PROVE  ContinuedIn(relationships, c)
    <3>1. PICK k \in DOMAIN relationships' : relationships'[k].type = "CONTINUES" /\ relationships'[k].target = c
      BY <2>1 DEF ContinuedIn
    <3>2. PICK j \in DOMAIN relationships : relationships'[k] = relationships[j]
      BY <1>8, <1>9, <3>1 DEF HasBoth
    <3>. QED
      BY <3>1, <3>2 DEF ContinuedIn
  <2>2. ASSUME ContinuedIn(relationships, c)
        PROVE  ContinuedIn(relationships', c)
    <3>1. PICK j \in DOMAIN relationships : relationships[j].type = "CONTINUES" /\ relationships[j].target = c
      BY <2>2 DEF ContinuedIn
    <3>2. PICK k \in DOMAIN relationships' : relationships'[k] = relationships[j]
      BY <1>9 DEF HasBoth
    <3>. QED
      BY <3>1, <3>2 DEF ContinuedIn
  <2>. QED
    BY <2>1, <2>2
<1>11. AllFresh(chunks', relationships') = AllFresh(chunks, relationships)
  BY <1>2, <1>10 DEF AllFresh, FreshOf
<1>12. Shown' = ShownOf(chunks', relationships') /\ (ShownIsText' <=> AllFresh(chunks', relationships') \in Seq(Seq(Piece)))
  BY DEF ShownIsText, Shown, ShownOf, AllFresh, FreshOf, Fresh, Continued, ContinuedIn
<1>. QED
  BY <1>11, <1>12, ShownIs DEF ShownOf, ShownIsText

\* Every step keeps account of the text.
LEMMA StepKeepsAccount ==
  ASSUME TypeOK, SectionsAreNested, PlacedAreContent, TextIsDivided, BuildIsSound, TextIsAccounted, [Next]_vars
  PROVE  TextIsAccounted'
<1>1. CASE Parse /\ UNCHANGED buildVars
  <2>1. pc' \notin Building
    BY <1>1 DEF Parse, Convert, MapItem, SkipItem, StrayHeading, SpecialHeading, CloseSection,
       OpenSection, NewSection, AbstractText, ReferenceText, Place, Text, Heading, Mapping, Validate, Persist,
       Building
  <2>. QED
    BY <2>1 DEF TextIsAccounted
<1>2. CASE StartBuild
  BY <1>2, StartAccounts
<1>3. CASE TakeParagraph
  BY <1>3, ParagraphAccounts
<1>4. CASE TakeVisual
  BY <1>4, VisualAccounts
<1>5. CASE FinishWalk
  BY <1>5, FinishAccounts
<1>6. CASE Detect \/ Check \/ UNCHANGED vars
  <2>1. /\ UNCHANGED <<doc, buffer, todo, bibliography>>
        /\ pc' \in Building => pc \in Building
        /\ pc' = "walk" <=> pc = "walk"
        /\ pc' \in Building => UNCHANGED Held
    BY <1>6 DEF Detect, Check, vars, parseVars, buildVars, paper, Building, Held
  <2>2. ASSUME pc \in Building
        PROVE  ShownIsText' /\ Shown' = Shown
    <3>1. BuildIsTyped /\ ShownIsText
      BY <2>2 DEF BuildIsSound, TextIsAccounted
    <3>2. CASE Detect
      BY <3>1, <3>2, DetectShowsTheSame
    <3>3. CASE UNCHANGED <<chunks, relationships>>
      BY <3>1, <3>3 DEF ShownIsText, AllFresh, FreshOf, Shown, Fresh, Continued
    <3>. QED
      BY <1>6, <3>2, <3>3 DEF Check, vars, buildVars
  <2>3. ASSUME pc' \in Building
        PROVE  \E used : Accounts(used)'
    <3>1. PICK used : Accounts(used)
      BY <2>1, <2>3 DEF TextIsAccounted
    <3>2. Shown' = Shown /\ Held' = Held /\ Blocks' = Blocks /\ TextOf(used)' = TextOf(used)
      BY <2>1, <2>2, <2>3 DEF Blocks, TextOf
    <3>3. Accounts(used)'
      BY <2>1, <3>1, <3>2 DEF Accounts
    <3>. QED
      BY <3>3
  <2>. QED
    BY <2>1, <2>2, <2>3 DEF TextIsAccounted, Building
<1>. QED
  BY <1>1, <1>2, <1>3, <1>4, <1>5, <1>6 DEF Next, Build

\* What has been accounted for is not lost.
LEMMA AccountedIsKept ==
  ASSUME TypeOK, doc \in Documents, TextIsAccounted
  PROVE  NoTextIsLost
<1>. SUFFICES ASSUME IsBuilt
              PROVE  /\ \A i \in TextItems : \A k \in DOMAIN doc[i].text :
                          \E n \in DOMAIN Shown : Shown[n] = doc[i].text[k]
                     /\ \A m, n \in DOMAIN Shown : Shown[m].place = Shown[n].place => m = n
                     /\ \A n \in DOMAIN Shown :
                          Shown[n].place[2] < LastPiece(Shown[n].place[1]) =>
                            /\ n < Len(Shown)
                            /\ Shown[n + 1].place = <<Shown[n].place[1], Shown[n].place[2] + 1>>
  BY DEF NoTextIsLost
<1>1. pc \in Building /\ pc # "walk"
  BY DEF IsBuilt, Building
<1>2. PICK used : Accounts(used)
  BY <1>1 DEF TextIsAccounted
<1>3. used \in Seq(DOMAIN doc) /\ Distinct(used) /\ Shown = TextOf(used) /\ Blocks \subseteq Range(used)
  <2>1. buffer = <<>> /\ todo = <<>> /\ Held = {}
    BY <1>1 DEF TextIsAccounted, Held
  <2>2. Range(<<>>) = {}
    BY DEF Range
  <2>. QED
    BY <1>2, <2>1, <2>2 DEF Accounts
<1>. DEFINE parts == [k \in DOMAIN used |-> doc[used[k]].text]
<1>4. parts \in Seq(Seq(Piece)) /\ Shown = FlattenSeq(parts)
  BY <1>3, TextOfIsTyped DEF TextOf
<1>5. DOMAIN parts = DOMAIN used /\ \A k \in DOMAIN used : used[k] \in DOMAIN doc /\ parts[k] = doc[used[k]].text
  BY <1>3
<1>. HIDE DEF parts
<1>6. \A i \in DOMAIN doc : \A k \in DOMAIN doc[i].text : doc[i].text[k].place = <<i, k>>
  BY PiecesHavePlaces
<1>7. \A k \in DOMAIN parts : \A j \in DOMAIN parts[k] : parts[k][j].place = <<used[k], j>>
  BY <1>5, <1>6
<1>8. Apart(parts)
  <2>1. ASSUME NEW k \in DOMAIN parts, NEW l \in DOMAIN parts, NEW i \in DOMAIN parts[k], NEW j \in DOMAIN parts[l],
               parts[k][i] = parts[l][j]
        PROVE  k = l /\ i = j
    <3>1. <<used[k], i>> = <<used[l], j>>
      BY <1>7, <2>1
    <3>2. used[k] = used[l] /\ i = j
      BY <3>1
    <3>. QED
      BY <1>3, <1>5, <3>2 DEF Distinct
  <2>. QED
    BY <2>1 DEF Apart, Distinct
<1>9. InRows(Shown, parts) /\ Distinct(Shown)
  BY <1>4, <1>8, FlattenIsInRows, FlattenIsDistinct
<1>10. ASSUME NEW n \in DOMAIN Shown
       PROVE  \E i \in DOMAIN doc : \E j \in DOMAIN doc[i].text :
                /\ Shown[n] = doc[i].text[j] /\ Shown[n].place = <<i, j>>
                /\ j < Len(doc[i].text) => n < Len(Shown) /\ Shown[n + 1] = doc[i].text[j + 1]
  <2>1. PICK k \in DOMAIN parts : \E j \in DOMAIN parts[k] :
          /\ Shown[n] = parts[k][j]
          /\ j < Len(parts[k]) => n < Len(Shown) /\ Shown[n + 1] = parts[k][j + 1]
    BY <1>9 DEF InRows
  <2>2. PICK j \in DOMAIN parts[k] :
          /\ Shown[n] = parts[k][j]
          /\ j < Len(parts[k]) => n < Len(Shown) /\ Shown[n + 1] = parts[k][j + 1]
    BY <2>1
  <2>. QED
    BY <1>5, <1>7, <2>2
<1>11. ASSUME NEW i \in TextItems, NEW k \in DOMAIN doc[i].text
       PROVE  \E n \in DOMAIN Shown : Shown[n] = doc[i].text[k]
  <2>1. i \in DOMAIN doc /\ doc[i].kind = "text"
    BY DEF TextItems
  <2>2. doc[i].text # <<>>
    <3>1. DOMAIN <<>> = {}
      OBVIOUS
    <3>. QED
      BY <1>11, <3>1
  <2>3. i \in Range(used)
    BY <1>3, <2>1, <2>2 DEF Blocks
  <2>4. PICK l \in DOMAIN used : used[l] = i
    BY <2>3 DEF Range
  <2>5. l \in DOMAIN parts /\ k \in DOMAIN parts[l] /\ parts[l][k] = doc[i].text[k]
    BY <1>5, <2>4
  <2>. QED
    BY <1>9, <2>5 DEF InRows
<1>12. ASSUME NEW m \in DOMAIN Shown, NEW n \in DOMAIN Shown, Shown[m].place = Shown[n].place
       PROVE  m = n
  <2>1. PICK i \in DOMAIN doc : \E j \in DOMAIN doc[i].text : Shown[m] = doc[i].text[j] /\ Shown[m].place = <<i, j>>
    BY <1>10
  <2>2. PICK j \in DOMAIN doc[i].text : Shown[m] = doc[i].text[j] /\ Shown[m].place = <<i, j>>
    BY <2>1
  <2>3. PICK p \in DOMAIN doc : \E q \in DOMAIN doc[p].text : Shown[n] = doc[p].text[q] /\ Shown[n].place = <<p, q>>
    BY <1>10
  <2>4. PICK q \in DOMAIN doc[p].text : Shown[n] = doc[p].text[q] /\ Shown[n].place = <<p, q>>
    BY <2>3
  <2>5. <<i, j>> = <<p, q>>
    BY <1>12, <2>2, <2>4
  <2>6. i = p /\ j = q
    BY <2>5
  <2>7. Shown[m] = Shown[n]
    BY <2>2, <2>4, <2>6
  <2>. QED
    BY <1>9, <2>7 DEF Distinct
<1>13. ASSUME NEW n \in DOMAIN Shown, Shown[n].place[2] < LastPiece(Shown[n].place[1])
       PROVE  /\ n < Len(Shown)
              /\ Shown[n + 1].place = <<Shown[n].place[1], Shown[n].place[2] + 1>>
  <2>1. PICK i \in DOMAIN doc : \E j \in DOMAIN doc[i].text :
          /\ Shown[n].place = <<i, j>>
          /\ j < Len(doc[i].text) => n < Len(Shown) /\ Shown[n + 1] = doc[i].text[j + 1]
    BY <1>10
  <2>2. PICK j \in DOMAIN doc[i].text :
          /\ Shown[n].place = <<i, j>>
          /\ j < Len(doc[i].text) => n < Len(Shown) /\ Shown[n + 1] = doc[i].text[j + 1]
    BY <2>1
  <2>3. Shown[n].place[1] = i /\ Shown[n].place[2] = j
    BY <2>2
  <2>4. j < Len(doc[i].text)
    BY <1>13, <2>3 DEF LastPiece
  <2>5. j + 1 \in DOMAIN doc[i].text
    <3>1. doc[i] \in Item
      BY DEF TypeOK
    <3>2. doc[i].text \in Seq(Piece)
      BY <3>1 DEF Item
    <3>. DEFINE t == doc[i].text
    <3>3. DOMAIN t = 1..Len(t) /\ Len(t) \in Nat
      BY <3>2
    <3>. HIDE DEF t
    <3>4. j \in DOMAIN t /\ j < Len(t)
      BY <2>4 DEF t
    <3>5. j + 1 \in DOMAIN t
      BY <3>3, <3>4
    <3>. QED
      BY <3>5 DEF t
  <2>6. Shown[n + 1].place = <<i, j + 1>>
    BY <1>6, <2>2, <2>4, <2>5
  <2>. QED
    BY <2>2, <2>3, <2>4, <2>6
<1>. QED
  BY <1>11, <1>12, <1>13

\* Nothing that stands in a document gets lost on its way into the chunks, or is
\* shown twice or taken apart (ParagraphStrategy, KnowledgeBuilder).
THEOREM TextIsKept == Spec => []NoTextIsLost
<1>. DEFINE Inv == doc \in Documents /\ TextIsAccounted
            Sound == TypeOK /\ SectionsAreNested /\ PlacedAreContent /\ TextIsDivided /\ BuildIsSound
<1>1. Init => Inv
  <2>. SUFFICES ASSUME Init
                PROVE  Inv
    OBVIOUS
  <2>1. pc \notin Building /\ doc \in Documents
    BY DEF Init, ParseInit, Building
  <2>. QED
    BY <2>1 DEF TextIsAccounted
<1>2. Sound /\ Inv /\ [Next]_vars => Inv'
  <2>. SUFFICES ASSUME Sound, Inv, [Next]_vars
                PROVE  Inv'
    OBVIOUS
  <2>1. doc' = doc
    BY DEF Next, Parse, MapItem, SkipItem, StrayHeading, SpecialHeading, CloseSection, OpenSection, AbstractText,
       ReferenceText, Place, Convert, Validate, Persist, Build, StartBuild, TakeParagraph, TakeVisual,
       FinishWalk, Detect, Check, vars, parseVars
  <2>. QED
    BY <2>1, StepKeepsAccount
<1>3. TypeOK /\ Inv => NoTextIsLost
  BY AccountedIsKept
<1>. QED
  BY <1>1, <1>2, <1>3, TypeCorrect, SectionsNested, ContentIsPlaced, TextStaysDivided, BuildSound, PTL DEF Spec

-----------------------------------------------------------------------------
(* The order of the chunks of a single column.                             *)

\* The section that what is placed next belongs to is the last one, unless sections are
\* being closed for a heading; what stands later in the document is in no section before.
PlacedInOrder ==
  /\ \A j, k \in DOMAIN placed : placed[j].item < placed[k].item => placed[j].section <= placed[k].section
  /\ pc \in {"convert", "map"} => NewSection \/ CurrentSection = Len(sections)

\* Whatever step is taken.
LEMMA StepKeepsPlacedOrder ==
  ASSUME TypeOK, TextIsDivided, PlacedInOrder, [Next]_vars
  PROVE  PlacedInOrder'
<1>1. CASE SkipItem \/ StrayHeading \/ SpecialHeading \/ AbstractText \/ ReferenceText
  <2>1. /\ UNCHANGED <<sections, stack, placed>> /\ pc = "map" /\ ~NewSection
    BY <1>1 DEF SkipItem, StrayHeading, SpecialHeading, AbstractText, ReferenceText, NewSection, Heading,
       Text, Mapping, paper
  <2>2. CurrentSection' = CurrentSection
    BY <2>1 DEF CurrentSection
  <2>. QED
    BY <2>1, <2>2 DEF PlacedInOrder
<1>2. CASE CloseSection
  <2>1. UNCHANGED <<doc, pc, at, title, sections, placed, special, specialLevel>> /\ NewSection
    BY <1>2 DEF CloseSection, paper
  <2>2. NewSection'
    BY <2>1 DEF NewSection, Heading, Mapping, IsTheTitle, ReadsLikeTheTitle, IsStray, HeadingLevel, IsSpecial
  <2>. QED
    BY <2>1, <2>2 DEF PlacedInOrder
<1>3. CASE OpenSection
  <2>1. /\ sections' = Append(sections, [parent |-> CurrentSection, level |-> HeadingLevel, item |-> at])
        /\ stack' = Append(stack, Len(sections')) /\ placed' = placed
    BY <1>3 DEF OpenSection
  <2>2. stack \in Seq(DOMAIN sections)
    BY DEF TypeOK
  <2>3. PICK n : n = Len(sections')
    OBVIOUS
  <2>4. stack' # <<>> /\ Last(stack') = n
    <3>1. Len(stack) \in Nat
      BY <2>2
    <3>2. Len(Append(stack, n)) = Len(stack) + 1 /\ Append(stack, n)[Len(stack) + 1] = n
      BY <2>2
    <3>. QED
      BY <2>1, <2>3, <3>1, <3>2 DEF Last
  <2>5. CurrentSection' = Len(sections')
    BY <2>3, <2>4 DEF CurrentSection
  <2>. QED
    BY <2>1, <2>5 DEF PlacedInOrder
<1>4. CASE Place
  <2>. DEFINE new == [item |-> at, section |-> CurrentSection]
  <2>1. /\ placed' = Append(placed, new) /\ UNCHANGED <<sections, stack>> /\ pc = "map" /\ ~NewSection
        /\ at \in DOMAIN doc /\ at \in Nat
    <3>1. at <= Len(doc) /\ at \in 1..(Len(doc) + 1) /\ DOMAIN doc = 1..Len(doc) /\ Len(doc) \in Nat
      BY <1>4 DEF Place, Text, Mapping, TypeOK
    <3>2. at \in DOMAIN doc /\ at \in Nat
      BY <3>1
    <3>3. placed' = Append(placed, new) /\ UNCHANGED <<sections, stack>> /\ pc = "map"
      BY <1>4 DEF Place, Text, Mapping
    <3>4. ~NewSection
      BY <1>4 DEF Place, Text, NewSection, Heading
    <3>. QED
      BY <3>2, <3>3, <3>4
  <2>2. CurrentSection = Len(sections) /\ CurrentSection' = Len(sections')
    BY <2>1 DEF PlacedInOrder, CurrentSection
  <2>3. placed \in Seq(Placement) /\ Len(sections) \in Nat /\ DOMAIN sections = 1..Len(sections)
    BY DEF TypeOK, Placement
  <2>4. new \in Placement /\ new.item = at /\ new.section = Len(sections)
    BY <2>1, <2>2, CurrentSectionExists DEF Placement
  <2>. HIDE DEF new
  <2>5. /\ Len(placed) \in Nat /\ DOMAIN placed = 1..Len(placed) /\ DOMAIN placed' = 1..(Len(placed) + 1)
        /\ \A k \in 1..Len(placed) : placed'[k] = placed[k]
        /\ placed'[Len(placed) + 1] = new
    BY <2>1, <2>3, <2>4
  <2>6. \A k \in DOMAIN placed : /\ placed[k].item \in Nat /\ placed[k].item < at
                                 /\ placed[k].section \in Nat /\ placed[k].section <= Len(sections)
    <3>. SUFFICES ASSUME NEW k \in DOMAIN placed
                  PROVE  /\ placed[k].item \in Nat /\ placed[k].item < at
                         /\ placed[k].section \in Nat /\ placed[k].section <= Len(sections)
      OBVIOUS
    <3>1. placed[k] \in Placement
      BY <2>3
    <3>2. placed[k].section \in 0..Len(sections)
      BY <2>3, <3>1 DEF Placement
    <3>3. placed[k].item \in 1..(at - 1)
      BY DEF TextIsDivided, PlacedItems
    <3>. QED
      BY <2>1, <2>3, <3>2, <3>3
  <2>7. ASSUME NEW j \in DOMAIN placed', NEW k \in DOMAIN placed', placed'[j].item < placed'[k].item
        PROVE  placed'[j].section <= placed'[k].section
    <3>1. (j \in DOMAIN placed \/ j = Len(placed) + 1) /\ (k \in DOMAIN placed \/ k = Len(placed) + 1)
      BY <2>5
    <3>2. CASE j \in DOMAIN placed /\ k \in DOMAIN placed
      BY <2>5, <2>7, <3>2 DEF PlacedInOrder
    <3>3. CASE k = Len(placed) + 1
      <4>1. CASE j \in DOMAIN placed
        BY <2>4, <2>5, <2>6, <3>3, <4>1
      <4>2. CASE j = Len(placed) + 1
        BY <2>1, <2>4, <2>5, <2>7, <3>3, <4>2
      <4>. QED
        BY <3>1, <4>1, <4>2
    <3>4. CASE j = Len(placed) + 1 /\ k \in DOMAIN placed
      <4>1. at < placed[k].item /\ placed[k].item < at /\ placed[k].item \in Nat
        BY <2>4, <2>5, <2>6, <2>7, <3>4
      <4>. QED
        BY <2>1, <4>1
    <3>. QED
      BY <3>1, <3>2, <3>3, <3>4
  <2>. QED
    BY <2>2, <2>7 DEF PlacedInOrder
<1>5. CASE Convert
  <2>1. UNCHANGED <<sections, stack, placed>> /\ pc = "convert" /\ ~NewSection
    BY <1>5 DEF Convert, mapping, NewSection, Heading, Mapping
  <2>2. CurrentSection' = CurrentSection
    BY <2>1 DEF CurrentSection
  <2>. QED
    BY <2>1, <2>2 DEF PlacedInOrder
<1>6. CASE Validate \/ Persist \/ Build
  <2>1. placed' = placed /\ pc' \notin {"convert", "map"}
    BY <1>6 DEF Validate, Persist, Build, StartBuild, TakeParagraph, TakeVisual, Walking, FinishWalk, Detect, Check,
       paper
  <2>. QED
    BY <2>1 DEF PlacedInOrder
<1>7. CASE UNCHANGED vars
  <2>1. UNCHANGED <<doc, pc, at, title, sections, stack, placed, special, specialLevel>>
    BY <1>7 DEF vars, parseVars
  <2>2. CurrentSection' = CurrentSection /\ (NewSection' <=> NewSection)
    BY <2>1 DEF CurrentSection, NewSection, Heading, Mapping, IsTheTitle, ReadsLikeTheTitle, IsStray, HeadingLevel,
       IsSpecial
  <2>. QED
    BY <2>1, <2>2 DEF PlacedInOrder
<1>. QED
  BY <1>1, <1>2, <1>3, <1>4, <1>5, <1>6, <1>7 DEF Next, Parse, MapItem

-----------------------------------------------------------------------------

\* In a single column the reading order is the order of the document.
LEMMA ReadingOrderGoesDown ==
  ASSUME TypeOK, SectionsAreNested, PlacedAreContent, TextIsDivided, PlacedInOrder, IsSingleColumn
  PROVE  InOrder(ReadingOrder, Less)
<1>. DEFINE order == DepthFirst[0]
            parts == [k \in DOMAIN order |-> InPlace(order[k])]
<1>1. order \in Seq(0..Len(sections)) /\ Len(sections) \in Nat /\ InOrder(order, Less)
  BY SectionsAreVisited
<1>2. ReadingOrder = FlattenSeq(parts)
  BY DEF ReadingOrder
<1>. HIDE DEF order
<1>3. \A s : InPlace(s) \in Seq(PlacedItems) /\ Lists(InPlace(s), Precedes(s), ItemsIn(s))
  BY InPlaceIsInOrder
<1>4. \A i \in PlacedItems : /\ i \in Nat /\ doc[i].position \in Nat
                             /\ Rank(doc[i].kind) \in Nat /\ Boxless(i) \in Nat
  BY ContentHasPlaces DEF PlacedAreContent, Boxless
<1>5. \A s : ItemsIn(s) \subseteq PlacedItems
  BY DEF ItemsIn, PlacedItems
<1>6. ASSUME NEW s, NEW i \in ItemsIn(s), NEW j \in ItemsIn(s), <<i, j>> \in Precedes(s), i # j
      PROVE  i < j
  <2>1. i \in PlacedItems /\ j \in PlacedItems
    BY <1>5
  <2>2. ComesBefore(i, j)
    <3>. DEFINE P(x, y) == ComesBefore(x, y)
    <3>. HIDE DEF P
    <3>1. <<i, j>> \in {p \in ItemsIn(s) \X ItemsIn(s) : P(p[1], p[2])} => P(i, j)
      OBVIOUS
    <3>. QED
      BY <1>6, <3>1 DEF P, Precedes
  <2>3. /\ i \in Nat /\ doc[i].position \in Nat /\ Rank(doc[i].kind) \in Nat /\ Boxless(i) \in Nat
        /\ j \in Nat /\ doc[j].position \in Nat /\ Rank(doc[j].kind) \in Nat /\ Boxless(j) \in Nat
    BY <1>4, <2>1
  <2>4. CASE j < i
    <3>1. 0 < doc[j].position /\ doc[j].position < doc[i].position
      BY <2>1, <2>4 DEF IsSingleColumn
    <3>2. Boxless(i) = 0 /\ Boxless(j) = 0
      BY <2>3, <3>1 DEF Boxless
    <3>. QED
      BY <2>2, <2>3, <3>1, <3>2, ComesBeforeIs
  <2>. QED
    BY <1>6, <2>3, <2>4
<1>7. \A s : /\ InOrder(InPlace(s), Less)
             /\ \A n \in DOMAIN InPlace(s) : InPlace(s)[n] \in ItemsIn(s)
  <2>. SUFFICES ASSUME NEW s
                PROVE  /\ InOrder(InPlace(s), Less)
                       /\ \A n \in DOMAIN InPlace(s) : InPlace(s)[n] \in ItemsIn(s)
    OBVIOUS
  <2>. DEFINE f == InPlace(s)
              C == Cardinality(ItemsIn(s))
  <2>1. /\ f \in [1..C -> ItemsIn(s)] /\ C \in Nat
        /\ \A j, k \in 1..C : j < k => <<f[j], f[k]>> \in Precedes(s)
        /\ \A j, k \in 1..C : f[j] = f[k] => j = k
    BY <1>3 DEF Lists
  <2>. HIDE DEF f, C
  <2>2. ASSUME NEW j \in DOMAIN f, NEW k \in DOMAIN f, j < k
        PROVE  <<f[j], f[k]>> \in Less
    <3>1. f[j] \in ItemsIn(s) /\ f[k] \in ItemsIn(s) /\ <<f[j], f[k]>> \in Precedes(s)
      BY <2>1, <2>2
    <3>2. f[j] # f[k]
      BY <2>1, <2>2
    <3>3. f[j] < f[k] /\ f[j] \in Nat /\ f[k] \in Nat
      BY <1>4, <1>5, <1>6, <3>1, <3>2
    <3>. QED
      BY <3>3, LessIs
  <2>. QED
    BY <2>1, <2>2 DEF InOrder, f
<1>8. Len(order) \in Nat /\ DOMAIN order = 1..Len(order) /\ DOMAIN parts = DOMAIN order
      /\ \A k \in DOMAIN order : parts[k] = InPlace(order[k]) /\ order[k] \in Nat
  BY <1>1
<1>9. parts \in Seq(Seq(PlacedItems))
  BY <1>3, <1>8
<1>. HIDE DEF parts
<1>10. ASSUME NEW s \in Nat, NEW t \in Nat, s < t, NEW i \in ItemsIn(s), NEW j \in ItemsIn(t)
       PROVE  <<i, j>> \in Less
  <2>1. PICK m \in DOMAIN placed : placed[m].item = i /\ placed[m].section = s
    BY DEF ItemsIn
  <2>2. PICK n \in DOMAIN placed : placed[n].item = j /\ placed[n].section = t
    BY DEF ItemsIn
  <2>3. i \in Nat /\ j \in Nat
    BY <1>4, <1>5
  <2>4. i # j
    BY <1>10, <2>1, <2>2 DEF TextIsDivided, PlacedOnce
  <2>5. ~(j < i)
    <3>1. j < i => t <= s
      BY <2>1, <2>2 DEF PlacedInOrder
    <3>. QED
      BY <1>10, <3>1
  <2>. QED
    BY <2>3, <2>4, <2>5, LessIs
<1>11. AllInOrder(parts, Less)
  <2>1. ASSUME NEW k \in DOMAIN parts, NEW l \in DOMAIN parts, k < l,
               NEW i \in DOMAIN parts[k], NEW j \in DOMAIN parts[l]
        PROVE  <<parts[k][i], parts[l][j]>> \in Less
    <3>1. order[k] < order[l] /\ order[k] \in Nat /\ order[l] \in Nat
      <4>1. <<order[k], order[l]>> \in Less
        BY <1>1, <1>8, <2>1 DEF InOrder
      <4>. QED
        BY <1>8, <4>1, LessIs
    <3>2. parts[k][i] \in ItemsIn(order[k]) /\ parts[l][j] \in ItemsIn(order[l])
      BY <1>7, <1>8
    <3>. QED
      BY <1>10, <3>1, <3>2
  <2>2. \A k \in DOMAIN parts : InOrder(parts[k], Less)
    BY <1>7, <1>8
  <2>. QED
    BY <2>1, <2>2 DEF AllInOrder
<1>12. InOrder(FlattenSeq(parts), Less)
  BY <1>9, <1>11, FlattenIsInOrder
<1>. QED
  BY <1>2, <1>12

\* The kinds of chunks that stand where their items stand.
BodyKinds == {"text", "picture", "table"}

\* The item a chunk begins with.
StartIn(chunk) == IF chunk.kind = "text" THEN chunk.text[1].place[1] ELSE chunk.entity

\* Of two chunks of the body, the second begins no earlier.
NotBefore ==
  {p \in ChunkRecord \X ChunkRecord :
     p[1].kind \in BodyKinds /\ p[2].kind \in BodyKinds => StartIn(p[1]) <= StartIn(p[2])}

\* The chunks of the body begin no later than any of the items.
NoLaterThan(chs, items) ==
  \A c \in DOMAIN chs : chs[c].kind \in BodyKinds => \A n \in DOMAIN items : StartIn(chs[c]) <= items[n]

\* The paragraphs in the buffer and what is to do.
Waiting == buffer \o todo

\* The inductive invariant of the order: in a single column the chunks are in order, what
\* waits is in order, and the chunks begin before it.
OrderIsKept ==
  IsSingleColumn /\ pc \in Building =>
    InOrder(chunks, NotBefore) /\ InOrder(Waiting, Less) /\ NoLaterThan(chunks, Waiting)

\* A chunk that is not of the body is in order with any other.
LEMMA OthersAreInOrder ==
  ASSUME NEW x \in ChunkRecord, NEW y \in ChunkRecord, x.kind \notin BodyKinds \/ y.kind \notin BodyKinds
  PROVE  <<x, y>> \in NotBefore
  BY DEF NotBefore

\* Places of pieces, one no earlier in the document than the other.
SameOrLater == {p \in Piece \X Piece : p[1].place[1] <= p[2].place[1]}

\* The chunks of a flush begin with items of the buffer, in order.
LEMMA FlushedAreInOrder ==
  ASSUME TypeOK, PlacedAreContent, doc \in Documents, buffer \in Seq(PlacedTexts), InOrder(buffer, Less)
  PROVE  /\ FlushedChunks \in Seq(ChunkRecord) /\ InOrder(FlushedChunks, NotBefore)
         /\ \A k \in DOMAIN FlushedChunks : \E n \in DOMAIN buffer : StartIn(FlushedChunks[k]) = buffer[n]
<1>. DEFINE texts == [k \in DOMAIN buffer |-> doc[buffer[k]].text]
            whole == FlattenSeq(texts)
<1>0. FlushedChunks \in Seq(ChunkRecord)
  BY FlushedChunksAreTyped
<1>1. CASE buffer = <<>>
  <2>1. FlushedChunks = <<>> /\ DOMAIN <<>> = {}
    BY <1>1 DEF FlushedChunks
  <2>. QED
    BY <1>0, <2>1 DEF InOrder
<1>2. CASE buffer # <<>>
  <2>1. \A i \in PlacedTexts : /\ doc[i].text \in Texts /\ i \in Nat
                               /\ \A k \in DOMAIN doc[i].text : doc[i].text[k].place = <<i, k>>
    <3>1. \A i \in PlacedTexts : i \in Content /\ doc[i].kind = "text"
      BY DEF PlacedTexts, PlacedAreContent
    <3>2. \A i \in PlacedTexts : doc[i].text \in Seq(Piece) /\ doc[i].text # <<>> /\ i \in Nat /\ i \in DOMAIN doc
      BY <3>1, ContentHasPlaces DEF Content
    <3>. QED
      BY <3>2, PiecesHavePlaces DEF Texts
  <2>2. /\ Len(buffer) \in Nat /\ DOMAIN buffer = 1..Len(buffer)
        /\ \A k \in DOMAIN buffer : buffer[k] \in PlacedTexts
    OBVIOUS
  <2>3. texts \in Seq(Texts) /\ DOMAIN texts = DOMAIN buffer /\ \A k \in DOMAIN buffer : texts[k] = doc[buffer[k]].text
    BY <2>1, <2>2
  <2>4. FlushedParts = PartsOf(texts)
    BY DEF FlushedParts
  <2>. HIDE DEF texts
  <2>5. \A k \in DOMAIN texts : \A j \in DOMAIN texts[k] : texts[k][j] \in Piece /\ texts[k][j].place[1] = buffer[k]
    <3>. SUFFICES ASSUME NEW k \in DOMAIN texts, NEW j \in DOMAIN texts[k]
                  PROVE  texts[k][j] \in Piece /\ texts[k][j].place[1] = buffer[k]
      OBVIOUS
    <3>1. buffer[k] \in PlacedTexts /\ texts[k] = doc[buffer[k]].text
      BY <2>2, <2>3
    <3>2. texts[k][j].place = <<buffer[k], j>>
      BY <2>1, <3>1
    <3>3. texts[k] \in Seq(Piece)
      BY <2>1, <3>1, TextsAreSeqs
    <3>. QED
      BY <3>2, <3>3
  <2>6. AllInOrder(texts, SameOrLater)
    <3>0. \A k \in DOMAIN texts : buffer[k] \in Nat
      BY <2>1, <2>2, <2>3
    <3>1. \A k, l \in DOMAIN texts : \A i, j : k <= l /\ i \in DOMAIN texts[k] /\ j \in DOMAIN texts[l] =>
            <<texts[k][i], texts[l][j]>> \in SameOrLater
      <4>. SUFFICES ASSUME NEW k \in DOMAIN texts, NEW l \in DOMAIN texts, k <= l,
                           NEW i \in DOMAIN texts[k], NEW j \in DOMAIN texts[l]
                    PROVE  <<texts[k][i], texts[l][j]>> \in SameOrLater
        OBVIOUS
      <4>1. buffer[k] <= buffer[l]
        <5>1. CASE k = l
          BY <3>0, <5>1
        <5>2. CASE k # l
          <6>1. k < l
            BY <2>2, <2>3, <5>2
          <6>2. <<buffer[k], buffer[l]>> \in Less
            BY <2>3, <6>1 DEF InOrder
          <6>3. buffer[k] < buffer[l]
            BY <3>0, <6>2, LessIs
          <6>. QED
            BY <3>0, <6>3
        <5>. QED
          BY <5>1, <5>2
      <4>2. /\ texts[k][i] \in Piece /\ texts[k][i].place[1] = buffer[k]
            /\ texts[l][j] \in Piece /\ texts[l][j].place[1] = buffer[l]
        BY <2>5
      <4>. QED
        BY <4>1, <4>2 DEF SameOrLater
    <3>2. \A k \in DOMAIN texts : InOrder(texts[k], SameOrLater)
      <4>1. \A k \in DOMAIN texts : k <= k
        BY <2>2, <2>3
      <4>. QED
        BY <3>1, <4>1 DEF InOrder
    <3>3. \A k, l \in DOMAIN texts : k < l => k <= l
      BY <2>2, <2>3
    <3>. QED
      BY <3>1, <3>2, <3>3 DEF AllInOrder
  <2>7. /\ InOrder(whole, SameOrLater) /\ whole \in Seq(Piece)
        /\ \A n \in DOMAIN whole : \E k \in DOMAIN texts : \E j \in DOMAIN texts[k] : whole[n] = texts[k][j]
    <3>1. texts \in Seq(Seq(Piece))
      BY <2>3, TextsAreSeqs
    <3>. QED
      BY <2>6, <3>1, FlattenIsInOrder, FlattenIsOfParts
  <2>8. \A piece \in Piece : <<piece, piece>> \in SameOrLater
    <3>1. \A piece \in Piece : piece.place[1] \in Nat
      BY DEF Piece
    <3>. QED
      BY <3>1 DEF SameOrLater
  <2>. DEFINE parts == PartsOf(texts)
  <2>9. /\ parts \in Seq(FullParts)
        /\ \A k \in DOMAIN parts : \E n \in DOMAIN whole : whole[n] = parts[k].text[1]
        /\ \A j, k \in DOMAIN parts : j < k => <<parts[j].text[1], parts[k].text[1]>> \in SameOrLater
    BY <2>3, <2>7, <2>8, PartsBeginInOrder
  <2>. HIDE DEF whole
  <2>10. /\ DOMAIN FlushedChunks = DOMAIN parts
         /\ \A k \in DOMAIN parts : FlushedChunks[k].kind = "text" /\ FlushedChunks[k].text = parts[k].text
    BY <1>2, <2>4 DEF FlushedChunks, Chunk
  <2>. HIDE DEF parts
  <2>11. ASSUME NEW k \in DOMAIN parts
         PROVE  \E n \in DOMAIN buffer : StartIn(FlushedChunks[k]) = buffer[n]
    <3>1. PICK n \in DOMAIN whole : whole[n] = parts[k].text[1]
      BY <2>9
    <3>2. PICK l \in DOMAIN texts : \E j \in DOMAIN texts[l] : whole[n] = texts[l][j]
      BY <2>7
    <3>3. PICK j \in DOMAIN texts[l] : whole[n] = texts[l][j]
      BY <3>2
    <3>4. StartIn(FlushedChunks[k]) = buffer[l]
      <4>1. StartIn(FlushedChunks[k]) = parts[k].text[1].place[1]
        BY <2>10 DEF StartIn
      <4>2. parts[k].text[1] = texts[l][j]
        BY <3>1, <3>3
      <4>3. texts[l][j].place[1] = buffer[l]
        BY <2>5
      <4>. QED
        BY <4>1, <4>2, <4>3
    <3>. QED
      BY <2>3, <3>4
  <2>12. ASSUME NEW j \in DOMAIN parts, NEW k \in DOMAIN parts, j < k
         PROVE  <<FlushedChunks[j], FlushedChunks[k]>> \in NotBefore
    <3>1. <<parts[j].text[1], parts[k].text[1]>> \in SameOrLater
      BY <2>9, <2>12
    <3>2. parts[j].text[1].place[1] <= parts[k].text[1].place[1]
      BY <3>1 DEF SameOrLater
    <3>3. StartIn(FlushedChunks[j]) <= StartIn(FlushedChunks[k])
      BY <2>10, <3>2 DEF StartIn
    <3>4. FlushedChunks[j] \in ChunkRecord /\ FlushedChunks[k] \in ChunkRecord
      BY <1>0, <2>10
    <3>. QED
      BY <3>3, <3>4 DEF NotBefore
  <2>. QED
    BY <1>0, <2>10, <2>11, <2>12 DEF InOrder
<1>. QED
  BY <1>1, <1>2

\* A flush keeps the chunks in order, and lets them begin no later than what is to do.
LEMMA FlushKeepsOrder ==
  ASSUME TypeOK, PlacedAreContent, doc \in Documents, BuildIsTyped,
         InOrder(chunks, NotBefore), InOrder(Waiting, Less), NoLaterThan(chunks, Waiting)
  PROVE  LET flushed == chunks \o FlushedChunks
         IN  /\ flushed \in Seq(ChunkRecord) /\ InOrder(flushed, NotBefore)
             /\ NoLaterThan(flushed, todo) /\ InOrder(todo, Less)
<1>. DEFINE flushed == chunks \o FlushedChunks
<1>1. /\ buffer \in Seq(PlacedTexts) /\ todo \in Seq(PlacedItems) /\ chunks \in Seq(ChunkRecord)
      /\ buffer \in Seq(PlacedItems)
  <2>1. PlacedTexts \subseteq PlacedItems
    BY DEF PlacedTexts
  <2>. QED
    BY <2>1, SeqMonotonic DEF BuildIsTyped
<1>2. /\ InOrder(buffer, Less) /\ InOrder(todo, Less)
      /\ \A j \in DOMAIN buffer, k \in DOMAIN todo : <<buffer[j], todo[k]>> \in Less
  BY <1>1, ConcatWasInOrder DEF Waiting
<1>3. /\ FlushedChunks \in Seq(ChunkRecord) /\ InOrder(FlushedChunks, NotBefore)
      /\ \A k \in DOMAIN FlushedChunks : \E n \in DOMAIN buffer : StartIn(FlushedChunks[k]) = buffer[n]
  BY <1>1, <1>2, FlushedAreInOrder
<1>4. NoLaterThan(chunks, buffer) /\ NoLaterThan(chunks, todo)
  <2>1. HasBoth(Waiting, buffer, todo)
    BY <1>1, ConcatHasBoth DEF Waiting
  <2>. QED
    BY <2>1 DEF HasBoth, NoLaterThan
<1>5. ASSUME NEW c \in DOMAIN chunks, NEW k \in DOMAIN FlushedChunks
      PROVE  <<chunks[c], FlushedChunks[k]>> \in NotBefore
  <2>1. PICK n \in DOMAIN buffer : StartIn(FlushedChunks[k]) = buffer[n]
    BY <1>3
  <2>2. chunks[c].kind \in BodyKinds => StartIn(chunks[c]) <= buffer[n]
    BY <1>4 DEF NoLaterThan
  <2>3. chunks[c] \in ChunkRecord /\ FlushedChunks[k] \in ChunkRecord
    BY <1>1, <1>3
  <2>. QED
    BY <2>1, <2>2, <2>3 DEF NotBefore
<1>6. flushed \in Seq(ChunkRecord) /\ InOrder(flushed, NotBefore)
  BY <1>1, <1>3, <1>5, ConcatIsInOrder, ConcatProperties
<1>7. NoLaterThan(flushed, todo)
  <2>1. HasBoth(flushed, chunks, FlushedChunks)
    BY <1>1, <1>3, ConcatHasBoth
  <2>2. ASSUME NEW k \in DOMAIN FlushedChunks, NEW m \in DOMAIN todo
        PROVE  StartIn(FlushedChunks[k]) <= todo[m]
    <3>1. PICK n \in DOMAIN buffer : StartIn(FlushedChunks[k]) = buffer[n]
      BY <1>3
    <3>2. <<buffer[n], todo[m]>> \in Less
      BY <1>2
    <3>3. buffer[n] \in Nat /\ todo[m] \in Nat /\ buffer[n] < todo[m]
      BY <3>2 DEF Less
    <3>. QED
      BY <3>1, <3>3
  <2>. HIDE DEF flushed
  <2>. QED
    BY <1>4, <2>1, <2>2 DEF HasBoth, NoLaterThan
<1>. QED
  BY <1>2, <1>6, <1>7

\* While the paper does not change, neither does what its order is judged by.
LEMMA SameOrder ==
  ASSUME UNCHANGED <<doc, paper>>
  PROVE  NotBefore' = NotBefore /\ (IsSingleColumn' <=> IsSingleColumn)
<1>1. ChunkRecord' = ChunkRecord /\ PlacedItems' = PlacedItems
  BY SamePaper
<1>2. NotBefore' = NotBefore
  BY <1>1 DEF NotBefore
<1>3. IsSingleColumn' <=> IsSingleColumn
  BY <1>1 DEF IsSingleColumn
<1>. QED
  BY <1>2, <1>3

\* At the start nothing of the body has been made.
LEMMA StartKeepsOrder ==
  ASSUME TypeOK, SectionsAreNested, PlacedAreContent, TextIsDivided, PlacedInOrder, BuildIsSound, StartBuild
  PROVE  OrderIsKept'
<1>1. /\ pc \notin Building /\ UNCHANGED <<doc, paper, buffer>>
      /\ todo' = ReadingOrder /\ chunks' = <<TitleChunk>> \o AbstractChunks
  BY DEF StartBuild, Building
<1>2. buffer' = <<>>
  BY <1>1 DEF BuildIsSound, BuildInit
<1>3. /\ NotBefore' = NotBefore /\ (IsSingleColumn' <=> IsSingleColumn)
  BY <1>1, SameOrder
<1>4. chunks' \in Seq(ChunkRecord) /\ \A c \in DOMAIN chunks' : chunks'[c].kind \notin BodyKinds
  <2>. DEFINE a == AbstractChunks
              t == <<TitleChunk>>
  <2>1. t \o a \in Seq(ChunkRecord)
    BY FirstChunksAreTyped
  <2>2. TitleChunk \in ChunkRecord /\ AbstractChunks \in Seq(ChunkRecord)
    <3>1. TitleChunk \in ChunkRecord
      BY DEF TitleChunk, Chunk, ChunkRecord, Contexts
    <3>2. Chunk("abstract", 0, TextOf(abstract), 0, "abstract") \in ChunkRecord
      <4>1. TextOf(abstract) \in Seq(Piece)
        BY TextOfIsTyped DEF TypeOK
      <4>. QED
        BY <4>1 DEF Chunk, ChunkRecord, Contexts
    <3>. QED
      BY <3>1, <3>2 DEF AbstractChunks
  <2>3. \A c \in DOMAIN t : t[c].kind \notin BodyKinds
    BY DEF TitleChunk, Chunk, BodyKinds
  <2>4. \A c \in DOMAIN a : a[c].kind \notin BodyKinds
    BY DEF AbstractChunks, Chunk, BodyKinds
  <2>5. t \in Seq(ChunkRecord)
    BY <2>2
  <2>6. chunks' = t \o a
    BY <1>1
  <2>. HIDE DEF a, t
  <2>7. HasBoth(t \o a, t, a)
    BY <2>2, <2>5, ConcatHasBoth DEF a
  <2>. QED
    BY <2>1, <2>3, <2>4, <2>6, <2>7 DEF HasBoth
<1>5. InOrder(chunks', NotBefore)
  <2>1. \A c \in DOMAIN chunks' : chunks'[c] \in ChunkRecord
    BY <1>4
  <2>. QED
    BY <1>4, <2>1, OthersAreInOrder DEF InOrder
<1>6. \A items : NoLaterThan(chunks', items)
  BY <1>4 DEF NoLaterThan
<1>7. ASSUME IsSingleColumn
      PROVE  InOrder(buffer' \o todo', Less)
  <2>1. InOrder(ReadingOrder, Less) /\ ReadingOrder \in Seq(PlacedItems)
    BY <1>7, ReadingOrderGoesDown, ReadingOrderIsSeq
  <2>2. <<>> \o ReadingOrder = ReadingOrder
    BY <2>1, ConcatEmptySeq
  <2>. QED
    BY <1>1, <1>2, <2>1, <2>2
<1>. QED
  BY <1>3, <1>5, <1>6, <1>7 DEF OrderIsKept, Waiting

\* A paragraph begins no earlier than the chunks that there are.
LEMMA ParagraphKeepsOrder ==
  ASSUME TypeOK, PlacedAreContent, doc \in Documents, BuildIsSound, OrderIsKept, TakeParagraph
  PROVE  OrderIsKept'
<1>1. /\ pc = "walk" /\ UNCHANGED <<doc, paper>> /\ todo # <<>> /\ todo' = Tail(todo)
  BY DEF TakeParagraph, Walking
<1>2. BuildIsTyped
  BY <1>1 DEF BuildIsSound, Building
<1>3. NotBefore' = NotBefore /\ (IsSingleColumn' <=> IsSingleColumn)
  BY <1>1, SameOrder
<1>4. SUFFICES ASSUME IsSingleColumn
               PROVE  InOrder(chunks', NotBefore) /\ InOrder(Waiting', Less) /\ NoLaterThan(chunks', Waiting')
  BY <1>3 DEF OrderIsKept
<1>5. InOrder(chunks, NotBefore) /\ InOrder(Waiting, Less) /\ NoLaterThan(chunks, Waiting)
  BY <1>1, <1>4 DEF OrderIsKept, Building
<1>6. /\ todo \in Seq(PlacedItems) /\ buffer \in Seq(PlacedItems)
      /\ NextItem \in PlacedItems /\ Tail(todo) \in Seq(PlacedItems) /\ todo = <<NextItem>> \o Tail(todo)
  <2>1. PlacedTexts \subseteq PlacedItems
    BY DEF PlacedTexts
  <2>2. todo \in Seq(PlacedItems) /\ buffer \in Seq(PlacedItems)
    BY <1>2, <2>1, SeqMonotonic DEF BuildIsTyped
  <2>. QED
    BY <1>1, <2>2, HeadAndTail DEF NextItem
<1>7. CASE buffer # <<>> /\ SectionOf(Last(buffer)) # SectionOf(NextItem)
  <2>1. Flush(<<>>) /\ buffer' = <<NextItem>>
    BY <1>7 DEF TakeParagraph
  <2>2. Waiting' = todo
    BY <1>1, <1>6, <2>1 DEF Waiting
  <2>. DEFINE flushed == chunks \o FlushedChunks
  <2>3. /\ flushed \in Seq(ChunkRecord) /\ InOrder(flushed, NotBefore)
        /\ NoLaterThan(flushed, todo) /\ InOrder(todo, Less)
    BY <1>2, <1>5, FlushKeepsOrder
  <2>4. chunks' = flushed \o <<>>
    BY <2>1 DEF Flush
  <2>. HIDE DEF flushed
  <2>5. chunks' = flushed
    BY <2>3, <2>4, ConcatEmptySeq
  <2>. QED
    BY <2>2, <2>3, <2>5
<1>8. CASE ~(buffer # <<>> /\ SectionOf(Last(buffer)) # SectionOf(NextItem))
  <2>1. buffer' = Append(buffer, NextItem) /\ chunks' = chunks
    BY <1>8 DEF TakeParagraph
  <2>2. Append(buffer, NextItem) = buffer \o <<NextItem>>
    BY <1>6, AppendIsConcat
  <2>3. (buffer \o <<NextItem>>) \o Tail(todo) = buffer \o (<<NextItem>> \o Tail(todo))
    <3>1. <<NextItem>> \in Seq(PlacedItems)
      BY <1>6
    <3>2. \A x, y, z \in Seq(PlacedItems) : (x \o y) \o z = x \o (y \o z)
      BY ConcatAssociative, SMTT(20)
    <3>. QED
      BY <1>6, <3>1, <3>2
  <2>4. Waiting' = Waiting
    <3>1. Waiting' = Append(buffer, NextItem) \o Tail(todo)
      BY <1>1, <2>1 DEF Waiting
    <3>2. buffer \o (<<NextItem>> \o Tail(todo)) = Waiting
      BY <1>6 DEF Waiting
    <3>. QED
      BY <2>2, <2>3, <3>1, <3>2
  <2>. QED
    BY <1>5, <2>1, <2>4
<1>. QED
  BY <1>7, <1>8

\* A table or figure comes after the paragraphs before it.
LEMMA VisualKeepsOrder ==
  ASSUME TypeOK, PlacedAreContent, doc \in Documents, BuildIsSound, OrderIsKept, TakeVisual
  PROVE  OrderIsKept'
<1>1. /\ pc = "walk" /\ UNCHANGED <<doc, paper>> /\ todo # <<>> /\ todo' = Tail(todo)
      /\ doc[NextItem].kind # "text" /\ buffer' = <<>> /\ Flush(<<VisualChunk(NextItem)>>)
  BY DEF TakeVisual, Walking
<1>2. BuildIsTyped
  BY <1>1 DEF BuildIsSound, Building
<1>3. NotBefore' = NotBefore /\ (IsSingleColumn' <=> IsSingleColumn)
  BY <1>1, SameOrder
<1>4. SUFFICES ASSUME IsSingleColumn
               PROVE  InOrder(chunks', NotBefore) /\ InOrder(Waiting', Less) /\ NoLaterThan(chunks', Waiting')
  BY <1>3 DEF OrderIsKept
<1>5. InOrder(chunks, NotBefore) /\ InOrder(Waiting, Less) /\ NoLaterThan(chunks, Waiting)
  BY <1>1, <1>4 DEF OrderIsKept, Building
<1>6. /\ todo \in Seq(PlacedItems)
      /\ NextItem \in PlacedItems /\ Tail(todo) \in Seq(PlacedItems) /\ todo = <<NextItem>> \o Tail(todo)
  BY <1>1, <1>2, HeadAndTail DEF BuildIsTyped, NextItem
<1>. DEFINE flushed == chunks \o FlushedChunks
            new == VisualChunk(NextItem)
            rest == Tail(todo)
<1>7. /\ flushed \in Seq(ChunkRecord) /\ InOrder(flushed, NotBefore)
      /\ NoLaterThan(flushed, todo) /\ InOrder(todo, Less)
  BY <1>2, <1>5, FlushKeepsOrder
<1>8. new \in ChunkRecord /\ StartIn(new) = NextItem
  <2>1. new.kind # "text" /\ new.entity = NextItem
    BY <1>1 DEF VisualChunk, Chunk
  <2>2. new \in ChunkRecord
    BY <1>6, VisualChunkIsTyped
  <2>. QED
    BY <2>1, <2>2 DEF StartIn
<1>9. chunks' = flushed \o <<new>> /\ Waiting' = rest
  <2>1. Waiting' = <<>> \o rest
    BY <1>1 DEF Waiting
  <2>2. <<>> \o rest = rest
    BY <1>6, ConcatEmptySeq
  <2>. QED
    BY <1>1, <2>1, <2>2 DEF Flush
<1>. HIDE DEF flushed, new, rest
<1>10. /\ InOrder(<<NextItem>>, Less) /\ InOrder(rest, Less)
       /\ \A n \in DOMAIN rest : <<NextItem, rest[n]>> \in Less
  <2>1. InOrder(<<NextItem>> \o rest, Less) /\ <<NextItem>> \in Seq(PlacedItems) /\ rest \in Seq(PlacedItems)
    <3>1. todo = <<NextItem>> \o rest /\ rest \in Seq(PlacedItems)
      BY <1>6 DEF rest
    <3>2. <<NextItem>> \in Seq(PlacedItems)
      BY <1>6
    <3>3. InOrder(<<NextItem>> \o rest, Less)
      BY <1>7, <3>1
    <3>. QED
      BY <3>1, <3>2, <3>3
  <2>2. /\ InOrder(<<NextItem>>, Less) /\ InOrder(rest, Less)
        /\ \A j \in DOMAIN <<NextItem>>, n \in DOMAIN rest : <<<<NextItem>>[j], rest[n]>> \in Less
    BY <2>1, ConcatWasInOrder
  <2>3. 1 \in DOMAIN <<NextItem>> /\ <<NextItem>>[1] = NextItem
    OBVIOUS
  <2>. QED
    BY <2>2, <2>3
<1>11. /\ <<new>> \in Seq(ChunkRecord) /\ DOMAIN <<new>> = {1} /\ <<new>>[1] = new
       /\ <<NextItem>> \in Seq(PlacedItems) /\ DOMAIN <<NextItem>> = {1} /\ <<NextItem>>[1] = NextItem
  BY <1>6, <1>8
<1>12. NoLaterThan(flushed, <<NextItem>>) /\ NoLaterThan(flushed, rest)
  <2>1. HasBoth(<<NextItem>> \o rest, <<NextItem>>, rest)
    BY <1>6, <1>11, ConcatHasBoth DEF rest
  <2>2. NoLaterThan(flushed, <<NextItem>> \o rest)
    BY <1>6, <1>7 DEF rest
  <2>. QED
    BY <2>1, <2>2 DEF HasBoth, NoLaterThan
<1>13. \A c \in DOMAIN flushed : <<flushed[c], new>> \in NotBefore
  <2>1. \A c \in DOMAIN flushed : flushed[c] \in ChunkRecord
    BY <1>7
  <2>2. \A c \in DOMAIN flushed : flushed[c].kind \in BodyKinds => StartIn(flushed[c]) <= NextItem
    BY <1>11, <1>12 DEF NoLaterThan
  <2>. QED
    BY <1>8, <2>1, <2>2 DEF NotBefore
<1>14. InOrder(flushed \o <<new>>, NotBefore)
  <2>1. InOrder(<<new>>, NotBefore)
    BY <1>11 DEF InOrder
  <2>. QED
    BY <1>7, <1>11, <1>13, <2>1, ConcatIsInOrder
<1>15. NoLaterThan(flushed \o <<new>>, rest)
  <2>1. HasBoth(flushed \o <<new>>, flushed, <<new>>)
    BY <1>7, <1>11, ConcatHasBoth
  <2>2. \A n \in DOMAIN rest : StartIn(new) <= rest[n]
    <3>1. \A n \in DOMAIN rest : NextItem \in Nat /\ rest[n] \in Nat /\ NextItem < rest[n]
      BY <1>10 DEF Less
    <3>2. \A n \in DOMAIN rest : NextItem <= rest[n]
      BY <3>1
    <3>. QED
      BY <1>8, <3>2
  <2>. QED
    BY <1>11, <1>12, <2>1, <2>2 DEF HasBoth, NoLaterThan
<1>. QED
  BY <1>9, <1>10, <1>14, <1>15

\* The references are not of the body.
LEMMA FinishKeepsOrder ==
  ASSUME TypeOK, PlacedAreContent, doc \in Documents, BuildIsSound, OrderIsKept, FinishWalk
  PROVE  OrderIsKept'
<1>1. /\ pc = "walk" /\ UNCHANGED <<doc, paper, todo>> /\ todo = <<>>
      /\ buffer' = <<>> /\ Flush(ReferenceChunks)
  BY DEF FinishWalk
<1>2. BuildIsTyped
  BY <1>1 DEF BuildIsSound, Building
<1>3. NotBefore' = NotBefore /\ (IsSingleColumn' <=> IsSingleColumn)
  BY <1>1, SameOrder
<1>4. SUFFICES ASSUME IsSingleColumn
               PROVE  InOrder(chunks', NotBefore) /\ InOrder(Waiting', Less) /\ NoLaterThan(chunks', Waiting')
  BY <1>3 DEF OrderIsKept
<1>5. InOrder(chunks, NotBefore) /\ InOrder(Waiting, Less) /\ NoLaterThan(chunks, Waiting)
  BY <1>1, <1>4 DEF OrderIsKept, Building
<1>. DEFINE flushed == chunks \o FlushedChunks
            entries == ReferenceChunks
<1>6. flushed \in Seq(ChunkRecord) /\ InOrder(flushed, NotBefore)
  BY <1>2, <1>5, FlushKeepsOrder
<1>7. entries \in Seq(ChunkRecord) /\ \A n \in DOMAIN entries : entries[n].kind \notin BodyKinds
  <2>1. \A n \in DOMAIN entries : entries[n].kind = "reference"
    BY DEF ReferenceChunks, Chunk
  <2>. QED
    BY <2>1, ReferenceChunksAreTyped DEF BodyKinds
<1>8. chunks' = flushed \o entries
  BY <1>1 DEF Flush
<1>. HIDE DEF flushed, entries
<1>9. InOrder(chunks', NotBefore)
  <2>1. /\ \A n \in DOMAIN entries : entries[n] \in ChunkRecord
        /\ \A c \in DOMAIN flushed : flushed[c] \in ChunkRecord
    BY <1>6, <1>7
  <2>2. InOrder(entries, NotBefore)
    BY <1>7, <2>1, OthersAreInOrder DEF InOrder
  <2>3. \A c \in DOMAIN flushed, n \in DOMAIN entries : <<flushed[c], entries[n]>> \in NotBefore
    BY <1>7, <2>1, OthersAreInOrder
  <2>. QED
    BY <1>6, <1>7, <1>8, <2>2, <2>3, ConcatIsInOrder
<1>10. Waiting' = <<>>
  <2>1. <<>> \o <<>> = <<>>
    OBVIOUS
  <2>. QED
    BY <1>1, <2>1 DEF Waiting
<1>11. DOMAIN <<>> = {}
  OBVIOUS
<1>. QED
  BY <1>9, <1>10, <1>11 DEF InOrder, NoLaterThan

\* So every step keeps the order.
LEMMA StepKeepsOrder ==
  ASSUME TypeOK, SectionsAreNested, PlacedAreContent, TextIsDivided, PlacedInOrder, doc \in Documents,
         BuildIsSound, OrderIsKept, [Next]_vars
  PROVE  OrderIsKept'
<1>1. CASE Parse /\ UNCHANGED buildVars
  <2>1. pc' \notin Building
    BY <1>1 DEF Parse, Convert, MapItem, SkipItem, StrayHeading, SpecialHeading, CloseSection,
       OpenSection, NewSection, AbstractText, ReferenceText, Place, Text, Heading, Mapping, Validate, Persist,
       Building
  <2>. QED
    BY <2>1 DEF OrderIsKept
<1>2. CASE StartBuild
  BY <1>2, StartKeepsOrder
<1>3. CASE TakeParagraph
  BY <1>3, ParagraphKeepsOrder
<1>4. CASE TakeVisual
  BY <1>4, VisualKeepsOrder
<1>5. CASE FinishWalk
  BY <1>5, FinishKeepsOrder
<1>6. CASE Detect \/ Check \/ UNCHANGED vars
  <2>1. /\ UNCHANGED <<doc, paper, buffer, todo, chunks>>
        /\ pc' \in Building => pc \in Building
    BY <1>6 DEF Detect, Check, vars, parseVars, buildVars, paper, Building
  <2>2. NotBefore' = NotBefore /\ (IsSingleColumn' <=> IsSingleColumn) /\ Waiting' = Waiting
    BY <2>1, SameOrder DEF Waiting
  <2>. QED
    BY <2>1, <2>2 DEF OrderIsKept
<1>. QED
  BY <1>1, <1>2, <1>3, <1>4, <1>5, <1>6 DEF Next, Build

\* Where sections and boxes leave no doubt, the chunks of the body stand in the order of the
\* document (reading_order.py, KnowledgeBuilder): merging, splitting, the buffer and the
\* sentence that two parts share do not put a chunk before one that begins earlier.
THEOREM SingleColumnsStayInOrder == Spec => []SingleColumnsKeepTheirOrder
<1>. DEFINE Inv == doc \in Documents /\ PlacedInOrder /\ OrderIsKept
            Sound == TypeOK /\ SectionsAreNested /\ PlacedAreContent /\ TextIsDivided /\ BuildIsSound
<1>1. Init => Inv
  <2>. SUFFICES ASSUME Init
                PROVE  Inv
    OBVIOUS
  <2>1. pc \notin Building /\ doc \in Documents /\ placed = <<>> /\ stack = <<>> /\ sections = <<>>
    BY DEF Init, ParseInit, Building
  <2>2. DOMAIN <<>> = {} /\ Len(<<>>) = 0
    OBVIOUS
  <2>. QED
    BY <2>1, <2>2 DEF OrderIsKept, PlacedInOrder, CurrentSection
<1>2. Sound /\ Inv /\ [Next]_vars => Inv'
  <2>. SUFFICES ASSUME Sound, Inv, [Next]_vars
                PROVE  Inv'
    OBVIOUS
  <2>1. doc' = doc
    BY DEF Next, Parse, MapItem, SkipItem, StrayHeading, SpecialHeading, CloseSection, OpenSection, AbstractText,
       ReferenceText, Place, Convert, Validate, Persist, Build, StartBuild, TakeParagraph, TakeVisual,
       FinishWalk, Detect, Check, vars, parseVars
  <2>. QED
    BY <2>1, StepKeepsPlacedOrder, StepKeepsOrder
<1>3. BuildIsSound /\ Inv => SingleColumnsKeepTheirOrder
  <2>. SUFFICES ASSUME BuildIsSound, Inv, IsSingleColumn, IsBuilt,
                       NEW c \in BodyChunks, NEW d \in BodyChunks, c < d
                PROVE  StartOf(c) <= StartOf(d)
    BY DEF SingleColumnsKeepTheirOrder, ReadingOrderIsVisual
  <2>1. InOrder(chunks, NotBefore) /\ chunks \in Seq(ChunkRecord)
    BY DEF OrderIsKept, IsBuilt, Building, BuildIsSound, BuildIsTyped
  <2>2. /\ c \in DOMAIN chunks /\ chunks[c].kind \in BodyKinds
        /\ d \in DOMAIN chunks /\ chunks[d].kind \in BodyKinds
    BY DEF BodyChunks, BodyKinds
  <2>3. <<chunks[c], chunks[d]>> \in NotBefore
    BY <2>1, <2>2 DEF InOrder
  <2>4. StartIn(chunks[c]) <= StartIn(chunks[d])
    BY <2>2, <2>3 DEF NotBefore
  <2>. QED
    BY <2>4 DEF StartIn, StartOf, FirstPiece
<1>. QED
  BY <1>1, <1>2, <1>3, TypeCorrect, SectionsNested, ContentIsPlaced, TextStaysDivided, BuildSound, PTL DEF Spec

-----------------------------------------------------------------------------
(* The bounds of the chunks.                                               *)

\* A chunk continues another by one of two rows of links or by the other.
LEMMA ContinuedInBoth ==
  ASSUME NEW R, NEW links \in Seq(R), NEW more \in Seq(R), NEW c
  PROVE  ContinuedIn(links \o more, c) <=> ContinuedIn(links, c) \/ ContinuedIn(more, c)
<1>. DEFINE both == links \o more
<1>1. HasBoth(both, links, more)
  BY ConcatHasBoth
<1>. HIDE DEF both
<1>2. ASSUME ContinuedIn(both, c)
      PROVE  ContinuedIn(links, c) \/ ContinuedIn(more, c)
  <2>1. PICK k \in DOMAIN both : both[k].type = "CONTINUES" /\ both[k].target = c
    BY <1>2 DEF ContinuedIn
  <2>2. (\E j \in DOMAIN links : both[k] = links[j]) \/ (\E j \in DOMAIN more : both[k] = more[j])
    BY <1>1 DEF HasBoth
  <2>. QED
    BY <2>1, <2>2 DEF ContinuedIn
<1>3. ASSUME ContinuedIn(links, c)
      PROVE  ContinuedIn(both, c)
  <2>1. PICK j \in DOMAIN links : links[j].type = "CONTINUES" /\ links[j].target = c
    BY <1>3 DEF ContinuedIn
  <2>2. PICK k \in DOMAIN both : both[k] = links[j]
    BY <1>1 DEF HasBoth
  <2>. QED
    BY <2>1, <2>2 DEF ContinuedIn
<1>4. ASSUME ContinuedIn(more, c)
      PROVE  ContinuedIn(both, c)
  <2>1. PICK j \in DOMAIN more : more[j].type = "CONTINUES" /\ more[j].target = c
    BY <1>4 DEF ContinuedIn
  <2>2. PICK k \in DOMAIN both : both[k] = more[j]
    BY <1>1 DEF HasBoth
  <2>. QED
    BY <2>1, <2>2 DEF ContinuedIn
<1>. QED
  BY <1>2, <1>3, <1>4 DEF both

\* What PartsAreBounded says of the c-th chunk of a row that stands after m others.
BoundedAt(m, chs, links, c) ==
  /\ Words(chs[c].text) > MaxWords => Len(Sentences(FreshOf(links, m + c, chs[c].text))) <= 1
  /\ Words(chs[c].text) < MinWords /\ ~ContinuedIn(links, m + c) /\ ~ContinuedIn(links, (m + c) + 1) =>
       \A n \in {c - 1, c + 1} \cap DOMAIN chs : chs[n].kind = "text" => chs[n].section # chs[c].section

\* PartsAreBounded of such a row.
BoundedFrom(m, chs, links) == \A c \in DOMAIN chs : chs[c].kind = "text" => BoundedAt(m, chs, links, c)

\* Where two rows of chunks meet, another section begins or one of the two is no text.
MeetApart(chs, new) ==
  chs # <<>> /\ new # <<>> /\ chs[Len(chs)].kind = "text" /\ new[1].kind = "text" =>
    chs[Len(chs)].section # new[1].section

\* Chunks and links that more of them can be joined to.
Joins(chs, new, links, more) ==
  /\ BoundedFrom(0, chs, links) /\ BoundedFrom(Len(chs), new, more) /\ MeetApart(chs, new)
  /\ \A k \in DOMAIN links : links[k].target \in 1..Len(chs)
  /\ \A k \in DOMAIN more : more[k].target \notin 1..Len(chs)

\* What holds for both rows holds for them together.
LEMMA BoundsExtend ==
  ASSUME NEW C, NEW R, NEW chs \in Seq(C), NEW new \in Seq(C), NEW links \in Seq(R), NEW more \in Seq(R),
         Joins(chs, new, links, more)
  PROVE  BoundedFrom(0, chs \o new, links \o more)
<1>. DEFINE all == chs \o new
            both == links \o more
            L == Len(chs)
            N == Len(new)
<1>0. /\ BoundedFrom(0, chs, links) /\ BoundedFrom(L, new, more) /\ MeetApart(chs, new)
      /\ \A k \in DOMAIN links : links[k].target \in 1..L
      /\ \A k \in DOMAIN more : more[k].target \notin 1..L
  BY DEF Joins
<1>1. /\ L \in Nat /\ N \in Nat /\ DOMAIN chs = 1..L /\ DOMAIN new = 1..N
      /\ all \in Seq(C) /\ Len(all) = L + N /\ DOMAIN all = 1..(L + N)
      /\ \A c \in 1..L : all[c] = chs[c]
      /\ \A n \in 1..N : all[L + n] = new[n]
  <2>1. /\ all \in Seq(C) /\ Len(all) = L + N
        /\ \A i \in 1..(L + N) : all[i] = IF i <= L THEN chs[i] ELSE new[i - L]
    BY ConcatProperties
  <2>2. L \in Nat /\ N \in Nat /\ DOMAIN chs = 1..L /\ DOMAIN new = 1..N
    OBVIOUS
  <2>. HIDE DEF all, L, N
  <2>3. DOMAIN all = 1..(L + N)
    BY <2>1
  <2>4. \A n \in 1..N : L + n \in 1..(L + N) /\ ~(L + n <= L) /\ (L + n) - L = n
    BY <2>2
  <2>5. \A c \in 1..L : c \in 1..(L + N) /\ c <= L
    BY <2>2
  <2>. QED
    BY <2>1, <2>2, <2>3, <2>4, <2>5
<1>2. \A c : ContinuedIn(both, c) <=> ContinuedIn(links, c) \/ ContinuedIn(more, c)
  BY ContinuedInBoth
<1>3. (N > 0 => new # <<>>) /\ (L > 0 => chs # <<>>)
  BY <1>1
<1>. HIDE DEF all, both
<1>4. N > 0 /\ L > 0 /\ chs[L].kind = "text" /\ new[1].kind = "text" => chs[L].section # new[1].section
  BY <1>0, <1>3 DEF MeetApart
<1>. HIDE DEF L, N
<1>5. \A c \in 1..L : ~ContinuedIn(more, c)
  BY <1>0 DEF ContinuedIn
<1>6. \A c : c \notin 1..L => ~ContinuedIn(links, c)
  BY <1>0 DEF ContinuedIn
<1>7. ASSUME NEW c \in 1..L, all[c].kind = "text"
      PROVE  BoundedAt(0, all, both, c)
  <2>1. BoundedAt(0, chs, links, c) /\ all[c] = chs[c] /\ 0 + c = c
    <3>1. c \in DOMAIN chs /\ all[c] = chs[c] /\ 0 + c = c
      BY <1>1
    <3>. QED
      BY <1>0, <1>7, <3>1 DEF BoundedFrom
  <2>2. FreshOf(both, 0 + c, all[c].text) = FreshOf(links, 0 + c, chs[c].text)
    BY <1>2, <1>5, <2>1 DEF FreshOf
  <2>3. ASSUME Words(all[c].text) < MinWords, ~ContinuedIn(both, 0 + c), ~ContinuedIn(both, (0 + c) + 1),
               NEW n \in {c - 1, c + 1} \cap DOMAIN all, all[n].kind = "text"
        PROVE  all[n].section # all[c].section
    <3>1. \A m \in {c - 1, c + 1} \cap DOMAIN chs : chs[m].kind = "text" => chs[m].section # chs[c].section
      BY <1>2, <2>1, <2>3 DEF BoundedAt
    <3>2. CASE n \in 1..L
      BY <1>1, <2>1, <2>3, <3>1, <3>2
    <3>3. CASE n \notin 1..L
      <4>1. n = L + 1 /\ c = L /\ N > 0 /\ L > 0 /\ 1 \in 1..N
        BY <1>1, <3>3
      <4>2. all[n] = new[1]
        BY <1>1, <4>1
      <4>. QED
        BY <1>4, <1>7, <2>1, <2>3, <4>1, <4>2
    <3>. QED
      BY <3>2, <3>3
  <2>. QED
    BY <2>1, <2>2, <2>3 DEF BoundedAt
<1>8. ASSUME NEW m \in 1..N, all[L + m].kind = "text"
      PROVE  BoundedAt(0, all, both, L + m)
  <2>. DEFINE c == L + m
  <2>1. BoundedAt(L, new, more, m) /\ all[c] = new[m] /\ 0 + c = c /\ c \notin 1..L /\ c + 1 \notin 1..L
    <3>1. m \in DOMAIN new /\ all[c] = new[m] /\ 0 + c = c /\ c \notin 1..L /\ c + 1 \notin 1..L
      BY <1>1
    <3>. QED
      BY <1>0, <1>8, <3>1 DEF BoundedFrom
  <2>2. FreshOf(both, 0 + c, all[c].text) = FreshOf(more, L + m, new[m].text)
    BY <1>2, <1>6, <2>1 DEF FreshOf
  <2>3. ASSUME Words(all[c].text) < MinWords, ~ContinuedIn(both, 0 + c), ~ContinuedIn(both, (0 + c) + 1),
               NEW n \in {c - 1, c + 1} \cap DOMAIN all, all[n].kind = "text"
        PROVE  all[n].section # all[c].section
    <3>1. \A j \in {m - 1, m + 1} \cap DOMAIN new : new[j].kind = "text" => new[j].section # new[m].section
      BY <1>2, <2>1, <2>3 DEF BoundedAt
    <3>2. CASE n \in 1..L
      <4>1. n = L /\ m = 1 /\ N > 0 /\ L > 0
        BY <1>1, <3>2
      <4>. QED
        BY <1>1, <1>4, <1>8, <2>1, <2>3, <3>2, <4>1
    <3>3. CASE n \notin 1..L
      <4>. DEFINE j == n - L
      <4>1. n \in 1..(L + N) /\ j \in 1..N /\ n = L + j /\ j \in {m - 1, m + 1}
        BY <1>1, <3>3, SMTT(20)
      <4>. HIDE DEF j
      <4>2. all[n] = new[j]
        BY <1>1, <4>1
      <4>. QED
        BY <1>1, <2>1, <2>3, <3>1, <4>1, <4>2
    <3>. QED
      BY <3>2, <3>3
  <2>. QED
    BY <2>1, <2>2, <2>3 DEF BoundedAt
<1>9. \A c \in 1..(L + N) : c \in 1..L \/ \E m \in 1..N : c = L + m
  <2>1. \A c \in 1..(L + N) : c \notin 1..L => c - L \in 1..N /\ c = L + (c - L)
    BY <1>1
  <2>. QED
    BY <2>1
<1>10. BoundedFrom(0, all, both)
  <2>. SUFFICES ASSUME NEW c \in 1..(L + N), all[c].kind = "text"
                PROVE  BoundedAt(0, all, both, c)
    BY <1>1 DEF BoundedFrom
  <2>1. CASE c \in 1..L
    BY <1>7, <2>1
  <2>2. CASE c \notin 1..L
    <3>1. PICK m \in 1..N : c = L + m
      BY <1>9, <2>2
    <3>. QED
      BY <1>8, <3>1
  <2>. QED
    BY <2>1, <2>2
<1>. QED
  BY <1>10 DEF all, both

\* A link between consecutive parts joins a chunk to the one before it.
LinksAreSteps(links) ==
  \A k \in DOMAIN links : links[k].type = "CONTINUES" =>
    links[k] = Link(links[k].target - 1, links[k].target, "CONTINUES")

\* The paragraphs in the buffer are of one section, and the chunk before them is not a text of it.
RunStandsApart ==
  /\ \A n \in DOMAIN buffer : SectionOf(buffer[n]) = SectionOf(Head(buffer))
  /\ chunks[Len(chunks)].kind = "text" =>
       buffer # <<>> /\ chunks[Len(chunks)].section # SectionOf(Head(buffer))

\* The inductive invariant of the bounds.
BoundsAreKept ==
  /\ pc \in Building => BoundedFrom(0, chunks, relationships) /\ LinksAreSteps(relationships)
  /\ pc = "walk" => RunStandsApart

\* What a flush makes of the buffer.
LEMMA FlushedIsBounded ==
  ASSUME TypeOK, PlacedAreContent, BuildIsTyped
  PROVE  /\ FlushedChunks \in Seq(ChunkRecord) /\ (buffer # <<>> => FlushedChunks # <<>>)
         /\ \A k \in DOMAIN FlushedChunks :
              buffer # <<>> /\ FlushedChunks[k].kind = "text" /\ FlushedChunks[k].section = SectionOf(Head(buffer))
         /\ BoundedFrom(Len(chunks), FlushedChunks, FlushedLinks)
         /\ LinksAreSteps(FlushedLinks)
<1>. DEFINE L == Len(chunks)
            P == FlushedParts
            texts == [k \in DOMAIN buffer |-> doc[buffer[k]].text]
<1>1. /\ chunks \in Seq(ChunkRecord) /\ buffer \in Seq(PlacedTexts) /\ L \in Nat
  BY DEF BuildIsTyped
<1>2. FlushedChunks \in Seq(ChunkRecord)
  BY <1>1, FlushedChunksAreTyped
<1>3. CASE buffer = <<>>
  <2>1. FlushedChunks = <<>> /\ FlushedLinks = <<>> /\ DOMAIN <<>> = {}
    BY <1>3 DEF FlushedChunks, FlushedLinks
  <2>. QED
    BY <1>2, <1>3, <2>1 DEF BoundedFrom, LinksAreSteps
<1>4. CASE buffer # <<>>
  <2>1. texts \in Seq(Texts) /\ texts # <<>>
    <3>1. \A i \in PlacedTexts : doc[i].text \in Texts
      <4>1. \A i \in PlacedTexts : i \in Content /\ doc[i].kind = "text"
        BY DEF PlacedTexts, PlacedAreContent
      <4>2. \A i \in PlacedTexts : doc[i].text \in Seq(Piece) /\ doc[i].text # <<>>
        BY <4>1, ContentHasPlaces DEF Content
      <4>. QED
        BY <4>2 DEF Texts
    <3>2. Len(buffer) \in Nat \ {0} /\ DOMAIN buffer = 1..Len(buffer) /\ \A k \in DOMAIN buffer : buffer[k] \in PlacedTexts
      BY <1>1, <1>4, EmptySeq
    <3>3. texts \in [1..Len(buffer) -> Texts] /\ DOMAIN texts = 1..Len(buffer)
      BY <3>1, <3>2
    <3>. HIDE DEF texts
    <3>4. texts \in Seq(Texts)
      BY <3>2, <3>3, SeqDef
    <3>. QED
      BY <3>2, <3>3, <3>4
  <2>2. P = PartsOf(texts)
    BY DEF FlushedParts
  <2>. HIDE DEF texts
  <2>3. P \in Seq(FullParts) /\ FlattenSeq([k \in DOMAIN P |-> FreshText(P[k])]) = FlattenSeq(texts)
    BY <2>1, <2>2, PartsAreWhole
  <2>4. LongAddLittle(P) /\ ShortAreAlone(P)
    BY <2>1, <2>2, PartsAreLimited
  <2>5. Len(FlushedChunks) = Len(P)
    BY <1>1, <1>4, FlushedChunksAreTyped
  <2>6. \A k \in DOMAIN P : ContinuedIn(FlushedLinks, L + k) <=> P[k].continues
    BY <1>1, <1>4, FlushedLinksFollow
  <2>7. /\ DOMAIN FlushedChunks = DOMAIN P
        /\ \A k \in DOMAIN P : /\ FlushedChunks[k].kind = "text" /\ FlushedChunks[k].text = P[k].text
                               /\ FlushedChunks[k].section = SectionOf(Head(buffer))
    BY <1>4 DEF FlushedChunks, Chunk
  <2>8. P # <<>>
    <3>1. FlattenSeq(texts) # <<>>
      BY <2>1, FlattenIsNotBlank DEF Texts
    <3>2. ASSUME P = <<>>
          PROVE  [k \in DOMAIN P |-> FreshText(P[k])] = <<>>
      <4>1. DOMAIN P = {}
        BY <3>2
      <4>. HIDE DEF P
      <4>. QED
        BY <4>1
    <3>. QED
      BY <2>3, <3>1, <3>2, FlattenNothing
  <2>9. LinksAreSteps(FlushedLinks)
    <3>. DEFINE later == Ascending({k \in DOMAIN P : P[k].continues})
                new(n) == Link(L + later[n] - 1, L + later[n], "CONTINUES")
    <3>0. \A n \in DOMAIN later : later[n] \in Nat
      <4>. DEFINE S == {k \in DOMAIN P : P[k].continues}
                  sorted == Ascending(S)
      <4>. HIDE DEF P
      <4>1. Len(P) \in Nat /\ DOMAIN P = 1..Len(P)
        BY <2>3
      <4>2. IsFiniteSet(1..Len(P)) /\ 1..Len(P) \subseteq Nat /\ S \subseteq 1..Len(P)
        BY <4>1, FS_Interval
      <4>. HIDE DEF S
      <4>3. S \subseteq Nat /\ IsFiniteSet(S)
        BY <4>2, FS_Subset
      <4>4. sorted \in Seq(S)
        BY <4>3, AscendingIsInOrder
      <4>. HIDE DEF sorted
      <4>5. \A n \in DOMAIN sorted : sorted[n] \in S
        BY <4>4
      <4>6. \A n \in DOMAIN sorted : sorted[n] \in Nat
        BY <4>3, <4>5
      <4>. QED
        BY <4>6 DEF S, sorted
    <3>1. FlushedLinks = [n \in DOMAIN later |-> new(n)]
      BY <1>4 DEF FlushedLinks
    <3>2. \A n \in DOMAIN later : new(n).target = L + later[n] /\ new(n) = Link(new(n).target - 1, new(n).target, "CONTINUES")
      <4>. SUFFICES ASSUME NEW n \in DOMAIN later
                    PROVE  /\ new(n).target = L + later[n]
                           /\ new(n) = Link(new(n).target - 1, new(n).target, "CONTINUES")
        OBVIOUS
      <4>. DEFINE t == L + later[n]
                  x == new(n)
      <4>1. x = Link(t - 1, t, "CONTINUES")
        <5>1. later[n] \in Nat
          BY <3>0
        <5>2. L + (later[n] - 1) = (L + later[n]) - 1
          BY <1>1, <5>1
        <5>. QED
          BY <5>2
      <4>. HIDE DEF x, t
      <4>2. x.target = t
        BY <4>1 DEF Link
      <4>. QED
        BY <4>1, <4>2 DEF x, t
    <3>. HIDE DEF later, new
    <3>3. DOMAIN FlushedLinks = DOMAIN later /\ \A n \in DOMAIN later : FlushedLinks[n] = new(n)
      BY <3>1
    <3>. QED
      BY <3>2, <3>3 DEF LinksAreSteps
  <2>. HIDE DEF P, L
  <2>10. Len(P) \in Nat \ {0} /\ DOMAIN P = 1..Len(P)
    BY <2>3, <2>8, EmptySeq
  <2>11. ASSUME NEW c \in DOMAIN FlushedChunks
         PROVE  BoundedAt(L, FlushedChunks, FlushedLinks, c)
    <3>1. c \in DOMAIN P /\ c \in 1..Len(P) /\ FlushedChunks[c].text = P[c].text
      BY <2>7, <2>10
    <3>2. FreshOf(FlushedLinks, L + c, FlushedChunks[c].text) = FreshText(P[c])
      BY <2>6, <3>1 DEF FreshOf, FreshText
    <3>3. Words(P[c].text) > MaxWords => Len(Sentences(FreshText(P[c]))) <= 1
      BY <2>4, <3>1 DEF LongAddLittle
    <3>4. ASSUME Words(P[c].text) < MinWords, ~ContinuedIn(FlushedLinks, L + c), ~ContinuedIn(FlushedLinks, (L + c) + 1),
                 NEW n \in {c - 1, c + 1} \cap DOMAIN FlushedChunks
          PROVE  FALSE
      <4>1. ~P[c].continues
        BY <2>6, <3>1, <3>4
      <4>2. c < Len(P) => ~P[c + 1].continues
        <5>1. c < Len(P) => c + 1 \in DOMAIN P /\ L + (c + 1) = (L + c) + 1
          BY <1>1, <2>10, <3>1 DEF L
        <5>. QED
          BY <2>6, <3>4, <5>1
      <4>3. Len(P) = 1
        BY <2>4, <3>1, <3>4, <4>1, <4>2 DEF ShortAreAlone
      <4>. QED
        BY <2>7, <2>10, <3>1, <3>4, <4>3
    <3>. QED
      BY <3>1, <3>2, <3>3, <3>4 DEF BoundedAt
  <2>12. BoundedFrom(L, FlushedChunks, FlushedLinks)
    BY <2>11 DEF BoundedFrom
  <2>13. FlushedChunks # <<>>
    <3>1. DOMAIN FlushedChunks # {} /\ DOMAIN <<>> = {}
      BY <2>7, <2>10
    <3>. QED
      BY <3>1
  <2>. QED
    BY <1>2, <1>4, <2>7, <2>9, <2>12, <2>13 DEF L
<1>. QED
  BY <1>3, <1>4

\* Chunks that are no text have no bounds.
LEMMA OthersAreBounded ==
  ASSUME NEW m, NEW chs, NEW links, \A c \in DOMAIN chs : chs[c].kind # "text"
  PROVE  BoundedFrom(m, chs, links)
BY DEF BoundedFrom

\* So a flush keeps the bounds, whatever chunks follow that are no text.
LEMMA FlushKeepsBounds ==
  ASSUME TypeOK, PlacedAreContent, BuildIsTyped, BoundedFrom(0, chunks, relationships), LinksAreSteps(relationships),
         RunStandsApart,
         NEW followers \in Seq(ChunkRecord), \A n \in DOMAIN followers : followers[n].kind # "text", Flush(followers)
  PROVE  BoundedFrom(0, chunks', relationships') /\ LinksAreSteps(relationships')
<1>. DEFINE R == [source: Nat, target: Nat, type: {"CONTINUES", "CITES", "REFERENCES"}]
            L == Len(chunks)
            first == chunks \o FlushedChunks
            links == relationships \o FlushedLinks
            n == L + Len(FlushedChunks)
<1>1. /\ chunks \in Seq(ChunkRecord) /\ chunks # <<>> /\ buffer \in Seq(PlacedTexts)
      /\ relationships \in Seq(Relationship)
      /\ Len(chunks) \in Nat /\ DOMAIN chunks = 1..Len(chunks)
  BY DEF BuildIsTyped
<1>2. /\ FlushedChunks \in Seq(ChunkRecord) /\ (buffer # <<>> => FlushedChunks # <<>>)
      /\ \A k \in DOMAIN FlushedChunks :
           buffer # <<>> /\ FlushedChunks[k].kind = "text" /\ FlushedChunks[k].section = SectionOf(Head(buffer))
      /\ BoundedFrom(L, FlushedChunks, FlushedLinks)
      /\ LinksAreSteps(FlushedLinks)
  BY FlushedIsBounded
<1>3. n \in Nat /\ Len(chunks) + Len(FlushedChunks) <= n
  BY <1>1, <1>2
<1>a. \A m \in Nat : Len(chunks) + Len(FlushedChunks) <= m =>
        /\ FlushedLinks \in Seq([source: 1..m, target: 1..m, type: {"CONTINUES"}])
        /\ \A k \in DOMAIN FlushedLinks : Len(chunks) < FlushedLinks[k].target
  BY <1>1, FlushedLinksAreNew
<1>4. /\ FlushedLinks \in Seq([source: 1..n, target: 1..n, type: {"CONTINUES"}])
      /\ \A k \in DOMAIN FlushedLinks : Len(chunks) < FlushedLinks[k].target
  BY <1>3, <1>a
<1>5. FlushedLinks \in Seq(R) /\ relationships \in Seq(R)
  <2>1. [source: 1..n, target: 1..n, type: {"CONTINUES"}] \subseteq R
    BY <1>3
  <2>2. Relationship \subseteq R
    BY <1>1 DEF Relationship
  <2>. HIDE DEF R
  <2>. QED
    BY <1>1, <1>4, <2>1, <2>2, SeqMonotonic
<1>6. \A k \in DOMAIN relationships : relationships[k].target \in 1..L
  <2>1. \A k \in DOMAIN relationships : relationships[k] \in Relationship
    BY <1>1
  <2>. QED
    BY <1>1, <2>1 DEF Relationship
<1>7. \A k \in DOMAIN FlushedLinks : FlushedLinks[k].target \notin 1..L /\ FlushedLinks[k].target \in 1..n
  <2>. DEFINE T == [source: 1..n, target: 1..n, type: {"CONTINUES"}]
  <2>1. \A x \in T : x.target \in 1..n
    OBVIOUS
  <2>. HIDE DEF T
  <2>2. \A k \in DOMAIN FlushedLinks : FlushedLinks[k] \in T
    <3>1. FlushedLinks \in Seq(T)
      BY <1>4 DEF T
    <3>. QED
      BY <3>1
  <2>3. \A k \in DOMAIN FlushedLinks : FlushedLinks[k].target \in 1..n
    BY <2>1, <2>2
  <2>. QED
    BY <1>1, <1>3, <1>4, <2>3
<1>. HIDE DEF R
<1>8. BoundedFrom(0, first, links)
  <2>1. MeetApart(chunks, FlushedChunks)
    <3>1. SUFFICES ASSUME FlushedChunks # <<>>, chunks[L].kind = "text"
                   PROVE  chunks[L].section # FlushedChunks[1].section
      BY DEF MeetApart
    <3>2. 1 \in DOMAIN FlushedChunks
      BY <1>2, <3>1, EmptySeq
    <3>. QED
      BY <1>2, <3>1, <3>2 DEF RunStandsApart
  <2>2. Joins(chunks, FlushedChunks, relationships, FlushedLinks)
    BY <1>2, <1>6, <1>7, <2>1 DEF Joins
  <2>. QED
    BY <1>1, <1>2, <1>5, <2>2, BoundsExtend
<1>9. LinksAreSteps(links)
  <2>1. HasBoth(links, relationships, FlushedLinks)
    BY <1>5, ConcatHasBoth
  <2>. HIDE DEF links
  <2>2. ASSUME NEW k \in DOMAIN links, links[k].type = "CONTINUES"
        PROVE  links[k] = Link(links[k].target - 1, links[k].target, "CONTINUES")
    <3>1. (\E j \in DOMAIN relationships : links[k] = relationships[j]) \/ (\E j \in DOMAIN FlushedLinks : links[k] = FlushedLinks[j])
      BY <2>1 DEF HasBoth
    <3>. QED
      BY <1>2, <2>2, <3>1 DEF LinksAreSteps
  <2>. QED
    BY <2>2 DEF LinksAreSteps
<1>10. first \in Seq(ChunkRecord) /\ Len(first) = n /\ links \in Seq(R)
  BY <1>1, <1>2, <1>5, ConcatProperties
<1>11. \A k \in DOMAIN links : links[k].target \in 1..n
  <2>1. HasBoth(links, relationships, FlushedLinks)
    BY <1>5, ConcatHasBoth
  <2>2. \A k \in DOMAIN relationships : relationships[k].target \in 1..n
    <3>1. 1..L \subseteq 1..n
      BY <1>1, <1>2
    <3>. QED
      BY <1>6, <3>1
  <2>. HIDE DEF links, n
  <2>. QED
    BY <1>7, <2>1, <2>2 DEF HasBoth
<1>. HIDE DEF first, links, n, L
<1>12. BoundedFrom(0, first \o followers, links \o <<>>)
  <2>1. BoundedFrom(Len(first), followers, <<>>)
    BY OthersAreBounded
  <2>2. MeetApart(first, followers)
    <3>1. followers # <<>> => 1 \in DOMAIN followers
      BY EmptySeq
    <3>. QED
      BY <3>1 DEF MeetApart
  <2>3. \A k \in DOMAIN <<>> : <<>>[k].target \notin 1..Len(first)
    OBVIOUS
  <2>. DEFINE none == <<>>
  <2>4. Joins(first, followers, links, none)
    BY <1>8, <1>10, <1>11, <2>1, <2>2, <2>3 DEF Joins
  <2>5. none \in Seq(R)
    OBVIOUS
  <2>. HIDE DEF none
  <2>6. BoundedFrom(0, first \o followers, links \o none)
    BY <1>10, <2>4, <2>5, BoundsExtend
  <2>. QED
    BY <2>6 DEF none
<1>13. links \o <<>> = links
  BY <1>10, ConcatEmptySeq
<1>14. chunks' = first \o followers /\ relationships' = links
  BY DEF Flush, first, links
<1>. QED
  BY <1>9, <1>12, <1>13, <1>14

\* The build begins with a title and an abstract, and with no paragraph.
LEMMA StartKeepsBounds ==
  ASSUME TypeOK, BuildIsSound, StartBuild
  PROVE  BoundsAreKept'
<1>1. /\ pc \notin Building /\ pc' = "walk" /\ UNCHANGED <<buffer, relationships>>
      /\ chunks' = <<TitleChunk>> \o AbstractChunks
  BY DEF StartBuild, Building
<1>2. buffer' = <<>> /\ relationships' = <<>>
  BY <1>1 DEF BuildIsSound, BuildInit
<1>. DEFINE first == <<TitleChunk>> \o AbstractChunks
<1>3. first \in Seq(ChunkRecord) /\ first # <<>>
  BY FirstChunksAreTyped
<1>4. \A c \in DOMAIN first : first[c].kind # "text"
  <2>. DEFINE a == AbstractChunks
              t == <<TitleChunk>>
  <2>1. TitleChunk \in ChunkRecord /\ a \in Seq(ChunkRecord)
    <3>1. TitleChunk \in ChunkRecord
      BY DEF TitleChunk, Chunk, ChunkRecord, Contexts
    <3>2. Chunk("abstract", 0, TextOf(abstract), 0, "abstract") \in ChunkRecord
      <4>1. TextOf(abstract) \in Seq(Piece)
        BY TextOfIsTyped DEF TypeOK
      <4>. QED
        BY <4>1 DEF Chunk, ChunkRecord, Contexts
    <3>. QED
      BY <3>1, <3>2 DEF AbstractChunks
  <2>2. \A c \in DOMAIN t : t[c].kind # "text"
    BY DEF TitleChunk, Chunk
  <2>3. \A c \in DOMAIN a : a[c].kind # "text"
    BY DEF AbstractChunks, Chunk
  <2>4. t \in Seq(ChunkRecord)
    BY <2>1
  <2>. HIDE DEF a, t
  <2>5. HasBoth(t \o a, t, a)
    BY <2>1, <2>4, ConcatHasBoth
  <2>. QED
    BY <2>2, <2>3, <2>5 DEF HasBoth, a, t
<1>. HIDE DEF first
<1>5. BoundedFrom(0, first, <<>>)
  BY <1>4, OthersAreBounded
<1>6. LinksAreSteps(<<>>)
  BY DEF LinksAreSteps
<1>7. Len(first) \in DOMAIN first
  <2>1. Len(first) \in Nat \ {0} /\ DOMAIN first = 1..Len(first)
    BY <1>3, EmptySeq
  <2>. QED
    BY <2>1
<1>8. chunks' = first
  BY <1>1 DEF first
<1>9. RunStandsApart'
  <2>1. chunks'[Len(chunks')].kind # "text"
    BY <1>4, <1>7, <1>8
  <2>2. DOMAIN buffer' = {}
    BY <1>2
  <2>. QED
    BY <2>1, <2>2 DEF RunStandsApart
<1>. QED
  BY <1>1, <1>2, <1>5, <1>6, <1>8, <1>9 DEF BoundsAreKept

\* A paragraph of another section begins a run of its own.
LEMMA ParagraphKeepsBounds ==
  ASSUME TypeOK, PlacedAreContent, BuildIsSound, BoundsAreKept, TakeParagraph
  PROVE  BoundsAreKept'
<1>1. /\ pc = "walk" /\ pc' = "walk" /\ UNCHANGED <<doc, paper>> /\ todo # <<>>
  BY DEF TakeParagraph, Walking
<1>2. BuildIsTyped /\ BoundedFrom(0, chunks, relationships) /\ LinksAreSteps(relationships) /\ RunStandsApart
  BY <1>1 DEF BuildIsSound, BoundsAreKept, Building
<1>3. placed' = placed /\ \A i : SectionOf(i)' = SectionOf(i)
  BY <1>1 DEF SectionOf, paper
<1>4. /\ chunks \in Seq(ChunkRecord) /\ chunks # <<>> /\ buffer \in Seq(PlacedTexts)
  BY <1>2 DEF BuildIsTyped
<1>5. CASE buffer # <<>> /\ SectionOf(Last(buffer)) # SectionOf(NextItem)
  <2>1. Flush(<<>>) /\ buffer' = <<NextItem>>
    BY <1>5 DEF TakeParagraph
  <2>. DEFINE none == <<>>
  <2>2. none \in Seq(ChunkRecord) /\ \A n \in DOMAIN none : none[n].kind # "text"
    OBVIOUS
  <2>3. Flush(none)
    BY <2>1
  <2>. HIDE DEF none
  <2>4. BoundedFrom(0, chunks', relationships') /\ LinksAreSteps(relationships')
    BY <1>2, <2>2, <2>3, FlushKeepsBounds
  <2>. DEFINE f == FlushedChunks
              all == chunks \o f
  <2>5. /\ f \in Seq(ChunkRecord) /\ f # <<>>
        /\ \A k \in DOMAIN f : f[k].section = SectionOf(Head(buffer))
    BY <1>2, <1>5, FlushedIsBounded
  <2>6. chunks' = all
    <3>1. chunks' = all \o <<>>
      BY <2>1 DEF Flush
    <3>2. all \in Seq(ChunkRecord)
      BY <1>4, <2>5, ConcatProperties
    <3>. HIDE DEF all
    <3>. QED
      BY <3>1, <3>2, ConcatEmptySeq
  <2>. HIDE DEF f
  <2>7. Len(all) = Len(chunks) + Len(f) /\ all[Len(chunks) + Len(f)] = f[Len(f)] /\ Len(f) \in DOMAIN f
    <3>1. Len(f) \in Nat \ {0} /\ Len(chunks) \in Nat /\ Len(f) \in DOMAIN f
      BY <1>4, <2>5, EmptySeq
    <3>2. /\ Len(all) = Len(chunks) + Len(f)
          /\ \A i \in 1..(Len(chunks) + Len(f)) : all[i] = IF i <= Len(chunks) THEN chunks[i] ELSE f[i - Len(chunks)]
      BY <1>4, <2>5, ConcatProperties
    <3>. HIDE DEF all
    <3>3. /\ Len(chunks) + Len(f) \in 1..(Len(chunks) + Len(f)) /\ ~(Len(chunks) + Len(f) <= Len(chunks))
          /\ (Len(chunks) + Len(f)) - Len(chunks) = Len(f)
      BY <3>1
    <3>. QED
      BY <3>1, <3>2, <3>3
  <2>. HIDE DEF all
  <2>8. SectionOf(Last(buffer)) = SectionOf(Head(buffer))
    <3>1. Last(buffer) = buffer[Len(buffer)] /\ Len(buffer) \in DOMAIN buffer
      <4>1. Len(buffer) \in Nat \ {0} /\ Last(buffer) = buffer[Len(buffer)]
        BY <1>4, <1>5, FrontAndLast
      <4>2. DOMAIN buffer = 1..Len(buffer)
        BY <1>4
      <4>. QED
        BY <4>1, <4>2
    <3>. QED
      BY <1>2, <3>1 DEF RunStandsApart
  <2>9. chunks'[Len(chunks')].section # SectionOf(NextItem)
    BY <1>5, <2>5, <2>6, <2>7, <2>8
  <2>. DEFINE one == <<NextItem>>
  <2>10. buffer' = one /\ one # <<>> /\ Head(one) = NextItem /\ \A n \in DOMAIN one : one[n] = NextItem
    BY <2>1
  <2>. HIDE DEF one
  <2>11. \A n \in DOMAIN buffer' : SectionOf(buffer'[n]) = SectionOf(Head(buffer'))
    BY <2>10
  <2>12. chunks'[Len(chunks')].section # SectionOf(Head(buffer'))
    BY <2>9, <2>10
  <2>13. buffer' # <<>>
    BY <2>10
  <2>14. RunStandsApart'
    BY <1>3, <2>11, <2>12, <2>13 DEF RunStandsApart, SectionOf
  <2>. QED
    BY <1>1, <2>4, <2>14 DEF BoundsAreKept
<1>6. CASE ~(buffer # <<>> /\ SectionOf(Last(buffer)) # SectionOf(NextItem))
  <2>1. buffer' = Append(buffer, NextItem) /\ UNCHANGED <<chunks, relationships>>
    BY <1>6 DEF TakeParagraph
  <2>. DEFINE more == Append(buffer, NextItem)
              n == Len(buffer)
  <2>2. NextItem \in PlacedItems
    BY <1>1, <1>2, HeadAndTail DEF BuildIsTyped, NextItem
  <2>3. buffer \in Seq(PlacedItems)
    <3>1. PlacedTexts \subseteq PlacedItems
      BY DEF PlacedTexts
    <3>. QED
      BY <1>4, <3>1, SeqMonotonic
  <2>4. /\ more \in Seq(PlacedItems) /\ Len(more) = n + 1 /\ n \in Nat
        /\ \A k \in 1..n : more[k] = buffer[k]
        /\ more[n + 1] = NextItem
    BY <2>2, <2>3, AppendProperties
  <2>5. DOMAIN buffer = 1..n /\ (n = 0 <=> buffer = <<>>)
    BY <2>3
  <2>. HIDE DEF more
  <2>6. DOMAIN more = 1..(n + 1) /\ more # <<>> /\ Head(more) = more[1]
    BY <2>4
  <2>. HIDE DEF n
  <2>7. \A k \in 1..n : SectionOf(buffer[k]) = SectionOf(Head(buffer))
    BY <1>2, <2>5 DEF RunStandsApart
  <2>8. CASE buffer = <<>>
    <3>1. n = 0 /\ DOMAIN more = {1}
      BY <2>5, <2>6, <2>8
    <3>2. \A k \in DOMAIN more : SectionOf(more[k]) = SectionOf(Head(more))
      BY <2>6, <3>1
    <3>3. chunks[Len(chunks)].kind # "text"
      BY <1>2, <2>8 DEF RunStandsApart
    <3>4. buffer' = more
      BY <2>1 DEF more
    <3>5. RunStandsApart'
      BY <1>3, <2>1, <3>2, <3>3, <3>4 DEF RunStandsApart, SectionOf
    <3>. QED
      BY <1>1, <1>2, <2>1, <3>5 DEF BoundsAreKept
  <2>9. CASE buffer # <<>>
    <3>1. n \in 1..n /\ 1 \in 1..n
      BY <2>4, <2>5, <2>9
    <3>2. Head(more) = Head(buffer)
      <4>1. Head(buffer) = buffer[1]
        BY <2>3, <2>9
      <4>. QED
        BY <2>4, <2>6, <3>1, <4>1
    <3>3. SectionOf(NextItem) = SectionOf(Head(buffer))
      <4>1. Last(buffer) = buffer[n]
        BY <2>3, <2>9, FrontAndLast DEF n
      <4>. QED
        BY <1>6, <2>7, <2>9, <3>1, <4>1
    <3>4. \A k \in DOMAIN more : SectionOf(more[k]) = SectionOf(Head(more))
      <4>1. \A k \in 1..(n + 1) : k \in 1..n \/ k = n + 1
        BY <2>4
      <4>. QED
        BY <2>4, <2>6, <2>7, <3>2, <3>3, <4>1
    <3>5. chunks[Len(chunks)].kind = "text" => chunks[Len(chunks)].section # SectionOf(Head(more))
      BY <1>2, <3>2 DEF RunStandsApart
    <3>6. buffer' = more
      BY <2>1 DEF more
    <3>7. RunStandsApart'
      BY <1>3, <2>1, <2>6, <3>4, <3>5, <3>6 DEF RunStandsApart, SectionOf
    <3>. QED
      BY <1>1, <1>2, <2>1, <3>7 DEF BoundsAreKept
  <2>. QED
    BY <2>8, <2>9
<1>. QED
  BY <1>5, <1>6

\* A table or figure ends the run, and is no text.
LEMMA VisualKeepsBounds ==
  ASSUME TypeOK, PlacedAreContent, BuildIsSound, BoundsAreKept, TakeVisual
  PROVE  BoundsAreKept'
<1>. DEFINE new == VisualChunk(NextItem)
            one == <<new>>
            flushed == chunks \o FlushedChunks
<1>1. /\ pc = "walk" /\ pc' = "walk" /\ todo # <<>>
      /\ doc[NextItem].kind # "text" /\ buffer' = <<>> /\ Flush(one)
  BY DEF TakeVisual, Walking
<1>2. BuildIsTyped /\ BoundedFrom(0, chunks, relationships) /\ LinksAreSteps(relationships) /\ RunStandsApart
  BY <1>1 DEF BuildIsSound, BoundsAreKept, Building
<1>3. new \in ChunkRecord /\ new.kind # "text"
  <2>1. NextItem \in PlacedItems
    BY <1>1, <1>2, HeadAndTail DEF BuildIsTyped, NextItem
  <2>2. new.kind = doc[NextItem].kind
    BY DEF VisualChunk, Chunk
  <2>. QED
    BY <1>1, <2>1, <2>2, VisualChunkIsTyped
<1>. HIDE DEF new
<1>4. one \in Seq(ChunkRecord) /\ Len(one) = 1 /\ one[1] = new /\ \A n \in DOMAIN one : one[n].kind # "text"
  BY <1>3
<1>. HIDE DEF one
<1>5. BoundedFrom(0, chunks', relationships') /\ LinksAreSteps(relationships')
  BY <1>1, <1>2, <1>4, FlushKeepsBounds
<1>6. flushed \in Seq(ChunkRecord)
  BY <1>2, FlushedIsBounded, ConcatProperties DEF BuildIsTyped
<1>7. chunks' = flushed \o one
  BY <1>1 DEF Flush
<1>. HIDE DEF flushed
<1>8. Len(chunks') = Len(flushed) + 1 /\ chunks'[Len(flushed) + 1] = new
  <2>. DEFINE all == flushed \o one
              n == Len(flushed)
  <2>1. /\ Len(all) = n + 1 /\ n \in Nat
        /\ \A i \in 1..(n + 1) : all[i] = IF i <= n THEN flushed[i] ELSE one[i - n]
    <3>1. /\ Len(all) = n + Len(one) /\ n \in Nat
          /\ \A i \in 1..(n + Len(one)) : all[i] = IF i <= n THEN flushed[i] ELSE one[i - n]
      BY <1>4, <1>6, ConcatProperties, LenProperties
    <3>. QED
      BY <1>4, <3>1
  <2>. HIDE DEF all, n
  <2>2. n + 1 \in 1..(n + 1) /\ ~(n + 1 <= n) /\ (n + 1) - n = 1
    BY <2>1
  <2>3. all[n + 1] = new
    BY <1>4, <2>1, <2>2
  <2>. QED
    BY <1>7, <2>1, <2>3 DEF all, n
<1>9. RunStandsApart'
  BY <1>1, <1>3, <1>8 DEF RunStandsApart, SectionOf
<1>. QED
  BY <1>1, <1>5, <1>9 DEF BoundsAreKept

\* The references are no texts either.
LEMMA FinishKeepsBounds ==
  ASSUME TypeOK, PlacedAreContent, BuildIsSound, BoundsAreKept, FinishWalk
  PROVE  BoundsAreKept'
<1>1. pc = "walk" /\ pc' = "detect" /\ Flush(ReferenceChunks)
  BY DEF FinishWalk
<1>2. BuildIsTyped /\ BoundedFrom(0, chunks, relationships) /\ LinksAreSteps(relationships) /\ RunStandsApart
  BY <1>1 DEF BuildIsSound, BoundsAreKept, Building
<1>3. ReferenceChunks \in Seq(ChunkRecord) /\ \A n \in DOMAIN ReferenceChunks : ReferenceChunks[n].kind # "text"
  <2>1. \A n \in DOMAIN ReferenceChunks : ReferenceChunks[n].kind = "reference"
    BY DEF ReferenceChunks, Chunk
  <2>. QED
    BY <2>1, ReferenceChunksAreTyped
<1>4. BoundedFrom(0, chunks', relationships') /\ LinksAreSteps(relationships')
  BY <1>1, <1>2, <1>3, FlushKeepsBounds
<1>. QED
  BY <1>1, <1>4 DEF BoundsAreKept

\* Detected links continue nothing, so the bounds stand.
LEMMA DetectKeepsBounds ==
  ASSUME BuildIsTyped, BoundedFrom(0, chunks, relationships), LinksAreSteps(relationships), Detect
  PROVE  BoundedFrom(0, chunks', relationships') /\ LinksAreSteps(relationships')
<1>. DEFINE part(c) == IF chunks[c].kind = "text" THEN Detected(c) ELSE <<>>
            parts == [c \in DOMAIN chunks |-> part(c)]
            Late == [source: DOMAIN chunks, target: DOMAIN chunks, type: {"CITES", "REFERENCES"}]
            links == FlattenSeq(parts)
<1>1. /\ chunks \in Seq(ChunkRecord) /\ relationships \in Seq(Relationship)
      /\ Len(chunks) \in Nat /\ DOMAIN chunks = 1..Len(chunks)
  BY DEF BuildIsTyped
<1>2. relationships' = relationships \o links /\ chunks' = chunks
  BY DEF Detect
<1>3. ASSUME NEW c \in DOMAIN chunks
      PROVE  part(c) \in LinksFrom(c)
  BY <1>1, DetectedIsTyped, NoLinks
<1>. HIDE DEF part
<1>4. ASSUME NEW c \in DOMAIN chunks
      PROVE  part(c) \in Seq(Late)
  <2>. DEFINE Links == [source: {c}, target: DOMAIN chunks, type: {"CITES", "REFERENCES"}]
  <2>1. part(c) \in Seq(Links)
    BY <1>3 DEF LinksFrom
  <2>2. Links \subseteq Late
    OBVIOUS
  <2>. HIDE DEF Links, Late
  <2>. QED
    BY <2>1, <2>2, SeqMonotonic
<1>5. parts \in Seq(Seq(Late))
  <2>. HIDE DEF Late
  <2>. QED
    BY <1>1, <1>4
<1>. HIDE DEF parts
<1>6. links \in Seq(Late)
  <2>. HIDE DEF Late
  <2>. QED
    BY <1>5, FlattenIsSeq
<1>7. Late \subseteq Relationship /\ \A x \in Late : x.type # "CONTINUES"
  BY DEF Relationship
<1>. HIDE DEF Late, links
<1>8. links \in Seq(Relationship) /\ \A k \in DOMAIN links : links[k].type # "CONTINUES"
  <2>1. \A k \in DOMAIN links : links[k] \in Late
    BY <1>6
  <2>. QED
    BY <1>6, <1>7, <2>1, SeqMonotonic
<1>9. HasBoth(relationships', relationships, links)
  BY <1>1, <1>2, <1>8, ConcatHasBoth
<1>. DEFINE more == relationships \o links
<1>10. \A c : ContinuedIn(more, c) <=> ContinuedIn(relationships, c)
  <2>1. \A c : ~ContinuedIn(links, c)
    BY <1>8 DEF ContinuedIn
  <2>2. \A c : ContinuedIn(more, c) <=> ContinuedIn(relationships, c) \/ ContinuedIn(links, c)
    BY <1>1, <1>8, ContinuedInBoth
  <2>. QED
    BY <2>1, <2>2
<1>11. relationships' = more
  BY <1>2
<1>. HIDE DEF more
<1>12. BoundedFrom(0, chunks, more)
  BY <1>10 DEF BoundedFrom, BoundedAt, FreshOf
<1>13. LinksAreSteps(more)
  <2>. SUFFICES ASSUME NEW k \in DOMAIN more, more[k].type = "CONTINUES"
                PROVE  more[k] = Link(more[k].target - 1, more[k].target, "CONTINUES")
    BY DEF LinksAreSteps
  <2>1. PICK j \in DOMAIN relationships : more[k] = relationships[j]
    BY <1>8, <1>9, <1>11 DEF HasBoth
  <2>. QED
    BY <2>1 DEF LinksAreSteps
<1>. QED
  BY <1>2, <1>11, <1>12, <1>13

\* So every step keeps the bounds.
LEMMA StepKeepsBounds ==
  ASSUME TypeOK, PlacedAreContent, BuildIsSound, BoundsAreKept, [Next]_vars
  PROVE  BoundsAreKept'
<1>1. CASE Parse /\ UNCHANGED buildVars
  <2>1. pc' \notin Building
    BY <1>1 DEF Parse, Convert, MapItem, SkipItem, StrayHeading, SpecialHeading, CloseSection,
       OpenSection, NewSection, AbstractText, ReferenceText, Place, Text, Heading, Mapping, Validate, Persist,
       Building
  <2>2. pc' # "walk"
    BY <2>1 DEF Building
  <2>. QED
    BY <2>1, <2>2 DEF BoundsAreKept
<1>2. CASE StartBuild
  BY <1>2, StartKeepsBounds
<1>3. CASE TakeParagraph
  BY <1>3, ParagraphKeepsBounds
<1>4. CASE TakeVisual
  BY <1>4, VisualKeepsBounds
<1>5. CASE FinishWalk
  BY <1>5, FinishKeepsBounds
<1>6. CASE Detect
  <2>1. pc \in Building /\ pc' # "walk"
    BY <1>6 DEF Detect, Building
  <2>2. BuildIsTyped /\ BoundedFrom(0, chunks, relationships) /\ LinksAreSteps(relationships)
    BY <2>1 DEF BuildIsSound, BoundsAreKept
  <2>. QED
    BY <1>6, <2>1, <2>2, DetectKeepsBounds DEF BoundsAreKept
<1>7. CASE Check \/ UNCHANGED vars
  <2>1. /\ UNCHANGED <<doc, placed, buffer, chunks, relationships>>
        /\ pc' \in Building => pc \in Building
        /\ pc' = "walk" => pc = "walk"
    BY <1>7 DEF Check, vars, parseVars, buildVars, paper, Building
  <2>2. \A i : SectionOf(i)' = SectionOf(i)
    BY <2>1 DEF SectionOf
  <2>3. RunStandsApart' <=> RunStandsApart
    BY <2>1, <2>2 DEF RunStandsApart
  <2>4. BoundedFrom(0, chunks, relationships)' <=> BoundedFrom(0, chunks, relationships)
    BY <2>1 DEF BoundedFrom, BoundedAt, FreshOf, ContinuedIn
  <2>5. LinksAreSteps(relationships)' <=> LinksAreSteps(relationships)
    BY <2>1 DEF LinksAreSteps
  <2>. QED
    BY <2>1, <2>3, <2>4, <2>5 DEF BoundsAreKept
<1>. QED
  BY <1>1, <1>2, <1>3, <1>4, <1>5, <1>6, <1>7 DEF Next, Build

\* Chunks are neither too long nor too short when they need not be (chunk_policy.py): one over
\* the limit has no more than one sentence of its own, and a paragraph below the floor stands
\* alone only if its run has no other, however the document's paragraphs, boxes and sections lie.
THEOREM PartsStayBounded == Spec => []PartsAreBounded
<1>1. Init => BoundsAreKept
  BY DEF Init, ParseInit, Building, BoundsAreKept
<1>2. TypeOK /\ PlacedAreContent /\ BuildIsSound /\ BoundsAreKept /\ [Next]_vars => BoundsAreKept'
  BY StepKeepsBounds
<1>3. BuildIsSound /\ BoundsAreKept => PartsAreBounded
  <2>. SUFFICES ASSUME BuildIsSound, BoundsAreKept, IsBuilt, NEW c \in TextChunks
                PROVE  /\ Words(chunks[c].text) > MaxWords => Len(Sentences(Fresh(c))) <= 1
                       /\ Words(chunks[c].text) < MinWords /\ ~Continued(c) /\ ~IsContinued(c) =>
                            \A n \in {c - 1, c + 1} \cap TextChunks : chunks[n].section # chunks[c].section
    BY DEF PartsAreBounded
  <2>1. BuildIsTyped /\ BoundedFrom(0, chunks, relationships) /\ LinksAreSteps(relationships)
    BY DEF IsBuilt, Building, BuildIsSound, BoundsAreKept
  <2>2. c \in DOMAIN chunks /\ chunks[c].kind = "text" /\ c \in Nat /\ 0 + c = c
    BY <2>1 DEF TextChunks, BuildIsTyped
  <2>3. BoundedAt(0, chunks, relationships, c)
    BY <2>1, <2>2 DEF BoundedFrom
  <2>4. ContinuedIn(relationships, c) <=> Continued(c)
    BY DEF ContinuedIn, Continued
  <2>5. FreshOf(relationships, 0 + c, chunks[c].text) = Fresh(c)
    BY <2>2, <2>4 DEF FreshOf, Fresh
  <2>6. ContinuedIn(relationships, c + 1) => IsContinued(c)
    <3>. SUFFICES ASSUME NEW k \in DOMAIN relationships,
                         relationships[k].type = "CONTINUES", relationships[k].target = c + 1
                  PROVE  IsContinued(c)
      BY DEF ContinuedIn
    <3>1. (c + 1) - 1 = c
      BY <2>2
    <3>2. relationships[k] = Link(relationships[k].target - 1, relationships[k].target, "CONTINUES")
      BY <2>1 DEF LinksAreSteps
    <3>. QED
      BY <3>1, <3>2 DEF IsContinued
  <2>7. TextChunks \subseteq DOMAIN chunks /\ \A n \in TextChunks : chunks[n].kind = "text"
    BY DEF TextChunks
  <2>. QED
    BY <2>2, <2>3, <2>4, <2>5, <2>6, <2>7 DEF BoundedAt
<1>. QED
  BY <1>1, <1>2, <1>3, TypeCorrect, ContentIsPlaced, BuildSound, PTL DEF Spec

-----------------------------------------------------------------------------
(* The links that a text is owed.                                          *)

\* Item i of the document is among the chunks: a paragraph with every two neighbours in
\* one of them, a table or figure as one.
IsAmong(chs, item, i) ==
  IF item.kind = "text"
  THEN \A x, y : Together(item.text, x, y) =>
                   \E c \in DOMAIN chs : chs[c].kind = "text" /\ Together(chs[c].text, x, y)
  ELSE \E c \in DOMAIN chs : chs[c].kind = item.kind /\ chs[c].entity = i

\* A chunk is what it says: a table or figure that was placed, or a reference.
IsGenuine(chunk, items, d, refs) ==
  /\ chunk.kind \in {"table", "picture"} => chunk.entity \in items /\ d[chunk.entity].kind = chunk.kind
  /\ chunk.kind = "reference" => chunk.entity \in DOMAIN refs /\ chunk.text = refs[chunk.entity]

\* Whatever is found in a text is linked if it has a target.
FoundIsLinked ==
  \A c \in TextChunks : \A mention \in Range(Found(chunks[c].text)) :
    Targets(mention) # {} =>
      \E n \in DOMAIN relationships : /\ relationships[n].source = c
                                      /\ relationships[n].target \in Targets(mention)

\* The inductive invariant of the links: what was placed waits or is among the chunks, and
\* once the references have been detected no link is missing.
ContentIsFollowed ==
  /\ pc \in Building =>
       /\ \A i \in PlacedItems : i \in Range(buffer) \/ i \in Range(todo) \/ IsAmong(chunks, doc[i], i)
       /\ \A c \in DOMAIN chunks : IsGenuine(chunks[c], PlacedItems, doc, References)
  /\ pc \in Building \ {"walk"} => buffer = <<>> /\ todo = <<>>
  /\ pc \in {"check", "represented", "refused"} => FoundIsLinked

\* What is among some chunks is among more.
LEMMA AmongMore ==
  ASSUME NEW chs, NEW more, \A c \in DOMAIN chs : \E d \in DOMAIN more : more[d] = chs[c],
         NEW item, NEW i, IsAmong(chs, item, i)
  PROVE  IsAmong(more, item, i)
<1>1. ASSUME item.kind = "text", NEW x, NEW y, Together(item.text, x, y)
      PROVE  \E c \in DOMAIN more : more[c].kind = "text" /\ Together(more[c].text, x, y)
  <2>1. PICK c \in DOMAIN chs : chs[c].kind = "text" /\ Together(chs[c].text, x, y)
    BY <1>1 DEF IsAmong
  <2>2. PICK d \in DOMAIN more : more[d] = chs[c]
    OBVIOUS
  <2>. QED
    BY <2>1, <2>2
<1>2. ASSUME item.kind # "text"
      PROVE  \E c \in DOMAIN more : more[c].kind = item.kind /\ more[c].entity = i
  <2>1. PICK c \in DOMAIN chs : chs[c].kind = item.kind /\ chs[c].entity = i
    BY <1>2 DEF IsAmong
  <2>2. PICK d \in DOMAIN more : more[d] = chs[c]
    OBVIOUS
  <2>. QED
    BY <2>1, <2>2
<1>. QED
  BY <1>1, <1>2 DEF IsAmong

\* The paragraphs in the buffer are among the chunks that a flush makes of them.
LEMMA FlushedAreAmong ==
  ASSUME TypeOK, PlacedAreContent, buffer \in Seq(PlacedTexts), NEW i \in Range(buffer)
  PROVE  IsAmong(FlushedChunks, doc[i], i)
<1>. DEFINE texts == [k \in DOMAIN buffer |-> doc[buffer[k]].text]
<1>1. texts \in Seq(Texts) /\ \A k \in DOMAIN buffer : k \in DOMAIN texts /\ texts[k] = doc[buffer[k]].text
  <2>1. \A j \in PlacedTexts : doc[j].text \in Texts
    <3>1. \A j \in PlacedTexts : j \in Content /\ doc[j].kind = "text"
      BY DEF PlacedTexts, PlacedAreContent
    <3>2. \A j \in PlacedTexts : doc[j].text \in Seq(Piece) /\ doc[j].text # <<>>
      BY <3>1, ContentHasPlaces DEF Content
    <3>. QED
      BY <3>2 DEF Texts
  <2>2. Len(buffer) \in Nat /\ DOMAIN buffer = 1..Len(buffer)
        /\ \A k \in DOMAIN buffer : buffer[k] \in PlacedTexts
    OBVIOUS
  <2>. QED
    BY <2>1, <2>2
<1>2. FlushedParts = PartsOf(texts)
  BY DEF FlushedParts
<1>. HIDE DEF texts
<1>3. PICK k \in DOMAIN buffer : buffer[k] = i
  BY DEF Range
<1>4. buffer # <<>>
  <2>1. DOMAIN <<>> = {}
    OBVIOUS
  <2>. QED
    BY <1>3, <2>1
<1>5. doc[i].kind = "text"
  <2>1. i \in PlacedTexts
    BY <1>3
  <2>. QED
    BY <2>1 DEF PlacedTexts
<1>6. ASSUME NEW x, NEW y, Together(doc[i].text, x, y)
      PROVE  \E c \in DOMAIN FlushedChunks :
               FlushedChunks[c].kind = "text" /\ Together(FlushedChunks[c].text, x, y)
  <2>1. TogetherIn(texts, x, y)
    BY <1>1, <1>3, <1>6 DEF TogetherIn
  <2>2. PICK n \in DOMAIN FlushedParts : Together(FlushedParts[n].text, x, y)
    BY <1>1, <1>2, <2>1, PartsKeepNeighbours
  <2>3. /\ n \in DOMAIN FlushedChunks /\ FlushedChunks[n].kind = "text"
        /\ FlushedChunks[n].text = FlushedParts[n].text
    BY <1>4 DEF FlushedChunks, Chunk
  <2>. QED
    BY <2>2, <2>3
<1>. QED
  BY <1>5, <1>6 DEF IsAmong

\* After a flush the buffer and what follows it are among the chunks, and so is all that was.
LEMMA FlushKeepsAmong ==
  ASSUME TypeOK, PlacedAreContent, BuildIsTyped, NEW followers \in Seq(ChunkRecord), Flush(followers)
  PROVE  /\ \A i : IsAmong(chunks, doc[i], i) => IsAmong(chunks', doc[i], i)
         /\ \A i \in Range(buffer) : IsAmong(chunks', doc[i], i)
         /\ \A i : IsAmong(followers, doc[i], i) => IsAmong(chunks', doc[i], i)
         /\ \A c \in DOMAIN chunks' :
              \/ \E k \in DOMAIN chunks : chunks'[c] = chunks[k]
              \/ chunks'[c].kind = "text"
              \/ \E k \in DOMAIN followers : chunks'[c] = followers[k]
<1>. DEFINE new == FlushedChunks
            flushed == chunks \o new
<1>1. /\ chunks \in Seq(ChunkRecord) /\ buffer \in Seq(PlacedTexts) /\ new \in Seq(ChunkRecord)
      /\ \A k \in DOMAIN new : new[k].kind = "text"
  <2>1. chunks \in Seq(ChunkRecord) /\ buffer \in Seq(PlacedTexts)
    BY DEF BuildIsTyped
  <2>2. new \in Seq(ChunkRecord)
    BY <2>1, FlushedChunksAreTyped
  <2>3. \A k \in DOMAIN new : new[k].kind = "text"
    <3>1. CASE buffer = <<>>
      <4>1. DOMAIN <<>> = {}
        OBVIOUS
      <4>. QED
        BY <3>1, <4>1 DEF FlushedChunks
    <3>2. CASE buffer # <<>>
      BY <3>2 DEF FlushedChunks, Chunk
    <3>. QED
      BY <3>1, <3>2
  <2>. QED
    BY <2>1, <2>2, <2>3
<1>2. chunks' = flushed \o followers
  BY DEF Flush
<1>3. \A i \in Range(buffer) : IsAmong(new, doc[i], i)
  BY <1>1, FlushedAreAmong
<1>. HIDE DEF new
<1>4. HasBoth(flushed, chunks, new) /\ flushed \in Seq(ChunkRecord)
  BY <1>1, ConcatHasBoth, ConcatProperties
<1>. HIDE DEF flushed
<1>5. HasBoth(chunks', flushed, followers)
  BY <1>2, <1>4, ConcatHasBoth
<1>6. /\ \A c \in DOMAIN chunks : \E d \in DOMAIN chunks' : chunks'[d] = chunks[c]
      /\ \A c \in DOMAIN new : \E d \in DOMAIN chunks' : chunks'[d] = new[c]
      /\ \A c \in DOMAIN followers : \E d \in DOMAIN chunks' : chunks'[d] = followers[c]
  <2>1. \A c \in DOMAIN flushed : \E d \in DOMAIN chunks' : chunks'[d] = flushed[c]
    BY <1>5 DEF HasBoth
  <2>2. \A c \in DOMAIN chunks : \E d \in DOMAIN flushed : flushed[d] = chunks[c]
    BY <1>4 DEF HasBoth
  <2>3. \A c \in DOMAIN new : \E d \in DOMAIN flushed : flushed[d] = new[c]
    BY <1>4 DEF HasBoth
  <2>4. \A c \in DOMAIN followers : \E d \in DOMAIN chunks' : chunks'[d] = followers[c]
    BY <1>5 DEF HasBoth
  <2>5. \A c \in DOMAIN chunks : \E d \in DOMAIN chunks' : chunks'[d] = chunks[c]
    BY <2>1, <2>2
  <2>6. \A c \in DOMAIN new : \E d \in DOMAIN chunks' : chunks'[d] = new[c]
    BY <2>1, <2>3
  <2>. QED
    BY <2>4, <2>5, <2>6
<1>7. \A i : IsAmong(chunks, doc[i], i) => IsAmong(chunks', doc[i], i)
  BY <1>6, AmongMore
<1>8. \A i : IsAmong(new, doc[i], i) => IsAmong(chunks', doc[i], i)
  BY <1>6, AmongMore
<1>9. \A i : IsAmong(followers, doc[i], i) => IsAmong(chunks', doc[i], i)
  BY <1>6, AmongMore
<1>10. ASSUME NEW c \in DOMAIN chunks'
       PROVE  \/ \E k \in DOMAIN chunks : chunks'[c] = chunks[k]
              \/ chunks'[c].kind = "text"
              \/ \E k \in DOMAIN followers : chunks'[c] = followers[k]
  <2>1. (\E k \in DOMAIN flushed : chunks'[c] = flushed[k]) \/ (\E k \in DOMAIN followers : chunks'[c] = followers[k])
    BY <1>5 DEF HasBoth
  <2>2. ASSUME NEW k \in DOMAIN flushed, chunks'[c] = flushed[k]
        PROVE  (\E j \in DOMAIN chunks : chunks'[c] = chunks[j]) \/ chunks'[c].kind = "text"
    <3>1. (\E j \in DOMAIN chunks : flushed[k] = chunks[j]) \/ (\E j \in DOMAIN new : flushed[k] = new[j])
      BY <1>4 DEF HasBoth
    <3>. QED
      BY <1>1, <2>2, <3>1
  <2>. QED
    BY <2>1, <2>2
<1>. QED
  BY <1>3, <1>7, <1>8, <1>9, <1>10

\* While the paper does not change, neither does what a chunk is judged by.
LEMMA SameReferences ==
  ASSUME UNCHANGED <<doc, paper>>
  PROVE  References' = References /\ PlacedItems' = PlacedItems /\ doc' = doc
BY DEF References, TextOf, PlacedItems, Bracketed, paper

\* At the start all that was placed is to do.
LEMMA StartFollows ==
  ASSUME TypeOK, SectionsAreNested, PlacedAreContent, PlacedOnce, BuildIsSound, StartBuild
  PROVE  ContentIsFollowed'
<1>1. /\ pc' = "walk" /\ UNCHANGED <<doc, paper>>
      /\ todo' = ReadingOrder /\ chunks' = <<TitleChunk>> \o AbstractChunks
  BY DEF StartBuild
<1>2. \A i \in PlacedItems : i \in Range(todo')
  BY <1>1, ReadingOrderIsWhole DEF Range
<1>3. \A c \in DOMAIN chunks' : chunks'[c].kind \in {"title", "abstract"}
  <2>. DEFINE a == AbstractChunks
              t == <<TitleChunk>>
  <2>1. TitleChunk \in ChunkRecord /\ AbstractChunks \in Seq(ChunkRecord)
    <3>1. TitleChunk \in ChunkRecord
      BY DEF TitleChunk, Chunk, ChunkRecord, Contexts
    <3>2. Chunk("abstract", 0, TextOf(abstract), 0, "abstract") \in ChunkRecord
      <4>1. TextOf(abstract) \in Seq(Piece)
        BY TextOfIsTyped DEF TypeOK
      <4>. QED
        BY <4>1 DEF Chunk, ChunkRecord, Contexts
    <3>. QED
      BY <3>1, <3>2 DEF AbstractChunks
  <2>2. \A c \in DOMAIN t : t[c].kind \in {"title", "abstract"}
    BY DEF TitleChunk, Chunk
  <2>3. \A c \in DOMAIN a : a[c].kind \in {"title", "abstract"}
    BY DEF AbstractChunks, Chunk
  <2>4. t \in Seq(ChunkRecord) /\ a \in Seq(ChunkRecord) /\ chunks' = t \o a
    BY <1>1, <2>1
  <2>. HIDE DEF a, t
  <2>5. HasBoth(t \o a, t, a)
    BY <2>4, ConcatHasBoth
  <2>. QED
    BY <2>2, <2>3, <2>4, <2>5 DEF HasBoth
<1>4. PlacedItems' = PlacedItems
  BY <1>1, SameReferences
<1>. QED
  BY <1>1, <1>2, <1>3, <1>4 DEF ContentIsFollowed, IsGenuine, Building

\* The item that is taken next, and those that are left.
LEMMA NextIsTaken ==
  ASSUME NEW S, todo \in Seq(S), todo # <<>>
  PROVE  NextItem \in S /\ Range(todo) = Range(Tail(todo)) \cup {NextItem}
<1>. DEFINE r == Tail(todo)
            h == <<NextItem>>
<1>1. NextItem \in S /\ r \in Seq(S) /\ todo = h \o r
  BY HeadAndTail DEF NextItem
<1>2. h \in Seq(S) /\ Range(h) = {NextItem}
  <2>1. DOMAIN <<NextItem>> = {1} /\ <<NextItem>>[1] = NextItem
    OBVIOUS
  <2>. QED
    BY <1>1, <2>1 DEF Range
<1>. HIDE DEF r, h
<1>3. Range(h \o r) = Range(h) \cup Range(r)
  BY <1>1, <1>2, ConcatHasBoth
<1>. QED
  BY <1>1, <1>2, <1>3 DEF r

\* While the walk goes on, this is what there is to keep.
LEMMA WalkFollows ==
  ASSUME UNCHANGED <<doc, paper>>, pc' \in {"walk", "detect"},
         pc' = "detect" => buffer' = <<>> /\ todo' = <<>>,
         \A i \in PlacedItems : i \in Range(buffer') \/ i \in Range(todo') \/ IsAmong(chunks', doc[i], i),
         \A c \in DOMAIN chunks' : IsGenuine(chunks'[c], PlacedItems, doc, References)
  PROVE  ContentIsFollowed'
<1>1. References' = References /\ PlacedItems' = PlacedItems /\ doc' = doc
  BY SameReferences
<1>2. pc' \in Building /\ pc' \notin {"check", "represented", "refused"}
  BY DEF Building
<1>. QED
  BY <1>1, <1>2 DEF ContentIsFollowed, Building

\* A flush of the buffer leaves every chunk what it says, if those that follow are.
LEMMA FlushKeepsGenuine ==
  ASSUME TypeOK, PlacedAreContent, BuildIsTyped, NEW followers \in Seq(ChunkRecord), Flush(followers),
         \A c \in DOMAIN chunks : IsGenuine(chunks[c], PlacedItems, doc, References),
         \A c \in DOMAIN followers : IsGenuine(followers[c], PlacedItems, doc, References)
  PROVE  \A c \in DOMAIN chunks' : IsGenuine(chunks'[c], PlacedItems, doc, References)
<1>1. \A c \in DOMAIN chunks' :
        \/ \E k \in DOMAIN chunks : chunks'[c] = chunks[k]
        \/ chunks'[c].kind = "text"
        \/ \E k \in DOMAIN followers : chunks'[c] = followers[k]
  BY FlushKeepsAmong
<1>2. \A chunk : chunk.kind = "text" => IsGenuine(chunk, PlacedItems, doc, References)
  BY DEF IsGenuine
<1>. QED
  BY <1>1, <1>2

\* A paragraph moves from what is to do to the buffer, before or after a flush.
LEMMA ParagraphFollows ==
  ASSUME TypeOK, PlacedAreContent, BuildIsSound, ContentIsFollowed, TakeParagraph
  PROVE  ContentIsFollowed'
<1>1. /\ pc = "walk" /\ pc' = "walk" /\ UNCHANGED <<doc, paper>> /\ todo # <<>> /\ todo' = Tail(todo)
      /\ doc[NextItem].kind = "text"
  BY DEF TakeParagraph, Walking
<1>2. BuildIsTyped
  BY <1>1 DEF BuildIsSound, Building
<1>3. /\ \A i \in PlacedItems : i \in Range(buffer) \/ i \in Range(todo) \/ IsAmong(chunks, doc[i], i)
      /\ \A c \in DOMAIN chunks : IsGenuine(chunks[c], PlacedItems, doc, References)
  BY <1>1 DEF ContentIsFollowed, Building
<1>4. /\ NextItem \in PlacedTexts /\ Range(todo) = Range(todo') \cup {NextItem}
      /\ buffer \in Seq(PlacedTexts)
  <2>1. NextItem \in PlacedItems /\ Range(todo) = Range(todo') \cup {NextItem}
    BY <1>1, <1>2, NextIsTaken DEF BuildIsTyped
  <2>. QED
    BY <1>1, <1>2, <2>1 DEF BuildIsTyped, PlacedTexts
<1>5. \A x : Range(<<x>>) = {x}
  <2>1. \A x : DOMAIN <<x>> = {1} /\ <<x>>[1] = x
    OBVIOUS
  <2>. QED
    BY <2>1 DEF Range
<1>6. CASE buffer # <<>> /\ SectionOf(Last(buffer)) # SectionOf(NextItem)
  <2>. DEFINE none == <<>>
  <2>1. none \in Seq(ChunkRecord) /\ DOMAIN none = {}
    OBVIOUS
  <2>2. Flush(none) /\ Range(buffer') = {NextItem}
    BY <1>5, <1>6 DEF TakeParagraph
  <2>. HIDE DEF none
  <2>3. /\ \A i : IsAmong(chunks, doc[i], i) => IsAmong(chunks', doc[i], i)
        /\ \A i \in Range(buffer) : IsAmong(chunks', doc[i], i)
    BY <1>2, <2>1, <2>2, FlushKeepsAmong
  <2>4. \A c \in DOMAIN chunks' : IsGenuine(chunks'[c], PlacedItems, doc, References)
    BY <1>2, <1>3, <2>1, <2>2, FlushKeepsGenuine
  <2>5. \A i \in PlacedItems : i \in Range(buffer') \/ i \in Range(todo') \/ IsAmong(chunks', doc[i], i)
    BY <1>3, <1>4, <2>2, <2>3
  <2>. QED
    BY <1>1, <2>4, <2>5, WalkFollows
<1>7. CASE ~(buffer # <<>> /\ SectionOf(Last(buffer)) # SectionOf(NextItem))
  <2>1. buffer' = Append(buffer, NextItem) /\ chunks' = chunks
    BY <1>7 DEF TakeParagraph
  <2>2. Range(buffer') = Range(buffer) \cup {NextItem}
    <3>. DEFINE one == <<NextItem>>
    <3>1. one \in Seq(PlacedTexts) /\ Range(one) = {NextItem} /\ buffer' = buffer \o one
      BY <1>4, <1>5, <2>1, AppendIsConcat
    <3>. HIDE DEF one
    <3>. QED
      BY <1>4, <3>1, ConcatHasBoth
  <2>3. \A i \in PlacedItems : i \in Range(buffer') \/ i \in Range(todo') \/ IsAmong(chunks', doc[i], i)
    BY <1>3, <1>4, <2>1, <2>2
  <2>4. \A c \in DOMAIN chunks' : IsGenuine(chunks'[c], PlacedItems, doc, References)
    BY <1>3, <2>1
  <2>. QED
    BY <1>1, <2>3, <2>4, WalkFollows
<1>. QED
  BY <1>6, <1>7

\* A table or figure becomes a chunk, the paragraphs before it are flushed.
LEMMA VisualFollows ==
  ASSUME TypeOK, PlacedAreContent, BuildIsSound, ContentIsFollowed, TakeVisual
  PROVE  ContentIsFollowed'
<1>. DEFINE visual == VisualChunk(NextItem)
            one == <<visual>>
<1>1. /\ pc = "walk" /\ pc' = "walk" /\ UNCHANGED <<doc, paper>> /\ todo # <<>> /\ todo' = Tail(todo)
      /\ doc[NextItem].kind # "text" /\ buffer' = <<>> /\ Flush(one)
  BY DEF TakeVisual, Walking
<1>2. BuildIsTyped
  BY <1>1 DEF BuildIsSound, Building
<1>3. /\ \A i \in PlacedItems : i \in Range(buffer) \/ i \in Range(todo) \/ IsAmong(chunks, doc[i], i)
      /\ \A c \in DOMAIN chunks : IsGenuine(chunks[c], PlacedItems, doc, References)
  BY <1>1 DEF ContentIsFollowed, Building
<1>4. NextItem \in PlacedItems /\ Range(todo) = Range(todo') \cup {NextItem}
  BY <1>1, <1>2, NextIsTaken DEF BuildIsTyped
<1>5. visual \in ChunkRecord /\ visual.kind = doc[NextItem].kind /\ visual.entity = NextItem
  BY <1>4, VisualChunkIsTyped DEF VisualChunk, Chunk
<1>6. doc[NextItem].kind \in {"table", "picture"}
  BY <1>1, <1>4, ContentHasPlaces DEF PlacedAreContent
<1>. HIDE DEF visual
<1>7. one \in Seq(ChunkRecord) /\ DOMAIN one = {1} /\ one[1] = visual
  BY <1>5
<1>. HIDE DEF one
<1>8. /\ \A i : IsAmong(chunks, doc[i], i) => IsAmong(chunks', doc[i], i)
      /\ \A i \in Range(buffer) : IsAmong(chunks', doc[i], i)
      /\ \A i : IsAmong(one, doc[i], i) => IsAmong(chunks', doc[i], i)
  BY <1>1, <1>2, <1>7, FlushKeepsAmong
<1>9. IsAmong(one, doc[NextItem], NextItem)
  BY <1>1, <1>5, <1>7 DEF IsAmong
<1>10. \A c \in DOMAIN one : IsGenuine(one[c], PlacedItems, doc, References)
  BY <1>4, <1>5, <1>6, <1>7 DEF IsGenuine
<1>11. \A c \in DOMAIN chunks' : IsGenuine(chunks'[c], PlacedItems, doc, References)
  BY <1>1, <1>2, <1>3, <1>7, <1>10, FlushKeepsGenuine
<1>12. \A i \in PlacedItems : i \in Range(buffer') \/ i \in Range(todo') \/ IsAmong(chunks', doc[i], i)
  BY <1>3, <1>4, <1>8, <1>9
<1>. QED
  BY <1>1, <1>11, <1>12, WalkFollows

\* At the end of the walk nothing waits any more, and the references follow.
LEMMA FinishFollows ==
  ASSUME TypeOK, PlacedAreContent, BuildIsSound, ContentIsFollowed, FinishWalk
  PROVE  ContentIsFollowed'
<1>. DEFINE entries == ReferenceChunks
<1>1. /\ pc = "walk" /\ pc' = "detect" /\ UNCHANGED <<doc, paper>> /\ todo = <<>> /\ todo' = <<>>
      /\ buffer' = <<>> /\ Flush(entries)
  BY DEF FinishWalk
<1>2. BuildIsTyped
  BY <1>1 DEF BuildIsSound, Building
<1>3. /\ \A i \in PlacedItems : i \in Range(buffer) \/ i \in Range(todo) \/ IsAmong(chunks, doc[i], i)
      /\ \A c \in DOMAIN chunks : IsGenuine(chunks[c], PlacedItems, doc, References)
  BY <1>1 DEF ContentIsFollowed, Building
<1>4. entries \in Seq(ChunkRecord)
  BY ReferenceChunksAreTyped
<1>5. \A c \in DOMAIN entries : IsGenuine(entries[c], PlacedItems, doc, References)
  BY DEF ReferenceChunks, Chunk, IsGenuine
<1>. HIDE DEF entries
<1>6. /\ \A i : IsAmong(chunks, doc[i], i) => IsAmong(chunks', doc[i], i)
      /\ \A i \in Range(buffer) : IsAmong(chunks', doc[i], i)
  BY <1>1, <1>2, <1>4, FlushKeepsAmong
<1>7. \A c \in DOMAIN chunks' : IsGenuine(chunks'[c], PlacedItems, doc, References)
  BY <1>1, <1>2, <1>3, <1>4, <1>5, FlushKeepsGenuine
<1>8. Range(todo) = {}
  <2>1. DOMAIN <<>> = {}
    OBVIOUS
  <2>. QED
    BY <1>1, <2>1 DEF Range
<1>9. \A i \in PlacedItems : i \in Range(buffer') \/ i \in Range(todo') \/ IsAmong(chunks', doc[i], i)
  BY <1>3, <1>6, <1>8
<1>. QED
  BY <1>1, <1>7, <1>9, WalkFollows

\* Every one of the mentions that has a target is linked to one of its targets.
AreLinked(mentions, links) ==
  \A n \in DOMAIN mentions :
    Targets(mentions[n]) # {} => \E k \in DOMAIN links : links[k].target \in Targets(mentions[n])

\* A mention that has a target is linked after its step, and every link stays.
LEMMA LinkStepLinks ==
  ASSUME chunks \in Seq(ChunkRecord), NEW c, NEW links \in LinksFrom(c), NEW mention \in Mentions
  PROVE  /\ \A k \in DOMAIN links : \E j \in DOMAIN LinkStep(links, c, mention) :
                                      LinkStep(links, c, mention)[j] = links[k]
         /\ Targets(mention) # {} => \E j \in DOMAIN LinkStep(links, c, mention) :
                                       LinkStep(links, c, mention)[j].target \in Targets(mention)
<1>. DEFINE Links == [source: {c}, target: DOMAIN chunks, type: {"CITES", "REFERENCES"}]
            seen == {links[k].target : k \in DOMAIN links}
            targets == Targets(mention)
            new == targets \ seen
            type == IF mention[1] = "cites" THEN "CITES" ELSE "REFERENCES"
            link == Link(c, First(new), type)
            after == LinkStep(links, c, mention)
<1>1. links \in Seq(Links)
  BY DEF LinksFrom
<1>2. DOMAIN chunks \subseteq Nat
  OBVIOUS
<1>3. targets \subseteq DOMAIN chunks
  BY DEF Targets
<1>4. after = IF new = {} THEN links ELSE Append(links, link)
  BY DEF LinkStep
<1>5. CASE new = {}
  <2>1. targets # {} => \E k \in DOMAIN links : links[k].target \in targets
    BY <1>5
  <2>. HIDE DEF targets
  <2>. QED
    BY <1>4, <1>5, <2>1 DEF targets
<1>6. CASE new # {}
  <2>1. First(new) \in targets
    BY <1>2, <1>3, <1>6, FirstExists
  <2>2. link.target = First(new)
    BY DEF Link
  <2>. HIDE DEF link, Links, seen, targets, new
  <2>3. /\ DOMAIN Append(links, link) = 1..(Len(links) + 1)
        /\ Len(links) \in Nat /\ DOMAIN links = 1..Len(links)
        /\ \A k \in 1..Len(links) : Append(links, link)[k] = links[k]
        /\ Append(links, link)[Len(links) + 1] = link
    BY <1>1
  <2>4. after = Append(links, link)
    BY <1>4, <1>6
  <2>. HIDE DEF after
  <2>5. \A k \in DOMAIN links : k \in DOMAIN after /\ after[k] = links[k]
    BY <2>3, <2>4
  <2>6. Len(links) + 1 \in DOMAIN after /\ after[Len(links) + 1].target \in targets
    BY <2>1, <2>2, <2>3, <2>4
  <2>. QED
    BY <2>5, <2>6 DEF after, targets
<1>. QED
  BY <1>5, <1>6

\* What is found in a text is linked from it if it has a target.
LEMMA DetectedAreLinked ==
  ASSUME chunks \in Seq(ChunkRecord), NEW c \in DOMAIN chunks
  PROVE  AreLinked(Found(chunks[c].text), Detected(c))
<1>. DEFINE step == [p \in LinksFrom(c) \X Mentions |-> LinkStep(p[1], c, p[2])]
            X == LinksFrom(c)
            s == Found(chunks[c].text)
<1>1. s \in Seq(Mentions)
  <2>1. chunks[c] \in ChunkRecord
    OBVIOUS
  <2>2. chunks[c].text \in Seq(Piece)
    BY <2>1 DEF ChunkRecord
  <2>. QED
    BY <2>2, FoundIsTyped
<1>2. step \in StepOf(X, Mentions) /\ <<>> \in X
  BY LinkStepIsTyped, NoLinks DEF StepOf
<1>3. Detected(c) = Folded(step, <<>>, s)
  BY <1>1, DetectedIsAFold
<1>4. \A x \in X, e \in Mentions :
        /\ step[<<x, e>>] = LinkStep(x, c, e)
        /\ \A k \in DOMAIN x : \E j \in DOMAIN step[<<x, e>>] : step[<<x, e>>][j] = x[k]
        /\ Targets(e) # {} => \E j \in DOMAIN step[<<x, e>>] : step[<<x, e>>][j].target \in Targets(e)
  <2>. SUFFICES ASSUME NEW x \in X, NEW e \in Mentions
                PROVE  /\ step[<<x, e>>] = LinkStep(x, c, e)
                       /\ \A k \in DOMAIN x : \E j \in DOMAIN step[<<x, e>>] : step[<<x, e>>][j] = x[k]
                       /\ Targets(e) # {} =>
                            \E j \in DOMAIN step[<<x, e>>] : step[<<x, e>>][j].target \in Targets(e)
    OBVIOUS
  <2>1. step[<<x, e>>] = LinkStep(x, c, e)
    OBVIOUS
  <2>. HIDE DEF step
  <2>. QED
    BY <2>1, LinkStepLinks
<1>. DEFINE none == <<>>
            A == {r \in Seq(Mentions) : AreLinked(r, Folded(step, none, r))}
<1>5. none \in X /\ DOMAIN none = {} /\ none \in Seq(Mentions) /\ Detected(c) = Folded(step, none, s)
  BY <1>2, <1>3
<1>. HIDE DEF step, X, s, none
<1>6. GoesByElement(step, none, X, Mentions)
  BY <1>2, <1>5, FoldGoesByElement
<1>7. <<>> \in A
  BY <1>5 DEF AreLinked, none
<1>8. ASSUME NEW r \in Seq(Mentions), NEW e \in Mentions, r \in A
      PROVE  Append(r, e) \in A
  <2>. DEFINE before == Folded(step, none, r)
              after == Folded(step, none, Append(r, e))
              t == Append(r, e)
  <2>1. before \in X /\ after = step[<<before, e>>]
    BY <1>6 DEF GoesByElement
  <2>2. AreLinked(r, before)
    BY <1>8
  <2>3. /\ t \in Seq(Mentions) /\ Len(r) \in Nat /\ DOMAIN r = 1..Len(r) /\ DOMAIN t = 1..(Len(r) + 1)
        /\ \A n \in 1..Len(r) : t[n] = r[n]
        /\ t[Len(r) + 1] = e
    OBVIOUS
  <2>. HIDE DEF before, after, t
  <2>4. /\ \A k \in DOMAIN before : \E j \in DOMAIN after : after[j] = before[k]
        /\ Targets(e) # {} => \E j \in DOMAIN after : after[j].target \in Targets(e)
    BY <1>4, <2>1
  <2>5. ASSUME NEW n \in DOMAIN t, Targets(t[n]) # {}
        PROVE  \E j \in DOMAIN after : after[j].target \in Targets(t[n])
    <3>1. CASE n \in 1..Len(r)
      <4>1. n \in DOMAIN r /\ r[n] = t[n]
        BY <2>3, <3>1
      <4>2. PICK k \in DOMAIN before : before[k].target \in Targets(t[n])
        BY <2>2, <2>5, <4>1 DEF AreLinked
      <4>3. PICK j \in DOMAIN after : after[j] = before[k]
        BY <2>4
      <4>. QED
        BY <4>2, <4>3
    <3>2. CASE n = Len(r) + 1
      BY <2>3, <2>4, <2>5, <3>2
    <3>3. n \in 1..Len(r) \/ n = Len(r) + 1
      BY <2>3
    <3>. QED
      BY <3>1, <3>2, <3>3
  <2>6. AreLinked(t, after)
    BY <2>5 DEF AreLinked
  <2>. QED
    BY <2>3, <2>6 DEF after, t
<1>9. s \in A
  <2>. HIDE DEF A
  <2>. QED
    BY <1>1, <1>7, <1>8, SequenceInduction
<1>. QED
  BY <1>5, <1>9 DEF s

\* Once the references have been detected, no link is missing.
LEMMA DetectFollows ==
  ASSUME BuildIsSound, ContentIsFollowed, Detect
  PROVE  ContentIsFollowed'
<1>. DEFINE part(c) == IF chunks[c].kind = "text" THEN Detected(c) ELSE <<>>
            parts == [c \in DOMAIN chunks |-> part(c)]
            Late == [source: DOMAIN chunks, target: DOMAIN chunks, type: {"CITES", "REFERENCES"}]
            links == FlattenSeq(parts)
<1>1. /\ pc = "detect" /\ pc' = "check" /\ UNCHANGED <<doc, paper, buffer, todo, chunks>>
      /\ relationships' = relationships \o links
  BY DEF Detect
<1>2. BuildIsTyped
  BY <1>1 DEF BuildIsSound, Building
<1>3. chunks \in Seq(ChunkRecord) /\ Len(chunks) \in Nat /\ DOMAIN chunks = 1..Len(chunks)
      /\ relationships \in Seq(Relationship)
  BY <1>2 DEF BuildIsTyped
<1>4. ASSUME NEW c \in DOMAIN chunks
      PROVE  part(c) \in Seq(Late) /\ \A k \in DOMAIN part(c) : part(c)[k].source = c
  <2>. DEFINE Links == [source: {c}, target: DOMAIN chunks, type: {"CITES", "REFERENCES"}]
  <2>1. part(c) \in LinksFrom(c)
    BY <1>3, DetectedIsTyped, NoLinks
  <2>. HIDE DEF part
  <2>2. part(c) \in Seq(Links)
    BY <2>1 DEF LinksFrom
  <2>3. Links \subseteq Late /\ \A x \in Links : x.source = c
    OBVIOUS
  <2>. HIDE DEF Links, Late
  <2>4. part(c) \in Seq(Late)
    BY <2>2, <2>3, SeqMonotonic
  <2>5. \A k \in DOMAIN part(c) : part(c)[k] \in Links
    BY <2>2
  <2>. QED
    BY <2>3, <2>4, <2>5
<1>5. \A c \in TextChunks : c \in DOMAIN chunks /\ AreLinked(Found(chunks[c].text), part(c))
  BY <1>3, DetectedAreLinked DEF TextChunks
<1>. HIDE DEF part
<1>6. parts \in Seq(Seq(Late)) /\ DOMAIN parts = DOMAIN chunks /\ \A c \in DOMAIN chunks : parts[c] = part(c)
  <2>. HIDE DEF Late
  <2>. QED
    BY <1>3, <1>4
<1>. HIDE DEF parts
<1>7. links \in Seq(Late) /\ InRows(links, parts)
  <2>. HIDE DEF Late
  <2>. QED
    BY <1>6, FlattenIsSeq, FlattenIsInRows
<1>8. Late \subseteq Relationship
  BY DEF Relationship
<1>. HIDE DEF Late, links
<1>9. links \in Seq(Relationship)
  BY <1>7, <1>8, SeqMonotonic
<1>10. HasBoth(relationships', relationships, links)
  BY <1>1, <1>3, <1>9, ConcatHasBoth
<1>11. ASSUME NEW c \in TextChunks, NEW mention \in Range(Found(chunks[c].text)), Targets(mention) # {}
       PROVE  \E n \in DOMAIN relationships' : /\ relationships'[n].source = c
                                               /\ relationships'[n].target \in Targets(mention)
  <2>1. PICK m \in DOMAIN Found(chunks[c].text) : Found(chunks[c].text)[m] = mention
    BY DEF Range
  <2>2. PICK k \in DOMAIN part(c) : part(c)[k].target \in Targets(mention)
    BY <1>5, <1>11, <2>1 DEF AreLinked
  <2>3. PICK j \in DOMAIN links : links[j] = part(c)[k]
    BY <1>5, <1>6, <1>7 DEF InRows
  <2>4. PICK n \in DOMAIN relationships' : relationships'[n] = links[j]
    BY <1>10 DEF HasBoth
  <2>. QED
    BY <1>4, <1>5, <2>2, <2>3, <2>4
<1>12. /\ TextChunks' = TextChunks /\ PlacedItems' = PlacedItems /\ References' = References
       /\ doc' = doc /\ chunks' = chunks
       /\ \A mention : Targets(mention)' = Targets(mention)
  <2>1. PlacedItems' = PlacedItems /\ References' = References /\ placed' = placed
    BY <1>1, SameReferences DEF paper
  <2>2. \A mention : Targets(mention)' = Targets(mention)
    BY <1>1, <2>1 DEF Targets, Labelled
  <2>. QED
    BY <1>1, <2>1, <2>2 DEF TextChunks
<1>13. FoundIsLinked'
  BY <1>11, <1>12 DEF FoundIsLinked
<1>. QED
  BY <1>1, <1>12, <1>13 DEF ContentIsFollowed, Building

\* So every step keeps the links and what they will be made of.
LEMMA StepFollows ==
  ASSUME TypeOK, SectionsAreNested, PlacedAreContent, PlacedOnce, BuildIsSound, ContentIsFollowed, [Next]_vars
  PROVE  ContentIsFollowed'
<1>1. CASE Parse /\ UNCHANGED buildVars
  <2>1. pc' \notin Building
    BY <1>1 DEF Parse, Convert, MapItem, SkipItem, StrayHeading, SpecialHeading, CloseSection,
       OpenSection, NewSection, AbstractText, ReferenceText, Place, Text, Heading, Mapping, Validate, Persist,
       Building
  <2>2. pc' \notin {"check", "represented", "refused"}
    BY <2>1 DEF Building
  <2>. QED
    BY <2>1, <2>2 DEF ContentIsFollowed
<1>2. CASE StartBuild
  BY <1>2, StartFollows
<1>3. CASE TakeParagraph
  BY <1>3, ParagraphFollows
<1>4. CASE TakeVisual
  BY <1>4, VisualFollows
<1>5. CASE FinishWalk
  BY <1>5, FinishFollows
<1>6. CASE Detect
  BY <1>6, DetectFollows
<1>7. CASE Check \/ UNCHANGED vars
  <2>1. /\ UNCHANGED <<doc, paper, buffer, todo, chunks, relationships>>
        /\ pc' \in Building => pc \in Building
        /\ pc' \in Building \ {"walk"} => pc \in Building \ {"walk"}
        /\ pc' \in {"check", "represented", "refused"} => pc \in {"check", "represented", "refused"}
    BY <1>7 DEF Check, vars, parseVars, buildVars, paper, Building
  <2>2. PlacedItems' = PlacedItems /\ References' = References /\ placed' = placed /\ doc' = doc
    BY <2>1, SameReferences DEF paper
  <2>3. \A mention : Targets(mention)' = Targets(mention)
    BY <2>1, <2>2 DEF Targets, Labelled
  <2>4. TextChunks' = TextChunks
    BY <2>1 DEF TextChunks
  <2>5. FoundIsLinked' <=> FoundIsLinked
    BY <2>1, <2>3, <2>4 DEF FoundIsLinked
  <2>. QED
    BY <2>1, <2>2, <2>5 DEF ContentIsFollowed
<1>. QED
  BY <1>1, <1>2, <1>3, <1>4, <1>5, <1>6, <1>7 DEF Next, Build

\* A bibliography that is numbered in order is cut so that each entry begins with its number.
LEMMA EntriesBeginWithTheirNumber ==
  ASSUME TypeOK, IsNumberedInOrder
  PROVE  \A n \in DOMAIN References : References[n][1].mentions = <<<<"cites", n>>>>
<1>. DEFINE text == TextOf(bibliography)
            brackets == {k \in DOMAIN text : Bracketed(text[k])}
            starts == Ascending(brackets)
            size == Cardinality(brackets)
<1>1. /\ Bracketed(Head(text)) /\ Len(starts) >= 2
      /\ \A n \in DOMAIN starts : text[starts[n]].mentions = <<<<"cites", n>>>>
  BY DEF IsNumberedInOrder
<1>2. References = IF size >= 2 THEN CutBefore(text, {1} \cup brackets)
                   ELSE [k \in DOMAIN bibliography |-> doc[bibliography[k]].text]
  BY DEF References
<1>3. text \in Seq(Piece)
  BY TextOfIsTyped DEF TypeOK
<1>4. brackets \subseteq DOMAIN text /\ (1 \in DOMAIN text /\ Bracketed(text[1]) => 1 \in brackets)
  OBVIOUS
<1>. HIDE DEF text
<1>5. Len(text) \in Nat /\ DOMAIN text = 1..Len(text) /\ (1 \in DOMAIN text => Head(text) = text[1])
  BY <1>3
<1>. HIDE DEF brackets
<1>6. brackets \subseteq Nat /\ IsFiniteSet(brackets)
  <2>1. IsFiniteSet(1..Len(text))
    BY <1>5, FS_Interval
  <2>. QED
    BY <1>4, <1>5, <2>1, FS_Subset
<1>7. Len(starts) = size /\ size \in Nat /\ DOMAIN starts = 1..size
  BY <1>6, AscendingIsInOrder
<1>. HIDE DEF size
<1>8. size >= 2
  BY <1>1, <1>7
<1>9. 1 \in brackets /\ {1} \cup brackets = brackets
  <2>1. brackets # {}
    BY <1>8, FS_EmptySet DEF size
  <2>2. 1 \in DOMAIN text
    BY <1>4, <1>5, <2>1
  <2>. QED
    BY <1>1, <1>4, <1>5, <2>2
<1>10. AreCuts(Piece, text, brackets)
  BY <1>3, <1>4, <1>9, CutFacts
<1>. DEFINE cut == CutBefore(text, brackets)
            end(k) == CutEnd(text, brackets, k)
<1>11. /\ cut \in Seq(Seq(Piece)) /\ Len(cut) = size
       /\ \A k \in 1..size : /\ starts[k] \in 1..Len(text) /\ end(k) \in starts[k]..Len(text)
                             /\ cut[k] = SubSeq(text, starts[k], end(k))
  BY <1>10 DEF AreCuts, size
<1>12. References = cut
  BY <1>2, <1>8, <1>9
<1>. HIDE DEF cut, end, starts
<1>13. DOMAIN References = 1..size
  BY <1>11, <1>12
<1>14. ASSUME NEW n \in 1..size
       PROVE  References[n][1] = text[starts[n]]
  <2>. DEFINE from == starts[n]
              to == end(n)
  <2>1. from \in Int /\ to \in Int /\ from <= to /\ \A i \in from..to : text[i] \in Piece
    BY <1>3, <1>5, <1>11
  <2>2. References[n] = SubSeq(text, from, to)
    BY <1>11, <1>12
  <2>. HIDE DEF from, to
  <2>3. \A i \in 1..(to - from + 1) : SubSeq(text, from, to)[i] = text[from + i - 1]
    BY <2>1, SubSeqProperties
  <2>4. 1 \in 1..(to - from + 1) /\ from + 1 - 1 = from
    BY <2>1
  <2>. QED
    BY <2>2, <2>3, <2>4 DEF from
<1>. QED
  BY <1>1, <1>7, <1>13, <1>14

\* If anything is about what is mentioned, then all that the mention leads to is.
LEMMA TargetsAreMeant ==
  ASSUME TypeOK, PlacedAreContent,
         \A i \in PlacedItems : IsAmong(chunks, doc[i], i),
         \A c \in DOMAIN chunks : IsGenuine(chunks[c], PlacedItems, doc, References),
         NEW mention \in Mentions, mention[1] = "cites" => IsNumberedInOrder,
         NEW about \in DOMAIN chunks, IsAbout(about, mention)
  PROVE  Targets(mention) # {} /\ \A c \in Targets(mention) : IsAbout(c, mention)
<1>1. mention = <<mention[1], mention[2]>> /\ mention[1] \in Kinds
  BY DEF Mentions
<1>2. CASE mention[1] = "cites"
  <2>1. \A n \in DOMAIN References : References[n][1].mentions = <<<<"cites", n>>>>
    BY <1>2, EntriesBeginWithTheirNumber
  <2>2. \A c \in DOMAIN chunks : chunks[c].kind = "reference" =>
          /\ chunks[c].entity \in DOMAIN References
          /\ FirstPiece(c).mentions = <<<<"cites", chunks[c].entity>>>>
    <3>1. \A c \in DOMAIN chunks : chunks[c].kind = "reference" =>
            chunks[c].entity \in DOMAIN References /\ chunks[c].text = References[chunks[c].entity]
      BY DEF IsGenuine
    <3>. QED
      BY <2>1, <3>1 DEF FirstPiece
  <2>3. Targets(mention) = {c \in DOMAIN chunks : chunks[c].kind = "reference" /\ chunks[c].entity = mention[2]}
    BY <1>2 DEF Targets
  <2>4. \A c : IsAbout(c, mention) <=> chunks[c].kind = "reference" /\ FirstPiece(c).mentions = <<mention>>
    BY <1>2 DEF IsAbout
  <2>5. about \in Targets(mention)
    <3>1. chunks[about].kind = "reference" /\ FirstPiece(about).mentions = <<mention>>
      BY <2>4
    <3>2. <<mention>> = <<<<"cites", chunks[about].entity>>>>
      BY <2>2, <3>1
    <3>3. mention = <<"cites", chunks[about].entity>>
      BY <3>2
    <3>4. mention[2] = chunks[about].entity
      BY <3>3
    <3>. QED
      BY <2>3, <3>1, <3>4
  <2>6. ASSUME NEW c \in Targets(mention)
        PROVE  IsAbout(c, mention)
    <3>1. c \in DOMAIN chunks /\ chunks[c].kind = "reference" /\ chunks[c].entity = mention[2]
      BY <2>3
    <3>2. FirstPiece(c).mentions = <<<<"cites", mention[2]>>>>
      BY <2>2, <3>1
    <3>. QED
      BY <1>1, <1>2, <2>4, <3>1, <3>2
  <2>. QED
    BY <2>5, <2>6
<1>3. CASE mention[1] # "cites"
  <2>. DEFINE kind == IF mention[1] = "figure" THEN "picture" ELSE "table"
              entities == Labelled(kind, mention[2])
  <2>1. kind \in {"picture", "table"}
    OBVIOUS
  <2>2. \A c : IsAbout(c, mention) <=> chunks[c].kind = kind /\ doc[chunks[c].entity].label = mention[2]
    <3>1. mention[1] = "figure" \/ mention[1] = "table"
      BY <1>1, <1>3 DEF Kinds
    <3>2. CASE mention[1] = "figure"
      BY <3>2 DEF IsAbout
    <3>3. CASE mention[1] = "table"
      BY <3>3 DEF IsAbout
    <3>. QED
      BY <3>1, <3>2, <3>3
  <2>3. Targets(mention) = {c \in DOMAIN chunks : /\ entities # {} /\ chunks[c].kind \in {"picture", "table"}
                                                  /\ chunks[c].entity = First(entities)}
    BY <1>3 DEF Targets
  <2>. HIDE DEF kind
  <2>4. \A i : i \in entities <=> i \in PlacedItems /\ doc[i].kind = kind /\ doc[i].label = mention[2]
    BY DEF Labelled, PlacedItems
  <2>. HIDE DEF entities
  <2>5. \A c \in DOMAIN chunks : chunks[c].kind \in {"picture", "table"} =>
          chunks[c].entity \in PlacedItems /\ doc[chunks[c].entity].kind = chunks[c].kind
    BY DEF IsGenuine
  <2>6. chunks[about].entity \in entities
    BY <2>1, <2>2, <2>4, <2>5
  <2>7. entities \subseteq Nat
    <3>1. \A i \in PlacedItems : i \in Nat
      BY ContentHasPlaces DEF PlacedAreContent
    <3>. QED
      BY <2>4, <3>1
  <2>8. First(entities) \in entities
    BY <2>6, <2>7, FirstExists
  <2>. DEFINE first == First(entities)
  <2>9. first \in PlacedItems /\ doc[first].kind = kind /\ doc[first].label = mention[2]
    BY <2>4, <2>8
  <2>. HIDE DEF first
  <2>10. \E c \in DOMAIN chunks : chunks[c].kind = kind /\ chunks[c].entity = first
    <3>1. IsAmong(chunks, doc[first], first)
      BY <2>9
    <3>. QED
      BY <2>1, <2>9, <3>1 DEF IsAmong
  <2>11. \A c : c \in Targets(mention) <=>
                  c \in DOMAIN chunks /\ chunks[c].kind \in {"picture", "table"} /\ chunks[c].entity = first
    BY <2>3, <2>6 DEF first
  <2>12. Targets(mention) # {}
    BY <2>1, <2>10, <2>11
  <2>13. \A c \in Targets(mention) : chunks[c].kind = kind /\ doc[chunks[c].entity].label = mention[2]
    BY <2>5, <2>9, <2>11
  <2>. QED
    BY <2>2, <2>12, <2>13
<1>. QED
  BY <1>2, <1>3

\* When the representation has been built, every mention is linked.
LEMMA FollowedIsLinked ==
  ASSUME TypeOK, PlacedAreContent, doc \in Documents, BuildIsSound, ContentIsFollowed
  PROVE  MentionsAreLinked
<1>. SUFFICES ASSUME IsBuilt, NEW i \in Paragraphs, NEW k \in DOMAIN doc[i].text, NEW mention \in MentionsOf(i, k),
                     mention[1] = "cites" => IsNumberedInOrder,
                     NEW about \in DOMAIN chunks, IsAbout(about, mention)
              PROVE  \E n \in DOMAIN relationships : /\ Shows(relationships[n].source, i, k)
                                                     /\ IsAbout(relationships[n].target, mention)
  BY DEF MentionsAreLinked
<1>1. /\ pc \in Building \ {"walk"} /\ pc \in {"check", "represented", "refused"}
      /\ FoundIsLinked /\ buffer = <<>> /\ todo = <<>>
      /\ chunks \in Seq(ChunkRecord)
  BY DEF IsBuilt, Building, ContentIsFollowed, BuildIsSound, BuildIsTyped
<1>2. /\ \A j \in PlacedItems : IsAmong(chunks, doc[j], j)
      /\ \A c \in DOMAIN chunks : IsGenuine(chunks[c], PlacedItems, doc, References)
  <2>1. Range(buffer) = {} /\ Range(todo) = {}
    <3>1. DOMAIN <<>> = {}
      OBVIOUS
    <3>. QED
      BY <1>1, <3>1 DEF Range
  <2>. QED
    BY <1>1, <2>1 DEF ContentIsFollowed
<1>. DEFINE text == doc[i].text
<1>3. i \in PlacedItems /\ doc[i].kind = "text"
  BY DEF Paragraphs, PlacedItems
<1>4. text \in Seq(Piece) /\ i \in DOMAIN doc
  BY <1>3, ContentHasPlaces DEF PlacedAreContent
<1>5. \A j \in DOMAIN text : text[j].place = <<i, j>>
  BY <1>4, PiecesHavePlaces
<1>6. k \in DOMAIN text /\ mention \in Range(text[k].mentions \o Straddling(text, k))
  BY DEF MentionsOf
<1>7. IsAmong(chunks, doc[i], i) /\ doc[i].text = text
  BY <1>2, <1>3
<1>. HIDE DEF text
<1>8. k < Len(text) => text[k] # text[k + 1]
  <2>1. ASSUME k < Len(text)
        PROVE  text[k].place # text[k + 1].place
    <3>1. k + 1 \in DOMAIN text /\ k # k + 1
      BY <1>4, <1>6, <2>1
    <3>2. <<i, k>> # <<i, k + 1>>
      BY <3>1
    <3>. QED
      BY <1>5, <1>6, <3>1, <3>2
  <2>. QED
    BY <2>1
<1>9. PICK y : /\ Together(text, text[k], y)
               /\ \A other \in Seq(Piece) :
                    Together(other, text[k], y) => \E n \in DOMAIN Found(other) : Found(other)[n] = mention
  BY <1>4, <1>6, <1>8, NeighboursAreFound
<1>10. PICK c \in DOMAIN chunks : chunks[c].kind = "text" /\ Together(chunks[c].text, text[k], y)
  BY <1>3, <1>7, <1>9 DEF IsAmong
<1>11. chunks[c].text \in Seq(Piece)
  <2>1. chunks[c] \in ChunkRecord
    BY <1>1, <1>10
  <2>. QED
    BY <2>1 DEF ChunkRecord
<1>12. PICK n \in DOMAIN Found(chunks[c].text) : Found(chunks[c].text)[n] = mention
  BY <1>9, <1>10, <1>11
<1>13. mention \in Mentions
  <2>1. Found(chunks[c].text) \in Seq(Mentions)
    BY <1>11, FoundIsTyped
  <2>. QED
    BY <1>12, <2>1
<1>14. Targets(mention) # {} /\ \A t \in Targets(mention) : IsAbout(t, mention)
  BY <1>2, <1>13, TargetsAreMeant
<1>15. c \in TextChunks /\ mention \in Range(Found(chunks[c].text))
  BY <1>10, <1>12 DEF TextChunks, Range
<1>16. PICK m \in DOMAIN relationships : relationships[m].source = c /\ relationships[m].target \in Targets(mention)
  BY <1>1, <1>14, <1>15 DEF FoundIsLinked
<1>17. Shows(c, i, k)
  <2>1. PICK j \in DOMAIN chunks[c].text : chunks[c].text[j] = text[k]
    BY <1>10 DEF Together
  <2>. QED
    BY <1>5, <1>6, <2>1 DEF Shows
<1>. QED
  BY <1>14, <1>16, <1>17

\* However paragraphs are merged and split (chunk_policy.py), each citation and mention is
\* followed from a chunk it stands in to what it names (detect_relationships): the sentence
\* that two parts share is why one that a boundary runs through is found.
THEOREM MentionsStayLinked == Spec => []MentionsAreLinked
<1>. DEFINE Inv == doc \in Documents /\ ContentIsFollowed
            Sound == TypeOK /\ SectionsAreNested /\ PlacedAreContent /\ TextIsDivided /\ BuildIsSound
<1>1. Init => Inv
  <2>. SUFFICES ASSUME Init
                PROVE  Inv
    OBVIOUS
  <2>1. pc \notin Building /\ doc \in Documents /\ pc \notin {"check", "represented", "refused"}
    BY DEF Init, ParseInit, Building
  <2>. QED
    BY <2>1 DEF ContentIsFollowed
<1>2. Sound /\ Inv /\ [Next]_vars => Inv'
  <2>. SUFFICES ASSUME Sound, Inv, [Next]_vars
                PROVE  Inv'
    OBVIOUS
  <2>1. doc' = doc
    BY DEF Next, Parse, MapItem, SkipItem, StrayHeading, SpecialHeading, CloseSection, OpenSection, AbstractText,
       ReferenceText, Place, Convert, Validate, Persist, Build, StartBuild, TakeParagraph, TakeVisual,
       FinishWalk, Detect, Check, vars, parseVars
  <2>2. PlacedOnce
    BY DEF TextIsDivided
  <2>. QED
    BY <2>1, <2>2, StepFollows
<1>3. Sound /\ Inv => MentionsAreLinked
  BY FollowedIsLinked
<1>. QED
  BY <1>1, <1>2, <1>3, TypeCorrect, SectionsNested, ContentIsPlaced, TextStaysDivided, BuildSound, PTL DEF Spec

=============================================================================
