---------------------------- MODULE ParagraphProofs ----------------------------
(***************************************************************************)
(* Facts about ParagraphSplitting, for every text and every limit: what    *)
(* the sentences of a text are, that merging short paragraphs and          *)
(* splitting long blocks loses no text, adds none and changes no order,    *)
(* that a part after the first repeats the last sentence of the part       *)
(* before it and adds to it, that parts begin in the order of the text and *)
(* neither exceed the limit nor miss the floor without need, that pieces   *)
(* which follow each other stay together in some part, and what a text is  *)
(* found to mention.                                                       *)
(***************************************************************************)
EXTENDS ParagraphSplitting, SequenceFolds

\* Ascending lists a set of numbers from the smallest on.
LEMMA AscendingIsInOrder ==
  ASSUME NEW S, S \subseteq Nat, IsFiniteSet(S)
  PROVE  /\ Ascending(S) \in Seq(S)
         /\ Len(Ascending(S)) = Cardinality(S) /\ Cardinality(S) \in Nat
         /\ DOMAIN Ascending(S) = 1..Cardinality(S)
         /\ \A j, k \in DOMAIN Ascending(S) : j < k => Ascending(S)[j] < Ascending(S)[k]
         /\ \A x \in S : \E n \in DOMAIN Ascending(S) : Ascending(S)[n] = x
<1>. DEFINE R == {p \in S \X S : p[1] < p[2]}
<1>1. \A j, k \in S : <<j, k>> \in R <=> j < k
  OBVIOUS
<1>. HIDE DEF R
<1>2. Orders(R, S)
  BY <1>1 DEF Orders
<1>3. \A k \in S : Below(R, S, k) = {j \in S : j < k}
  BY <1>1 DEF Below
<1>4. Sorts(Ascending(S), R, S)
  <2>1. ASSUME NEW n \in 1..Cardinality(S)
        PROVE  Ascending(S)[n] \in S /\ Cardinality(Below(R, S, Ascending(S)[n])) = n - 1
    <3>1. S \in SUBSET S
      OBVIOUS
    <3>2. \E k \in S : Cardinality({j \in S : j < k}) = n - 1
      <4>1. PICK k \in S : Cardinality(Below(R, S, k)) = n - 1
        BY <1>2, <3>1, NthExists
      <4>. QED
        BY <1>3, <4>1
    <3>3. Ascending(S)[n] = CHOOSE k \in S : Cardinality({j \in S : j < k}) = n - 1
      BY DEF Ascending
    <3>. QED
      BY <1>3, <3>2, <3>3
  <2>. QED
    BY <2>1 DEF Sorts, Ascending
<1>5. /\ Ascending(S) \in Seq(S) /\ Ascending(S) \in [1..Cardinality(S) -> S]
      /\ Len(Ascending(S)) = Cardinality(S) /\ Cardinality(S) \in Nat
      /\ \A j, k \in 1..Cardinality(S) : j < k => <<Ascending(S)[j], Ascending(S)[k]>> \in R
      /\ \A x \in S : \E n \in 1..Cardinality(S) : Ascending(S)[n] = x
  <2>. DEFINE a == Ascending(S)
  <2>1. Sorts(a, R, S)
    BY <1>4
  <2>. HIDE DEF a
  <2>2. /\ a \in Seq(S) /\ a \in [1..Cardinality(S) -> S]
        /\ Len(a) = Cardinality(S) /\ Cardinality(S) \in Nat
        /\ \A j, k \in 1..Cardinality(S) : j < k => <<a[j], a[k]>> \in R
        /\ \A x \in S : \E n \in 1..Cardinality(S) : a[n] = x
    <3>1. Lists(a, R, S)
      BY <1>2, <2>1, SortedIsInOrder
    <3>. QED
      BY <3>1 DEF Lists
  <2>. QED
    BY <2>2 DEF a
<1>6. \A n \in 1..Cardinality(S) : Ascending(S)[n] \in S
  BY <1>5
<1>7. DOMAIN Ascending(S) = 1..Cardinality(S)
  BY <1>5
<1>. QED
  BY <1>1, <1>5, <1>6, <1>7

-----------------------------------------------------------------------------
(* The parts of a run of paragraphs.                                       *)

\* Texts that are not blank.
Texts == Seq(Piece) \ {<<>>}

\* The runs of text between starts are texts.
LEMMA CutIsSeq ==
  ASSUME NEW E, NEW text \in Seq(E), NEW starts \in SUBSET DOMAIN text
  PROVE  /\ CutBefore(text, starts) \in Seq(Seq(E))
         /\ Len(CutBefore(text, starts)) = Cardinality(starts)
         /\ IsFiniteSet(starts) /\ Cardinality(starts) \in Nat
<1>. DEFINE s == Ascending(starts)
            upto(k) == IF k < Len(s) THEN s[k + 1] - 1 ELSE Len(text)
            cut == [k \in DOMAIN s |-> SubSeq(text, s[k], upto(k))]
<1>1. Len(text) \in Nat /\ DOMAIN text = 1..Len(text)
  OBVIOUS
<1>2. starts \subseteq Nat /\ IsFiniteSet(starts)
  <2>1. IsFiniteSet(DOMAIN text)
    BY <1>1, FS_Interval
  <2>. QED
    BY <1>1, <2>1, FS_Subset
<1>3. /\ s \in Seq(starts) /\ Len(s) = Cardinality(starts) /\ Cardinality(starts) \in Nat
      /\ DOMAIN s = 1..Len(s)
  BY <1>2, AscendingIsInOrder
<1>. HIDE DEF s
<1>4. ASSUME NEW k \in DOMAIN s
      PROVE  SubSeq(text, s[k], upto(k)) \in Seq(E)
  <2>1. s[k] \in 1..Len(text)
    BY <1>1, <1>3
  <2>2. upto(k) \in Int /\ upto(k) <= Len(text)
    <3>1. CASE k < Len(s)
      <4>1. k + 1 \in DOMAIN s
        BY <1>3, <3>1
      <4>2. s[k + 1] \in 1..Len(text)
        BY <1>1, <1>3, <4>1
      <4>. QED
        BY <1>1, <3>1, <4>2
    <3>2. CASE ~(k < Len(s))
      BY <1>1, <3>2
    <3>. QED
      BY <3>1, <3>2
  <2>. HIDE DEF upto
  <2>3. \A i \in s[k]..upto(k) : text[i] \in E
    <3>1. \A i \in s[k]..upto(k) : i \in 1..Len(text)
      BY <1>1, <2>1, <2>2
    <3>. QED
      BY <1>1, <3>1
  <2>4. s[k] \in Int
    BY <2>1
  <2>. QED
    BY <2>2, <2>3, <2>4, SubSeqProperties
<1>5. cut \in Seq(Seq(E)) /\ Len(cut) = Len(s)
  <2>1. Len(s) \in Nat
    BY <1>3
  <2>. HIDE DEF upto
  <2>2. cut \in [1..Len(s) -> Seq(E)]
    BY <1>3, <1>4
  <2>3. cut \in Seq(Seq(E))
    BY <2>1, <2>2, SeqDef
  <2>. QED
    BY <2>1, <2>2, <2>3, LenProperties
<1>6. CutBefore(text, starts) = cut
  BY DEF CutBefore, s
<1>. HIDE DEF cut
<1>. QED
  BY <1>2, <1>3, <1>5, <1>6

\* A text that is not blank has a sentence.
LEMMA SentencesAreTexts ==
  ASSUME NEW text \in Texts
  PROVE  Sentences(text) \in Seq(Seq(Piece)) /\ Sentences(text) # <<>>
<1>. DEFINE starts == {k \in DOMAIN text : k = 1 \/ text[k - 1].stop}
<1>1. text \in Seq(Piece) /\ text # <<>> /\ 1 \in DOMAIN text
  BY DEF Texts
<1>2. starts \in SUBSET DOMAIN text /\ 1 \in starts
  BY <1>1
<1>3. Sentences(text) = CutBefore(text, starts)
  BY DEF Sentences
<1>. HIDE DEF starts
<1>4. /\ CutBefore(text, starts) \in Seq(Seq(Piece))
      /\ Len(CutBefore(text, starts)) = Cardinality(starts)
      /\ IsFiniteSet(starts) /\ Cardinality(starts) \in Nat
  BY <1>1, <1>2, CutIsSeq
<1>5. Cardinality(starts) # 0
  BY <1>2, <1>4, FS_EmptySet
<1>. QED
  BY <1>3, <1>4, <1>5

\* What a merge has done and what it still holds.
Merges == [done: Seq(Texts), pending: Seq(Piece)]

\* Merging starts with nothing merged.
LEMMA NothingMerged == [done |-> <<>>, pending |-> <<>>] \in Merges
  BY DEF Merges

\* A step of the merge keeps texts that are not blank.
LEMMA MergeStepIsTyped ==
  ASSUME NEW merged \in Merges, NEW text \in Texts
  PROVE  MergeStep(merged, text) \in Merges
<1>. DEFINE block == merged.pending \o text
<1>1. merged.pending \in Seq(Piece) /\ merged.done \in Seq(Texts) /\ text \in Seq(Piece) /\ text # <<>>
  BY DEF Merges, Texts
<1>2. block \in Seq(Piece) /\ block # <<>>
  BY <1>1, ConcatProperties, ConcatEqualIffEmpty
<1>3. block \in Texts
  BY <1>2 DEF Texts
<1>4. MergeStep(merged, text) =
        IF Words(block) < MinWords THEN [merged EXCEPT !.pending = block]
        ELSE [done |-> Append(merged.done, block), pending |-> <<>>]
  BY DEF MergeStep
<1>. HIDE DEF block
<1>5. [merged EXCEPT !.pending = block] \in Merges
  BY <1>2 DEF Merges
<1>6. Append(merged.done, block) \in Seq(Texts)
  BY <1>1, <1>3, AppendProperties
<1>7. [done |-> Append(merged.done, block), pending |-> <<>>] \in Merges
  BY <1>6 DEF Merges
<1>. QED
  BY <1>4, <1>5, <1>7

\* The fold of Merge.
Merged(texts) == FoldLeft(MergeStep, [done |-> <<>>, pending |-> <<>>], texts)

\* What Merged computes, as a fold by a function step.
LEMMA MergedIsAFold ==
  ASSUME NEW s \in Seq(Texts)
  PROVE  Merged(s) = Folded([p \in Merges \X Texts |-> MergeStep(p[1], p[2])], [done |-> <<>>, pending |-> <<>>], s)
<1>. DEFINE step == [p \in Merges \X Texts |-> MergeStep(p[1], p[2])]
<1>1. step \in StepOf(Merges, Texts) /\ [done |-> <<>>, pending |-> <<>>] \in Merges
  BY MergeStepIsTyped, NothingMerged DEF StepOf
<1>2. \A x \in Merges, e \in Texts : step[<<x, e>>] = MergeStep(x, e)
  OBVIOUS
<1>. HIDE DEF step
<1>3. PICK g \in [SUBSET DOMAIN s -> Merges] : ComputesFold(g, step, [done |-> <<>>, pending |-> <<>>], s)
  BY <1>1, FoldExists
<1>4. g = [t \in SUBSET DOMAIN s |->
            IF t = {} THEN [done |-> <<>>, pending |-> <<>>] ELSE MergeStep(g[t \ {Max(t)}], s[Max(t)])]
  <2>1. ASSUME NEW t \in SUBSET DOMAIN s, t # {}
        PROVE  step[<<g[t \ {Max(t)}], s[Max(t)]>>] = MergeStep(g[t \ {Max(t)}], s[Max(t)])
    <3>1. s[Max(t)] \in Texts /\ g[t \ {Max(t)}] \in Merges
      BY <2>1, MaxIsAnIndex
    <3>. HIDE DEF Max
    <3>. QED
      BY <1>2, <3>1
  <2>. QED
    BY <1>3, <2>1 DEF ComputesFold
<1>5. PICK it : /\ it = [t \in SUBSET DOMAIN s |->
                        IF t = {} THEN [done |-> <<>>, pending |-> <<>>] ELSE MergeStep(it[t \ {Max(t)}], s[Max(t)])]
                /\ Merged(s) = it[DOMAIN s]
  BY <1>4 DEF Merged, FoldLeft, MapThenFoldSet
<1>6. FollowsFold(it, Merges, step, [done |-> <<>>, pending |-> <<>>], s)
  <2>1. it[{}] = [done |-> <<>>, pending |-> <<>>]
    BY <1>5
  <2>2. ASSUME NEW m \in 1..Len(s), it[1..(m - 1)] \in Merges
        PROVE  it[1..m] = step[<<it[1..(m - 1)], s[m]>>]
    <3>1. /\ 1..m \in SUBSET DOMAIN s /\ 1..m # {}
          /\ Max(1..m) = m /\ (1..m) \ {m} = 1..(m - 1) /\ s[m] \in Texts
      BY PrefixOfIndexes
    <3>2. it[1..m] = MergeStep(it[1..(m - 1)], s[m])
      <4>. HIDE DEF Max
      <4>. QED
        BY <1>5, <3>1
    <3>. QED
      BY <1>2, <2>2, <3>1, <3>2
  <2>. QED
    BY <2>1, <2>2 DEF FollowsFold
<1>7. it[DOMAIN s] = Folded(step, [done |-> <<>>, pending |-> <<>>], s) /\ it[DOMAIN s] \in Merges
  BY <1>1, <1>6, FoldIsUnique
<1>. QED
  BY <1>5, <1>7 DEF step

\* Blocks are not blank.
LEMMA MergeIsTyped ==
  ASSUME NEW texts \in Seq(Texts)
  PROVE  Merge(texts) \in Seq(Texts)
<1>. DEFINE merged == Merged(texts)
<1>1. merged \in Merges
  <2>. DEFINE step == [p \in Merges \X Texts |-> MergeStep(p[1], p[2])]
              base == [done |-> <<>>, pending |-> <<>>]
  <2>1. step \in StepOf(Merges, Texts) /\ base \in Merges
    BY MergeStepIsTyped, NothingMerged DEF StepOf
  <2>2. merged = Folded(step, base, texts)
    BY MergedIsAFold
  <2>. HIDE DEF step, base, merged
  <2>. QED
    BY <2>1, <2>2, FoldedIsTyped
<1>2. Merge(texts) = IF merged.pending = <<>> THEN merged.done
                     ELSE IF merged.done = <<>> THEN <<merged.pending>>
                     ELSE [merged.done EXCEPT ![Len(merged.done)] = @ \o merged.pending]
  BY DEF Merge, Merged
<1>. HIDE DEF merged
<1>3. merged.done \in Seq(Texts) /\ merged.pending \in Seq(Piece)
  BY <1>1 DEF Merges
<1>4. CASE merged.pending = <<>>
  BY <1>2, <1>3, <1>4
<1>5. CASE merged.pending # <<>> /\ merged.done = <<>>
  <2>1. merged.pending \in Texts
    BY <1>3, <1>5 DEF Texts
  <2>. QED
    BY <1>2, <1>5, <2>1
<1>6. CASE merged.pending # <<>> /\ merged.done # <<>>
  <2>. DEFINE n == Len(merged.done)
              last == merged.done[n] \o merged.pending
  <2>1. n \in 1..Len(merged.done) /\ merged.done[n] \in Texts
    BY <1>3, <1>6, EmptySeq
  <2>2. last \in Texts
    <3>1. merged.done[n] \in Seq(Piece) /\ merged.done[n] # <<>>
      BY <2>1 DEF Texts
    <3>2. last \in Seq(Piece) /\ last # <<>>
      BY <1>3, <3>1, ConcatProperties, ConcatEqualIffEmpty
    <3>. QED
      BY <3>2 DEF Texts
  <2>3. Merge(texts) = [merged.done EXCEPT ![n] = last]
    BY <1>2, <1>6
  <2>. HIDE DEF n, last
  <2>. QED
    BY <1>3, <2>1, <2>2, <2>3, ExceptSeq
<1>. QED
  BY <1>4, <1>5, <1>6

-----------------------------------------------------------------------------

\* Sequences of parts, a part being some sentences.
Partings == Seq(Seq(Seq(Piece)) \ {<<>>}) \ {<<>>}

\* A head alone is a parting.
LEMMA OnePart ==
  ASSUME NEW head \in Seq(Piece)
  PROVE  <<<<head>>>> \in Partings
<1>1. <<head>> \in Seq(Seq(Piece)) \ {<<>>}
  OBVIOUS
<1>. QED
  BY <1>1 DEF Partings

\* A step of the split keeps texts that are not blank.
LEMMA SplitStepIsTyped ==
  ASSUME NEW parts \in Partings, NEW sentence \in Seq(Piece)
  PROVE  SplitStep(parts, sentence) \in Partings
<1>. DEFINE Part == Seq(Seq(Piece)) \ {<<>>}
            current == Last(parts)
            n == Len(parts)
<1>1. parts \in Seq(Part) /\ parts # <<>>
  BY DEF Partings
<1>2. n \in Nat \ {0} /\ current \in Part
  <2>. HIDE DEF Part
  <2>. QED
    BY <1>1 DEF Last
<1>3. Front(parts) \in Seq(Part)
  <2>. HIDE DEF Part
  <2>. QED
    BY <1>1, FrontOfSeq
<1>4. Last(current) \in Seq(Piece)
  <2>1. current \in Seq(Seq(Piece)) /\ current # <<>>
    BY <1>2
  <2>. HIDE DEF current
  <2>. QED
    BY <2>1 DEF Last
<1>5. <<Last(current), sentence>> \in Part
  BY <1>4
<1>6. Append(current, sentence) \in Part
  <2>1. current \in Seq(Seq(Piece))
    BY <1>2
  <2>. HIDE DEF current
  <2>. QED
    BY <2>1, AppendProperties
<1>7. SplitStep(parts, sentence) =
        IF Words(FlattenSeq(current)) + Words(sentence) > MaxWords
        THEN Append(parts, <<Last(current), sentence>>)
        ELSE Append(Front(parts), Append(current, sentence))
  BY DEF SplitStep
<1>8. \A ps \in Seq(Part), p \in Part : Append(ps, p) \in Partings
  <2>. HIDE DEF Part
  <2>1. \A ps \in Seq(Part), p \in Part : Append(ps, p) \in Seq(Part) \ {<<>>}
    BY AppendProperties
  <2>. QED
    BY <2>1 DEF Partings, Part
<1>. HIDE DEF Part, current
<1>. QED
  BY <1>1, <1>3, <1>5, <1>6, <1>7, <1>8

\* The fold of Split.
Parted(head, sentences) == FoldLeft(SplitStep, <<<<head>>>>, sentences)

\* What Parted computes, as a fold by a function step.
LEMMA PartedIsAFold ==
  ASSUME NEW head \in Seq(Piece), NEW s \in Seq(Seq(Piece))
  PROVE  Parted(head, s) = Folded([p \in Partings \X Seq(Piece) |-> SplitStep(p[1], p[2])], <<<<head>>>>, s)
<1>. DEFINE step == [p \in Partings \X Seq(Piece) |-> SplitStep(p[1], p[2])]
<1>1. step \in StepOf(Partings, Seq(Piece)) /\ <<<<head>>>> \in Partings
  BY SplitStepIsTyped, OnePart DEF StepOf
<1>2. \A x \in Partings, e \in Seq(Piece) : step[<<x, e>>] = SplitStep(x, e)
  OBVIOUS
<1>. HIDE DEF step
<1>3. PICK g \in [SUBSET DOMAIN s -> Partings] : ComputesFold(g, step, <<<<head>>>>, s)
  BY <1>1, FoldExists
<1>4. g = [t \in SUBSET DOMAIN s |->
            IF t = {} THEN <<<<head>>>> ELSE SplitStep(g[t \ {Max(t)}], s[Max(t)])]
  <2>1. ASSUME NEW t \in SUBSET DOMAIN s, t # {}
        PROVE  step[<<g[t \ {Max(t)}], s[Max(t)]>>] = SplitStep(g[t \ {Max(t)}], s[Max(t)])
    <3>1. s[Max(t)] \in Seq(Piece) /\ g[t \ {Max(t)}] \in Partings
      BY <2>1, MaxIsAnIndex
    <3>. HIDE DEF Max
    <3>. QED
      BY <1>2, <3>1
  <2>. QED
    BY <1>3, <2>1 DEF ComputesFold
<1>5. PICK it : /\ it = [t \in SUBSET DOMAIN s |->
                        IF t = {} THEN <<<<head>>>> ELSE SplitStep(it[t \ {Max(t)}], s[Max(t)])]
                /\ Parted(head, s) = it[DOMAIN s]
  BY <1>4 DEF Parted, FoldLeft, MapThenFoldSet
<1>6. FollowsFold(it, Partings, step, <<<<head>>>>, s)
  <2>1. it[{}] = <<<<head>>>>
    BY <1>5
  <2>2. ASSUME NEW m \in 1..Len(s), it[1..(m - 1)] \in Partings
        PROVE  it[1..m] = step[<<it[1..(m - 1)], s[m]>>]
    <3>1. /\ 1..m \in SUBSET DOMAIN s /\ 1..m # {}
          /\ Max(1..m) = m /\ (1..m) \ {m} = 1..(m - 1) /\ s[m] \in Seq(Piece)
      BY PrefixOfIndexes
    <3>2. it[1..m] = SplitStep(it[1..(m - 1)], s[m])
      <4>. HIDE DEF Max
      <4>. QED
        BY <1>5, <3>1
    <3>. QED
      BY <1>2, <2>2, <3>1, <3>2
  <2>. QED
    BY <2>1, <2>2 DEF FollowsFold
<1>7. it[DOMAIN s] = Folded(step, <<<<head>>>>, s) /\ it[DOMAIN s] \in Partings
  BY <1>1, <1>6, FoldIsUnique
<1>. QED
  BY <1>5, <1>7 DEF step

\* Parted of the empty sequence, and with one more element.
LEMMA PartedFacts ==
  ASSUME NEW head \in Seq(Piece)
  PROVE  /\ Parted(head, <<>>) = <<<<head>>>>
         /\ \A s \in Seq(Seq(Piece)), sentence \in Seq(Piece) :
              /\ Parted(head, s) \in Partings
              /\ Parted(head, Append(s, sentence)) = SplitStep(Parted(head, s), sentence)
<1>. DEFINE step == [p \in Partings \X Seq(Piece) |-> SplitStep(p[1], p[2])]
<1>1. step \in StepOf(Partings, Seq(Piece)) /\ <<<<head>>>> \in Partings
  BY SplitStepIsTyped, OnePart DEF StepOf
<1>2. \A x \in Partings, sentence \in Seq(Piece) : step[<<x, sentence>>] = SplitStep(x, sentence)
  OBVIOUS
<1>3. \A s \in Seq(Seq(Piece)) : Parted(head, s) = Folded(step, <<<<head>>>>, s)
  BY PartedIsAFold
<1>. HIDE DEF step
<1>4. GoesByElement(step, <<<<head>>>>, Partings, Seq(Piece))
  BY <1>1, FoldGoesByElement
<1>5. Parted(head, <<>>) = <<<<head>>>>
  <2>1. <<>> \in Seq(Seq(Piece))
    OBVIOUS
  <2>. QED
    BY <1>3, <1>4, <2>1 DEF GoesByElement
<1>6. ASSUME NEW s \in Seq(Seq(Piece)), NEW sentence \in Seq(Piece)
      PROVE  /\ Parted(head, s) \in Partings
             /\ Parted(head, Append(s, sentence)) = SplitStep(Parted(head, s), sentence)
  <2>1. Append(s, sentence) \in Seq(Seq(Piece))
    OBVIOUS
  <2>2. Parted(head, s) \in Partings /\ Parted(head, Append(s, sentence)) = step[<<Parted(head, s), sentence>>]
    BY <1>3, <1>4, <2>1 DEF GoesByElement
  <2>. QED
    BY <1>2, <2>2
<1>. QED
  BY <1>5, <1>6

\* A block is split in parts of at least a sentence each.
LEMMA SplitIsTyped ==
  ASSUME NEW text \in Texts
  PROVE  Split(text) \in Partings
<1>. DEFINE sentences == Sentences(text)
<1>1. Head(sentences) \in Seq(Piece) /\ Tail(sentences) \in Seq(Seq(Piece))
  BY SentencesAreTexts
<1>2. Split(text) = Parted(Head(sentences), Tail(sentences))
  BY DEF Split, Parted
<1>. HIDE DEF sentences
<1>. QED
  BY <1>1, <1>2, PartedFacts

\* What PartsOf returns.
Parts == [text: Seq(Piece), continues: BOOLEAN]

\* The parts of a block are texts that are not blank.
LEMMA PartsOfIsTyped ==
  ASSUME NEW texts \in Seq(Texts)
  PROVE  PartsOf(texts) \in Seq(Parts)
<1>. DEFINE blocks == Merge(texts)
            ofBlock(b) == [k \in DOMAIN Split(blocks[b]) |->
                             [text |-> FlattenSeq(Split(blocks[b])[k]), continues |-> k > 1]]
            all == [b \in DOMAIN blocks |-> ofBlock(b)]
<1>1. blocks \in Seq(Texts)
  BY MergeIsTyped
<1>. HIDE DEF blocks
<1>2. ASSUME NEW b \in DOMAIN blocks
      PROVE  ofBlock(b) \in Seq(Parts)
  <2>. DEFINE parts == Split(blocks[b])
  <2>1. blocks[b] \in Texts
    BY <1>1
  <2>2. parts \in Partings
    BY <2>1, SplitIsTyped
  <2>. HIDE DEF parts
  <2>3. parts \in Seq(Seq(Seq(Piece)))
    <3>1. Seq(Seq(Piece)) \ {<<>>} \subseteq Seq(Seq(Piece))
      OBVIOUS
    <3>. QED
      BY <2>2, <3>1, SeqMonotonic DEF Partings
  <2>4. \A k \in DOMAIN parts : [text |-> FlattenSeq(parts[k]), continues |-> k > 1] \in Parts
    <3>1. \A k \in DOMAIN parts : parts[k] \in Seq(Seq(Piece))
      BY <2>3
    <3>2. \A k \in DOMAIN parts : FlattenSeq(parts[k]) \in Seq(Piece)
      BY <3>1, FlattenIsSeq
    <3>. QED
      BY <3>2 DEF Parts
  <2>5. Len(parts) \in Nat /\ DOMAIN parts = 1..Len(parts)
    BY <2>3
  <2>6. [k \in DOMAIN parts |-> [text |-> FlattenSeq(parts[k]), continues |-> k > 1]] \in Seq(Parts)
    BY <2>4, <2>5
  <2>. QED
    BY <2>6 DEF parts
<1>3. all \in Seq(Seq(Parts))
  <2>1. Len(blocks) \in Nat /\ DOMAIN blocks = 1..Len(blocks)
    BY <1>1
  <2>. HIDE DEF ofBlock
  <2>. QED
    BY <1>2, <2>1
<1>4. PartsOf(texts) = FlattenSeq(all)
  BY DEF PartsOf, blocks
<1>. HIDE DEF all
<1>. QED
  BY <1>3, <1>4, FlattenIsSeq

-----------------------------------------------------------------------------
(* What a text mentions.                                                   *)

\* What a text may mention.
Mentions == Kinds \X Nat

\* What is found in a text are mentions.
LEMMA FoundIsTyped ==
  ASSUME NEW text \in Seq(Piece)
  PROVE  Found(text) \in Seq(Mentions)
<1>. DEFINE in(k) == text[k].mentions \o Straddling(text, k)
            parts == [k \in DOMAIN text |-> in(k)]
            all == FlattenSeq(parts)
<1>1. Len(text) \in Nat /\ DOMAIN text = 1..Len(text)
  OBVIOUS
<1>2. ASSUME NEW k \in DOMAIN text
      PROVE  in(k) \in Seq(Mentions)
  <2>1. text[k] \in Piece
    OBVIOUS
  <2>2. text[k].mentions \in Seq(Mentions) /\ (text[k].announces # "nothing" => text[k].announces \in Kinds)
    BY <2>1 DEF Piece, Mentions
  <2>3. Straddling(text, k) \in Seq(Mentions)
    <3>1. CASE k < Len(text) /\ text[k].announces # "nothing" /\ text[k + 1].number # 0
      <4>1. k + 1 \in DOMAIN text
        BY <1>1, <3>1
      <4>2. text[k + 1] \in Piece
        BY <4>1
      <4>3. text[k + 1].number \in Nat
        BY <4>2 DEF Piece
      <4>4. <<text[k].announces, text[k + 1].number>> \in Mentions
        BY <2>2, <3>1, <4>3 DEF Mentions
      <4>. QED
        BY <3>1, <4>4 DEF Straddling
    <3>2. CASE ~(k < Len(text) /\ text[k].announces # "nothing" /\ text[k + 1].number # 0)
      BY <3>2 DEF Straddling
    <3>. QED
      BY <3>1, <3>2
  <2>. QED
    BY <2>2, <2>3, ConcatProperties
<1>3. parts \in Seq(Seq(Mentions))
  <2>. HIDE DEF in
  <2>. QED
    BY <1>1, <1>2
<1>4. all \in Seq(Mentions)
  <2>. HIDE DEF parts
  <2>. QED
    BY <1>3, FlattenIsSeq
<1>. DEFINE of(kind) == FlattenSeq([k \in DOMAIN all |-> IF all[k][1] = kind THEN <<all[k]>> ELSE <<>>])
<1>5. Found(text) = of("cites") \o of("figure") \o of("table")
  BY DEF Found
<1>. HIDE DEF all
<1>6. ASSUME NEW kind
      PROVE  of(kind) \in Seq(Mentions)
  <2>. DEFINE ones == [k \in DOMAIN all |-> IF all[k][1] = kind THEN <<all[k]>> ELSE <<>>]
  <2>1. Len(all) \in Nat /\ DOMAIN all = 1..Len(all) /\ \A k \in DOMAIN all : all[k] \in Mentions
    BY <1>4
  <2>2. \A k \in DOMAIN all : (IF all[k][1] = kind THEN <<all[k]>> ELSE <<>>) \in Seq(Mentions)
    BY <2>1
  <2>3. ones \in Seq(Seq(Mentions))
    BY <2>1, <2>2
  <2>. HIDE DEF ones
  <2>4. FlattenSeq(ones) \in Seq(Mentions)
    BY <2>3, FlattenIsSeq
  <2>. QED
    BY <2>4 DEF ones
<1>. HIDE DEF of
<1>7. of("cites") \o of("figure") \in Seq(Mentions)
  BY <1>6, ConcatProperties
<1>. QED
  BY <1>5, <1>6, <1>7, ConcatProperties

-----------------------------------------------------------------------------
(* The text of the pieces that cuts leave.                                 *)

\* Where cut k ends.
CutEnd(text, starts, k) ==
  IF k < Cardinality(starts) THEN Ascending(starts)[k + 1] - 1 ELSE Len(text)

\* What is cut before starts: cut k begins at the k-th start and ends before the next
\* one or with the text, and nothing starts in between.
AreCuts(E, text, starts) ==
  LET cut == CutBefore(text, starts)
      s == Ascending(starts)
      n == Cardinality(starts)
      end(k) == CutEnd(text, starts, k)
  IN  /\ cut \in Seq(Seq(E)) /\ Len(cut) = n
      /\ n \in Nat \ {0} /\ s[1] = 1
      /\ \A k \in 1..n : /\ s[k] \in starts /\ s[k] \in 1..Len(text)
                         /\ end(k) \in s[k]..Len(text)
                         /\ cut[k] = SubSeq(text, s[k], end(k))
                         /\ \A m \in (s[k] + 1)..end(k) : m \notin starts
      /\ \A k \in 1..(n - 1) : end(k) = s[k + 1] - 1
      /\ end(n) = Len(text)

\* A text is cut so before any starts, the first element among them.
LEMMA CutFacts ==
  ASSUME NEW E, NEW text \in Seq(E), NEW starts \in SUBSET DOMAIN text, 1 \in starts
  PROVE  AreCuts(E, text, starts)
<1>. DEFINE s == Ascending(starts)
            n == Cardinality(starts)
<1>0. s = Ascending(starts) /\ n = Cardinality(starts)
  OBVIOUS
<1>. HIDE DEF s, n
<1>1. /\ CutBefore(text, starts) \in Seq(Seq(E)) /\ Len(CutBefore(text, starts)) = n
      /\ IsFiniteSet(starts) /\ n \in Nat
  BY <1>0, CutIsSeq
<1>2. Len(text) \in Nat /\ DOMAIN text = 1..Len(text)
  OBVIOUS
<1>3. starts \subseteq Nat
  BY <1>2
<1>4. /\ s \in Seq(starts) /\ Len(s) = n /\ DOMAIN s = 1..n
      /\ \A j, k \in 1..n : j < k => s[j] < s[k]
      /\ \A x \in starts : \E k \in 1..n : s[k] = x
  BY <1>0, <1>1, <1>3, AscendingIsInOrder
<1>. DEFINE end(k) == CutEnd(text, starts, k)
<1>5. \A k \in 1..n : s[k] \in starts /\ s[k] \in 1..Len(text)
  BY <1>2, <1>4
<1>6. n # 0 /\ s[1] = 1
  <2>1. PICK k \in 1..n : s[k] = 1
    BY <1>4
  <2>2. n # 0 /\ 1 \in 1..n
    BY <1>1, <2>1
  <2>3. k = 1 \/ s[1] < s[k]
    BY <1>1, <1>4, <2>1, <2>2
  <2>4. s[1] \in 1..Len(text)
    BY <1>5, <2>2
  <2>. QED
    BY <1>2, <2>1, <2>2, <2>3, <2>4
<1>7. \A k \in 1..n : end(k) = IF k < n THEN s[k + 1] - 1 ELSE Len(text)
  BY <1>0 DEF CutEnd
<1>8. \A k \in 1..n : CutBefore(text, starts)[k] = SubSeq(text, s[k], end(k))
  <2>1. CutBefore(text, starts) =
          [k \in DOMAIN s |-> SubSeq(text, s[k], IF k < Len(s) THEN s[k + 1] - 1 ELSE Len(text))]
    BY <1>0 DEF CutBefore
  <2>. HIDE DEF end
  <2>. QED
    BY <1>4, <1>7, <2>1
<1>. HIDE DEF end
<1>9. ASSUME NEW k \in 1..n
      PROVE  end(k) \in s[k]..Len(text) /\ \A m \in (s[k] + 1)..end(k) : m \notin starts
  <2>0. s[k] \in 1..Len(text) /\ end(k) = IF k < n THEN s[k + 1] - 1 ELSE Len(text)
    BY <1>5, <1>7
  <2>1. CASE k < n
    <3>1. k + 1 \in 1..n /\ k < k + 1
      BY <1>1, <2>1
    <3>2. s[k] < s[k + 1] /\ s[k + 1] \in 1..Len(text)
      BY <1>4, <1>5, <3>1
    <3>3. end(k) = s[k + 1] - 1
      BY <2>0, <2>1
    <3>4. end(k) \in s[k]..Len(text)
      BY <1>2, <2>0, <3>2, <3>3
    <3>5. ASSUME NEW m \in (s[k] + 1)..end(k), m \in starts
          PROVE  FALSE
      <4>1. PICK j \in 1..n : s[j] = m
        BY <1>4, <3>5
      <4>2. s[k] < s[j] /\ s[j] < s[k + 1]
        BY <2>0, <3>2, <3>3, <4>1
      <4>3. k < j
        <5>1. j < k \/ j = k \/ k < j
          BY <1>1
        <5>2. j < k => s[j] < s[k]
          BY <1>4
        <5>3. s[j] \in Nat /\ s[k] \in Nat
          BY <1>5, <2>0
        <5>. QED
          BY <4>2, <5>1, <5>2, <5>3
      <4>4. k + 1 < j \/ j = k + 1
        BY <1>1, <4>3
      <4>5. k + 1 < j => s[k + 1] < s[j]
        BY <1>4, <3>1
      <4>6. s[j] \in Nat /\ s[k + 1] \in Nat
        BY <1>5, <3>2
      <4>. QED
        BY <4>2, <4>4, <4>5, <4>6
    <3>. QED
      BY <3>4, <3>5
  <2>2. CASE ~(k < n)
    <3>1. end(k) = Len(text) /\ k = n
      BY <1>1, <2>0, <2>2
    <3>2. ASSUME NEW m \in (s[k] + 1)..end(k), m \in starts
          PROVE  FALSE
      <4>1. PICK j \in 1..n : s[j] = m
        BY <1>4, <3>2
      <4>2. s[k] < s[j]
        BY <1>2, <2>0, <3>1, <4>1
      <4>3. j < k \/ j = k
        BY <1>1, <3>1
      <4>4. j < k => s[j] < s[k]
        BY <1>4
      <4>5. s[j] \in Nat /\ s[k] \in Nat
        BY <1>5, <2>0
      <4>. QED
        BY <4>2, <4>3, <4>4, <4>5
    <3>. QED
      BY <1>2, <2>0, <3>1, <3>2
  <2>. QED
    BY <2>1, <2>2
<1>10. (\A k \in 1..(n - 1) : end(k) = s[k + 1] - 1) /\ end(n) = Len(text)
  BY <1>1, <1>6, <1>7
<1>. QED
  BY <1>1, <1>5, <1>6, <1>8, <1>9, <1>10 DEF AreCuts, end, s, n

\* Cutting loses nothing.
LEMMA CutIsWhole ==
  ASSUME NEW E, NEW text \in Seq(E), NEW starts \in SUBSET DOMAIN text, 1 \in starts
  PROVE  FlattenSeq(CutBefore(text, starts)) = text
<1>. DEFINE cut == CutBefore(text, starts)
            s == Ascending(starts)
            n == Cardinality(starts)
            end(k) == CutEnd(text, starts, k)
<1>1. /\ cut \in Seq(Seq(E)) /\ Len(cut) = n
      /\ n \in Nat \ {0} /\ s[1] = 1
      /\ \A k \in 1..n : /\ s[k] \in 1..Len(text)
                         /\ end(k) \in s[k]..Len(text)
                         /\ cut[k] = SubSeq(text, s[k], end(k))
      /\ \A k \in 1..(n - 1) : end(k) = s[k + 1] - 1
      /\ end(n) = Len(text)
  <2>1. AreCuts(E, text, starts)
    BY CutFacts
  <2>. QED
    BY <2>1 DEF AreCuts
<1>2. PICK flat \in [1..Len(cut) -> Seq(E)] :
        /\ \A i \in 1..Len(cut) : flat[i] = IF i = 1 THEN cut[i] ELSE flat[i - 1] \o cut[i]
        /\ FlattenSeq(cut) = IF Len(cut) = 0 THEN cut ELSE flat[Len(cut)]
  BY <1>1, FlattenPrefixes
<1>. HIDE DEF cut, s, n, end
<1>3. /\ \A i \in 1..n : flat[i] = IF i = 1 THEN cut[i] ELSE flat[i - 1] \o cut[i]
      /\ FlattenSeq(cut) = flat[n]
  BY <1>1, <1>2
<1>. DEFINE A == {k \in Nat : k + 1 <= n => flat[k + 1] = SubSeq(text, 1, end(k + 1))}
<1>4. 0 \in A
  <2>1. 1 \in 1..n
    BY <1>1
  <2>2. flat[1] = SubSeq(text, 1, end(1))
    BY <1>1, <1>3, <2>1
  <2>. QED
    BY <2>2
<1>5. ASSUME NEW k \in Nat, k \in A
      PROVE  k + 1 \in A
  <2>1. SUFFICES ASSUME (k + 1) + 1 <= n
                 PROVE  flat[(k + 1) + 1] = SubSeq(text, 1, end((k + 1) + 1))
    OBVIOUS
  <2>. DEFINE j == k + 1
              i == j + 1
  <2>2. /\ j \in 1..n /\ j \in 1..(n - 1) /\ i \in 1..n /\ i # 1 /\ i - 1 = j /\ j <= n
    BY <1>1, <2>1
  <2>3. flat[j] = SubSeq(text, 1, end(j))
    BY <1>5, <2>2
  <2>. HIDE DEF j
  <2>4. end(j) = s[i] - 1 /\ s[i] \in 1..Len(text) /\ end(i) \in s[i]..Len(text)
        /\ cut[i] = SubSeq(text, s[i], end(i)) /\ Len(text) \in Nat
    <3>1. end(j) = s[j + 1] - 1
      BY <1>1, <2>2
    <3>2. Len(text) \in Nat
      OBVIOUS
    <3>. QED
      BY <1>1, <2>2, <3>1, <3>2 DEF i
  <2>. HIDE DEF i
  <2>5. flat[i] = SubSeq(text, 1, end(j)) \o SubSeq(text, end(j) + 1, end(i))
    <3>1. flat[i] = flat[j] \o cut[i]
      BY <1>3, <2>2
    <3>2. end(j) + 1 = s[i]
      BY <2>4
    <3>. QED
      BY <2>3, <2>4, <3>1, <3>2
  <2>6. 1 \in 1..(Len(text) + 1) /\ end(j) \in (1 - 1)..Len(text) /\ end(i) \in end(j)..Len(text)
    BY <2>4
  <2>7. flat[i] = SubSeq(text, 1, end(i))
    BY <2>5, <2>6, ConcatAdjacentSubSeq
  <2>. QED
    BY <2>7 DEF i, j
<1>6. flat[n] = SubSeq(text, 1, end(n))
  <2>1. n - 1 \in A
    <3>1. n - 1 \in Nat
      BY <1>1
    <3>. HIDE DEF A
    <3>. QED
      BY <1>4, <1>5, <3>1, NumberInduction
  <2>2. (n - 1) + 1 = n
    BY <1>1
  <2>. QED
    BY <1>1, <2>1, <2>2
<1>7. SubSeq(text, 1, Len(text)) = text
  BY SubSeqFull
<1>8. FlattenSeq(cut) = text
  BY <1>1, <1>3, <1>6, <1>7
<1>. QED
  BY <1>8 DEF cut

\* A sentence that something follows: it ends at its only stop.
Closed(sentence) ==
  /\ sentence \in Texts
  /\ sentence[Len(sentence)].stop
  /\ \A m \in 1..(Len(sentence) - 1) : ~sentence[m].stop

\* Where sentences begin.
Starts(text) == {k \in DOMAIN text : k = 1 \/ text[k - 1].stop}

\* Sentences begin at the start and after a stop.
LEMMA StartsOfText ==
  ASSUME NEW text \in Texts
  PROVE  /\ text \in Seq(Piece) /\ Len(text) \in Nat \ {0} /\ DOMAIN text = 1..Len(text)
         /\ Starts(text) \in SUBSET DOMAIN text /\ 1 \in Starts(text)
         /\ \A m \in 1..(Len(text) - 1) : m + 1 \in Starts(text) <=> text[m].stop
         /\ Sentences(text) = CutBefore(text, Starts(text))
<1>1. text \in Seq(Piece) /\ text # <<>>
  BY DEF Texts
<1>2. Len(text) \in Nat \ {0} /\ DOMAIN text = 1..Len(text)
  BY <1>1, EmptySeq
<1>3. \A m \in 1..(Len(text) - 1) : m + 1 \in DOMAIN text /\ m + 1 # 1 /\ (m + 1) - 1 = m
  BY <1>2
<1>4. 1 \in DOMAIN text
  BY <1>2
<1>. QED
  BY <1>1, <1>2, <1>3, <1>4 DEF Starts, Sentences

\* The sentences of a text are the text.
LEMMA SentencesAreWhole ==
  ASSUME NEW text \in Texts
  PROVE  FlattenSeq(Sentences(text)) = text
BY StartsOfText, CutIsWhole

\* Only the last sentence may lack its stop.
LEMMA SentencesAreClosed ==
  ASSUME NEW text \in Texts
  PROVE  \A k \in 1..(Len(Sentences(text)) - 1) : Closed(Sentences(text)[k])
<1>. DEFINE cut == Sentences(text)
            starts == Starts(text)
            s == Ascending(starts)
            n == Cardinality(starts)
            end(k) == CutEnd(text, starts, k)
<1>1. /\ text \in Seq(Piece) /\ Len(text) \in Nat \ {0}
      /\ starts \in SUBSET DOMAIN text /\ 1 \in starts
      /\ \A m \in 1..(Len(text) - 1) : m + 1 \in starts <=> text[m].stop
      /\ cut = CutBefore(text, starts)
  BY StartsOfText
<1>. HIDE DEF cut, starts
<1>2. /\ cut \in Seq(Seq(Piece)) /\ Len(cut) = n
      /\ n \in Nat \ {0}
      /\ \A k \in 1..n : /\ s[k] \in starts /\ s[k] \in 1..Len(text)
                         /\ end(k) \in s[k]..Len(text)
                         /\ cut[k] = SubSeq(text, s[k], end(k))
                         /\ \A m \in (s[k] + 1)..end(k) : m \notin starts
      /\ \A k \in 1..(n - 1) : end(k) = s[k + 1] - 1
  <2>1. AreCuts(Piece, text, starts)
    BY <1>1, CutFacts
  <2>2. cut = CutBefore(text, starts)
    BY <1>1
  <2>. QED
    BY <2>1, <2>2 DEF AreCuts
<1>. HIDE DEF s, n, end
<1>. SUFFICES ASSUME NEW k \in 1..(n - 1)
              PROVE  Closed(cut[k])
  BY <1>2 DEF cut
<1>. DEFINE a == s[k]
            b == end(k)
<1>3. /\ k \in 1..n /\ k + 1 \in 1..n
  BY <1>2
<1>4. /\ a \in 1..Len(text) /\ b \in a..Len(text) /\ cut[k] = SubSeq(text, a, b)
      /\ \A m \in (a + 1)..b : m \notin starts
  BY <1>2, <1>3
<1>5. b + 1 \in starts /\ b + 1 \in 1..Len(text)
  <2>1. b = s[k + 1] - 1 /\ s[k + 1] \in starts /\ s[k + 1] \in 1..Len(text)
    BY <1>2, <1>3
  <2>. QED
    BY <1>1, <2>1
<1>. HIDE DEF a, b
<1>. DEFINE c == SubSeq(text, a, b)
<1>6. /\ c \in Seq(Piece) /\ Len(c) = b - a + 1 /\ \A i \in 1..(b - a + 1) : c[i] = text[a + i - 1]
  <2>1. \A i \in a..b : text[i] \in Piece
    BY <1>1, <1>4
  <2>2. a \in Int /\ b \in Int /\ a <= b
    BY <1>4
  <2>. QED
    BY <2>1, <2>2, SubSeqProperties
<1>. HIDE DEF c
<1>7. c \in Texts
  <2>1. Len(c) # 0
    BY <1>4, <1>6
  <2>. QED
    BY <1>6, <2>1, EmptySeq DEF Texts
<1>8. c[Len(c)].stop
  <2>1. Len(c) \in 1..(b - a + 1) /\ a + Len(c) - 1 = b
    BY <1>4, <1>6
  <2>2. b \in 1..(Len(text) - 1)
    BY <1>1, <1>4, <1>5
  <2>3. c[Len(c)] = text[b]
    BY <1>6, <2>1
  <2>. QED
    BY <1>1, <1>5, <2>2, <2>3
<1>9. ASSUME NEW m \in 1..(Len(c) - 1)
      PROVE  ~c[m].stop
  <2>. DEFINE i == a + m - 1
  <2>1. m \in 1..(b - a + 1) /\ i \in 1..(Len(text) - 1) /\ i + 1 \in (a + 1)..b
    BY <1>4, <1>6
  <2>2. c[m] = text[i]
    BY <1>6, <2>1
  <2>. HIDE DEF i
  <2>. QED
    BY <1>1, <1>4, <2>1, <2>2
<1>. QED
  BY <1>4, <1>7, <1>8, <1>9 DEF Closed, c

\* The first sentence of a text that begins with one, and what follows it.
LEMMA FirstSentence ==
  ASSUME NEW c, Closed(c), NEW r \in Texts
  PROVE  FlattenSeq(Tail(Sentences(c \o r))) = r
<1>. DEFINE text == c \o r
            cut == Sentences(text)
            starts == Starts(text)
            s == Ascending(starts)
            n == Cardinality(starts)
            end(k) == CutEnd(text, starts, k)
<1>1. c \in Seq(Piece) /\ Len(c) \in Nat \ {0} /\ r \in Seq(Piece) /\ Len(r) \in Nat \ {0}
  BY EmptySeq DEF Closed, Texts
<1>2. /\ text \in Seq(Piece) /\ Len(text) = Len(c) + Len(r)
      /\ \A i \in 1..(Len(c) + Len(r)) : text[i] = IF i <= Len(c) THEN c[i] ELSE r[i - Len(c)]
  BY <1>1, ConcatProperties
<1>. HIDE DEF text
<1>3. text \in Texts
  <2>1. Len(text) # 0
    BY <1>1, <1>2
  <2>. QED
    BY <1>2, <2>1, EmptySeq DEF Texts
<1>4. /\ starts \in SUBSET DOMAIN text /\ 1 \in starts
      /\ \A m \in 1..(Len(text) - 1) : m + 1 \in starts <=> text[m].stop
      /\ cut = CutBefore(text, starts)
  BY <1>3, StartsOfText
<1>5. \A m \in 2..(Len(c) + 1) : m \in starts <=> m = Len(c) + 1
  <2>. SUFFICES ASSUME NEW m \in 2..(Len(c) + 1)
                PROVE  m \in starts <=> m = Len(c) + 1
    OBVIOUS
  <2>. DEFINE i == m - 1
  <2>1. i \in 1..Len(c) /\ i \in 1..(Len(text) - 1) /\ i + 1 = m
    BY <1>1, <1>2
  <2>2. m \in starts <=> text[i].stop
    <3>. HIDE DEF i, starts
    <3>. QED
      BY <1>4, <2>1
  <2>3. text[i] = c[i]
    <3>. HIDE DEF i
    <3>1. i \in 1..(Len(c) + Len(r)) /\ i <= Len(c)
      BY <1>1, <2>1
    <3>. QED
      BY <1>2, <3>1
  <2>4. c[i].stop <=> i = Len(c)
    <3>1. i = Len(c) \/ i \in 1..(Len(c) - 1)
      BY <1>1, <2>1
    <3>. HIDE DEF i
    <3>. QED
      BY <3>1 DEF Closed
  <2>5. i = Len(c) <=> m = Len(c) + 1
    BY <1>1
  <2>. QED
    BY <2>2, <2>3, <2>4, <2>5
<1>. HIDE DEF cut, starts
<1>6. /\ cut \in Seq(Seq(Piece)) /\ Len(cut) = n
      /\ n \in Nat \ {0} /\ s[1] = 1
      /\ \A k \in 1..n : /\ s[k] \in starts /\ s[k] \in 1..Len(text)
                         /\ end(k) \in s[k]..Len(text)
                         /\ cut[k] = SubSeq(text, s[k], end(k))
                         /\ \A m \in (s[k] + 1)..end(k) : m \notin starts
      /\ \A k \in 1..(n - 1) : end(k) = s[k + 1] - 1
      /\ end(n) = Len(text)
  <2>1. AreCuts(Piece, text, starts)
    <3>1. text \in Seq(Piece) /\ starts \in SUBSET DOMAIN text /\ 1 \in starts
      BY <1>2, <1>4
    <3>. QED
      BY <3>1, CutFacts
  <2>2. cut = CutBefore(text, starts)
    BY <1>4
  <2>. QED
    BY <2>1, <2>2 DEF AreCuts
<1>. HIDE DEF s, n, end
<1>7. end(1) = Len(c)
  <2>1. 1 \in 1..n
    BY <1>6
  <2>2. end(1) \in 1..Len(text) /\ \A m \in 2..end(1) : m \notin starts
    BY <1>6, <2>1
  <2>3. end(1) <= Len(c)
    <3>1. Len(c) + 1 \in starts
      BY <1>1, <1>5
    <3>2. Len(c) + 1 \notin 2..end(1)
      BY <2>2, <3>1
    <3>. QED
      BY <1>1, <1>2, <2>2, <3>2
  <2>4. n # 1
    BY <1>1, <1>2, <1>6, <2>3
  <2>5. 1 \in 1..(n - 1) /\ 2 \in 1..n
    BY <1>6, <2>4
  <2>6. end(1) = s[2] - 1 /\ s[2] \in starts /\ s[2] \in 1..Len(text)
    <3>1. 1 + 1 = 2
      OBVIOUS
    <3>. QED
      BY <1>6, <2>5, <3>1
  <2>7. s[2] \in 2..(Len(c) + 1)
    BY <1>1, <1>2, <2>2, <2>3, <2>6
  <2>. QED
    BY <1>1, <1>5, <2>6, <2>7
<1>8. cut # <<>> /\ Head(cut) = c
  <2>1. 1 \in 1..n
    BY <1>6
  <2>2. cut[1] = SubSeq(text, 1, Len(c))
    BY <1>6, <1>7, <2>1
  <2>3. SubSeq(text, 1, Len(c)) = c
    <3>1. 1 \in 1..Len(c) /\ Len(c) \in 1..Len(c)
      BY <1>1
    <3>2. SubSeq(c \o r, 1, Len(c)) = SubSeq(c, 1, Len(c))
      BY <1>1, <3>1, SubSeqOfConcat1
    <3>3. SubSeq(c, 1, Len(c)) = c
      BY <1>1, SubSeqFull
    <3>. QED
      BY <3>2, <3>3 DEF text
  <2>4. cut # <<>>
    BY <1>6
  <2>5. Head(cut) = cut[1]
    BY <1>6, <2>4
  <2>. QED
    BY <2>2, <2>3, <2>4, <2>5
<1>9. FlattenSeq(cut) = c \o FlattenSeq(Tail(cut)) /\ Tail(cut) \in Seq(Seq(Piece))
  BY <1>6, <1>8, FlattenFromHead
<1>10. FlattenSeq(cut) = c \o r
  BY <1>3, SentencesAreWhole DEF cut, text
<1>11. FlattenSeq(Tail(cut)) \in Seq(Piece)
  BY <1>9, FlattenIsSeq
<1>12. FlattenSeq(Tail(cut)) = r
  <2>1. \A x, y \in Seq(Piece) : c \o x = c \o y => x = y
    BY <1>1, CancelLeft
  <2>. QED
    BY <1>1, <1>9, <1>10, <1>11, <2>1
<1>. QED
  BY <1>12 DEF cut, text

\* Merged of the empty sequence, and with one more element.
LEMMA MergedFacts ==
  /\ Merged(<<>>) = [done |-> <<>>, pending |-> <<>>]
  /\ \A s \in Seq(Texts), text \in Texts :
       /\ Merged(s) \in Merges
       /\ Merged(Append(s, text)) = MergeStep(Merged(s), text)
<1>. DEFINE step == [p \in Merges \X Texts |-> MergeStep(p[1], p[2])]
            base == [done |-> <<>>, pending |-> <<>>]
<1>1. step \in StepOf(Merges, Texts) /\ base \in Merges
  BY MergeStepIsTyped, NothingMerged DEF StepOf
<1>2. \A x \in Merges, text \in Texts : step[<<x, text>>] = MergeStep(x, text)
  OBVIOUS
<1>3. \A s \in Seq(Texts) : Merged(s) = Folded(step, base, s)
  BY MergedIsAFold
<1>. HIDE DEF step, base
<1>4. GoesByElement(step, base, Merges, Texts)
  BY <1>1, FoldGoesByElement
<1>5. Merged(<<>>) = base
  <2>1. <<>> \in Seq(Texts)
    OBVIOUS
  <2>. QED
    BY <1>3, <1>4, <2>1 DEF GoesByElement
<1>6. ASSUME NEW s \in Seq(Texts), NEW text \in Texts
      PROVE  /\ Merged(s) \in Merges
             /\ Merged(Append(s, text)) = MergeStep(Merged(s), text)
  <2>1. Append(s, text) \in Seq(Texts)
    OBVIOUS
  <2>2. Merged(s) \in Merges /\ Merged(Append(s, text)) = step[<<Merged(s), text>>]
    BY <1>3, <1>4, <2>1 DEF GoesByElement
  <2>. QED
    BY <1>2, <2>2
<1>. QED
  BY <1>5, <1>6 DEF base

\* Texts that are not blank are texts.
LEMMA TextsAreSeqs == Seq(Texts) \subseteq Seq(Seq(Piece)) /\ Texts \subseteq Seq(Piece)
<1>1. Texts \subseteq Seq(Piece)
  BY DEF Texts
<1>. QED
  BY <1>1, SeqMonotonic

\* What waits follows what is done.
LEMMA MergedIsWhole ==
  ASSUME NEW texts \in Seq(Texts)
  PROVE  FlattenSeq(Merged(texts).done) \o Merged(texts).pending = FlattenSeq(texts)
<1>. DEFINE Whole(s) == FlattenSeq(Merged(s).done) \o Merged(s).pending = FlattenSeq(s)
            A == {s \in Seq(Texts) : Whole(s)}
<1>1. <<>> \in A
  <2>1. <<>> \o <<>> = <<>> /\ <<>> \in Seq(Texts)
    BY ConcatEmptySeq
  <2>2. Merged(<<>>).done = <<>> /\ Merged(<<>>).pending = <<>>
    BY MergedFacts
  <2>3. Whole(<<>>)
    BY <2>1, <2>2, FlattenNothing
  <2>. QED
    BY <2>1, <2>3
<1>2. ASSUME NEW s \in Seq(Texts), NEW text \in Texts, s \in A
      PROVE  Append(s, text) \in A
  <2>. DEFINE m == Merged(s)
              r == Merged(Append(s, text))
              block == m.pending \o text
  <2>1. m \in Merges /\ r = MergeStep(m, text) /\ Append(s, text) \in Seq(Texts)
    BY MergedFacts, AppendProperties
  <2>2. FlattenSeq(m.done) \o m.pending = FlattenSeq(s)
    BY <1>2
  <2>. HIDE DEF m, r
  <2>3. m.done \in Seq(Seq(Piece)) /\ m.pending \in Seq(Piece) /\ text \in Seq(Piece) /\ s \in Seq(Seq(Piece))
    BY <2>1, TextsAreSeqs DEF Merges
  <2>4. block \in Seq(Piece) /\ FlattenSeq(m.done) \in Seq(Piece)
    BY <2>3, ConcatProperties, FlattenIsSeq
  <2>5. FlattenSeq(m.done) \o block = FlattenSeq(Append(s, text))
    <3>1. FlattenSeq(Append(s, text)) = FlattenSeq(s) \o text
      BY <2>3, FlattenByPart
    <3>2. (FlattenSeq(m.done) \o m.pending) \o text = FlattenSeq(m.done) \o (m.pending \o text)
      <4>1. \A x, y, z \in Seq(Piece) : (x \o y) \o z = x \o (y \o z)
        BY ConcatAssociative, SMTT(20)
      <4>. QED
        BY <2>3, <2>4, <4>1
    <3>. QED
      BY <2>2, <3>1, <3>2
  <2>6. r = IF Words(block) < MinWords THEN [m EXCEPT !.pending = block]
            ELSE [done |-> Append(m.done, block), pending |-> <<>>]
    BY <2>1 DEF MergeStep
  <2>. HIDE DEF block
  <2>7. FlattenSeq(r.done) \o r.pending = FlattenSeq(m.done) \o block
    <3>1. CASE Words(block) < MinWords
      <4>1. r.done = m.done /\ r.pending = block
        BY <2>1, <2>6, <3>1 DEF Merges
      <4>. QED
        BY <4>1
    <3>2. CASE ~(Words(block) < MinWords)
      <4>1. r.done = Append(m.done, block) /\ r.pending = <<>>
        BY <2>6, <3>2
      <4>2. FlattenSeq(r.done) = FlattenSeq(m.done) \o block
        BY <2>3, <2>4, <4>1, FlattenByPart
      <4>3. FlattenSeq(m.done) \o block \in Seq(Piece)
        BY <2>4, ConcatProperties
      <4>4. (FlattenSeq(m.done) \o block) \o <<>> = FlattenSeq(m.done) \o block
        BY <4>3, ConcatEmptySeq
      <4>. QED
        BY <4>1, <4>2, <4>4
    <3>. QED
      BY <3>1, <3>2
  <2>8. Whole(Append(s, text))
    BY <2>5, <2>7 DEF r
  <2>. HIDE DEF Whole
  <2>. QED
    BY <2>1, <2>8
<1>3. Seq(Texts) \subseteq A
  <2>. HIDE DEF A
  <2>. QED
    BY <1>1, <1>2, SequenceInduction
<1>. QED
  BY <1>3

\* Merging loses nothing.
LEMMA MergeIsWhole ==
  ASSUME NEW texts \in Seq(Texts)
  PROVE  FlattenSeq(Merge(texts)) = FlattenSeq(texts)
<1>. DEFINE m == Merged(texts)
<1>1. /\ m.done \in Seq(Seq(Piece)) /\ m.pending \in Seq(Piece) /\ FlattenSeq(m.done) \in Seq(Piece)
      /\ FlattenSeq(m.done) \o m.pending = FlattenSeq(texts)
  <2>1. m \in Merges
    <3>1. \A t \in Texts : m \in Merges
      BY MergedFacts
    <3>2. Texts # {} \/ texts = <<>>
      OBVIOUS
    <3>3. m = [done |-> <<>>, pending |-> <<>>] \/ m \in Merges
      BY <3>1, <3>2, MergedFacts
    <3>. QED
      BY <3>3, NothingMerged
  <2>2. m.done \in Seq(Seq(Piece)) /\ m.pending \in Seq(Piece)
    <3>. HIDE DEF m
    <3>. QED
      BY <2>1, TextsAreSeqs DEF Merges
  <2>3. FlattenSeq(m.done) \o m.pending = FlattenSeq(texts)
    BY MergedIsWhole
  <2>. HIDE DEF m
  <2>. QED
    BY <2>2, <2>3, FlattenIsSeq
<1>2. Merge(texts) = IF m.pending = <<>> THEN m.done
                     ELSE IF m.done = <<>> THEN <<m.pending>>
                     ELSE [m.done EXCEPT ![Len(m.done)] = @ \o m.pending]
  BY DEF Merge, Merged
<1>. HIDE DEF m
<1>3. CASE m.pending = <<>>
  <2>1. FlattenSeq(m.done) \o <<>> = FlattenSeq(m.done)
    BY <1>1, ConcatEmptySeq
  <2>. QED
    BY <1>1, <1>2, <1>3, <2>1
<1>4. CASE m.pending # <<>> /\ m.done = <<>>
  <2>1. FlattenSeq(<<m.pending>>) = m.pending
    BY <1>1, FlattenOne
  <2>2. <<>> \o m.pending = m.pending
    BY <1>1, ConcatEmptySeq
  <2>. QED
    BY <1>1, <1>2, <1>4, <2>1, <2>2, FlattenNothing
<1>5. CASE m.pending # <<>> /\ m.done # <<>>
  <2>. DEFINE d == m.done
              f == Front(d)
              l == Last(d)
              n == Len(d)
              e == [d EXCEPT ![n] = @ \o m.pending]
              a == Append(f, l \o m.pending)
  <2>1. /\ f \in Seq(Seq(Piece)) /\ l \in Seq(Piece) /\ d = Append(f, l) /\ n \in Nat \ {0}
        /\ Len(f) = n - 1 /\ \A k \in 1..(n - 1) : f[k] = d[k]
        /\ l = d[n]
    BY <1>1, <1>5, FrontAndLast
  <2>2. l \o m.pending \in Seq(Piece)
    BY <1>1, <2>1, ConcatProperties
  <2>3. e = a
    <3>. HIDE DEF f, l
    <3>0. d \in Seq(Seq(Piece)) /\ n \in 1..n /\ Len(d) = n
      BY <1>1, <2>1
    <3>. HIDE DEF d, n
    <3>1. e = [d EXCEPT ![n] = l \o m.pending]
      BY <2>1
    <3>2. /\ e \in Seq(Seq(Piece)) /\ Len(e) = n
          /\ \A j \in 1..n : e[j] = IF j = n THEN l \o m.pending ELSE d[j]
      <4>. DEFINE x == l \o m.pending
      <4>0. x \in Seq(Piece)
        BY <2>2
      <4>. HIDE DEF x
      <4>1. n \in 1..Len(d)
        BY <3>0
      <4>2. /\ [d EXCEPT ![n] = x] \in Seq(Seq(Piece)) /\ Len([d EXCEPT ![n] = x]) = Len(d)
            /\ \A j \in 1..Len(d) : [d EXCEPT ![n] = x][j] = IF j = n THEN x ELSE d[j]
        BY <3>0, <4>0, <4>1, ExceptSeq
      <4>3. e = [d EXCEPT ![n] = x]
        BY <3>1 DEF x
      <4>. HIDE DEF e
      <4>. QED
        BY <3>0, <4>2, <4>3 DEF x
    <3>3. /\ a \in Seq(Seq(Piece)) /\ Len(a) = n
          /\ \A j \in 1..(n - 1) : a[j] = f[j]
          /\ a[n] = l \o m.pending
      <4>. DEFINE x == l \o m.pending
      <4>0. x \in Seq(Piece) /\ a = Append(f, x)
        BY <2>2
      <4>. HIDE DEF x, a
      <4>1. (n - 1) + 1 = n
        BY <2>1
      <4>2. /\ Append(f, x) \in Seq(Seq(Piece)) /\ Len(Append(f, x)) = Len(f) + 1
            /\ \A j \in 1..Len(f) : Append(f, x)[j] = f[j]
            /\ Append(f, x)[Len(f) + 1] = x
        BY <2>1, <4>0, AppendProperties
      <4>. QED
        BY <2>1, <4>0, <4>1, <4>2 DEF x
    <3>. HIDE DEF e, a
    <3>4. ASSUME NEW j \in 1..n
          PROVE  e[j] = a[j]
      <4>1. j = n \/ j \in 1..(n - 1)
        BY <2>1
      <4>2. CASE j = n
        BY <3>2, <3>3, <4>2
      <4>3. CASE j # n
        BY <2>1, <3>2, <3>3, <4>1, <4>3
      <4>. QED
        BY <4>2, <4>3
    <3>. QED
      BY <3>2, <3>3, <3>4, SeqEqual
  <2>4. FlattenSeq(a) = FlattenSeq(f) \o (l \o m.pending)
    BY <2>1, <2>2, FlattenByPart
  <2>5. FlattenSeq(d) = FlattenSeq(f) \o l /\ FlattenSeq(f) \in Seq(Piece)
    BY <2>1, FlattenByPart
  <2>6. (FlattenSeq(f) \o l) \o m.pending = FlattenSeq(f) \o (l \o m.pending)
    <3>1. \A x, y, z \in Seq(Piece) : (x \o y) \o z = x \o (y \o z)
      BY ConcatAssociative, SMTT(20)
    <3>. QED
      BY <1>1, <2>1, <2>5, <3>1
  <2>7. Merge(texts) = e
    BY <1>2, <1>5
  <2>. HIDE DEF e, a, f, l
  <2>. QED
    BY <1>1, <2>3, <2>4, <2>5, <2>6, <2>7
<1>. QED
  BY <1>3, <1>4, <1>5

-----------------------------------------------------------------------------
(* What each part adds.                                                    *)

\* A part: some sentences, none blank.
Part == Seq(Texts) \ {<<>>}

\* Parts of which every later one repeats a whole sentence and adds to it.
Sharing ==
  {parts \in Seq(Part) \ {<<>>} :
     \A k \in DOMAIN parts : k > 1 => Len(parts[k]) >= 2 /\ Closed(Head(parts[k]))}

\* What part k adds.
OwnOf(k, part) == FlattenSeq(IF k = 1 THEN part ELSE Tail(part))

\* What each part adds.
Own(parts) == [k \in DOMAIN parts |-> OwnOf(k, parts[k])]

\* Sharing parts are parts of some kind.
LEMMA SharingIsParting == Sharing \subseteq Partings
<1>1. Part \subseteq Seq(Seq(Piece)) \ {<<>>}
  BY TextsAreSeqs DEF Part
<1>2. Seq(Part) \subseteq Seq(Seq(Seq(Piece)) \ {<<>>})
  BY <1>1, SeqMonotonic
<1>. QED
  BY <1>2 DEF Sharing, Partings

\* What parts add, one part after the other.
LEMMA OwnIsSeq ==
  ASSUME NEW parts \in Seq(Part)
  PROVE  /\ Own(parts) \in Seq(Seq(Piece))
         /\ Len(parts) \in Nat /\ DOMAIN parts = 1..Len(parts) /\ Len(Own(parts)) = Len(parts)
         /\ \A part \in Part : Own(Append(parts, part)) = Append(Own(parts), OwnOf(Len(parts) + 1, part))
         /\ \A part \in Part, k \in Nat : OwnOf(k, part) \in Seq(Piece)
<1>1. \A part \in Part, k \in Nat : OwnOf(k, part) \in Seq(Piece)
  <2>. SUFFICES ASSUME NEW part \in Part, NEW k \in Nat
                PROVE  OwnOf(k, part) \in Seq(Piece)
    OBVIOUS
  <2>1. part \in Seq(Seq(Piece)) /\ part # <<>>
    BY TextsAreSeqs DEF Part
  <2>2. Tail(part) \in Seq(Seq(Piece))
    BY <2>1, HeadTailProperties
  <2>. QED
    BY <2>1, <2>2, FlattenIsSeq DEF OwnOf
<1>2. Len(parts) \in Nat /\ DOMAIN parts = 1..Len(parts) /\ \A k \in 1..Len(parts) : parts[k] \in Part
  OBVIOUS
<1>3. Own(parts) \in [1..Len(parts) -> Seq(Piece)]
  BY <1>1, <1>2 DEF Own
<1>4. Own(parts) \in Seq(Seq(Piece)) /\ Len(Own(parts)) = Len(parts)
  BY <1>2, <1>3, SeqDef, LenProperties
<1>5. ASSUME NEW part \in Part
      PROVE  Own(Append(parts, part)) = Append(Own(parts), OwnOf(Len(parts) + 1, part))
  <2>. DEFINE ps == Append(parts, part)
              n == Len(parts)
              x == OwnOf(n + 1, part)
  <2>1. /\ ps \in Seq(Part) /\ Len(ps) = n + 1 /\ DOMAIN ps = 1..(n + 1) /\ ps[n + 1] = part
        /\ \A k \in 1..n : ps[k] = parts[k]
    BY AppendProperties
  <2>2. x \in Seq(Piece)
    BY <1>1, <1>2
  <2>. DEFINE a == Own(ps)
              b == Append(Own(parts), x)
  <2>3. /\ b \in Seq(Seq(Piece)) /\ Len(b) = n + 1 /\ b[n + 1] = x /\ \A k \in 1..n : b[k] = Own(parts)[k]
    <3>. HIDE DEF x
    <3>. DEFINE o == Own(parts)
    <3>0. o \in Seq(Seq(Piece)) /\ Len(o) = n
      BY <1>4
    <3>. HIDE DEF o
    <3>1. /\ Append(o, x) \in Seq(Seq(Piece)) /\ Len(Append(o, x)) = Len(o) + 1
          /\ Append(o, x)[Len(o) + 1] = x /\ \A k \in 1..Len(o) : Append(o, x)[k] = o[k]
      <4>1. \A q \in Seq(Seq(Piece)), y \in Seq(Piece) :
              /\ Append(q, y) \in Seq(Seq(Piece)) /\ Len(Append(q, y)) = Len(q) + 1
              /\ Append(q, y)[Len(q) + 1] = y /\ \A k \in 1..Len(q) : Append(q, y)[k] = q[k]
        BY AppendProperties
      <4>. QED
        BY <2>2, <3>0, <4>1
    <3>. QED
      BY <3>0, <3>1 DEF o
  <2>. HIDE DEF ps, b
  <2>4. /\ a \in Seq(Seq(Piece)) /\ Len(a) = n + 1
        /\ \A k \in 1..(n + 1) : a[k] = OwnOf(k, ps[k])
    <3>1. \A k \in 1..(n + 1) : ps[k] \in Part /\ k \in Nat
      BY <2>1
    <3>2. a \in [1..(n + 1) -> Seq(Piece)] /\ \A k \in 1..(n + 1) : a[k] = OwnOf(k, ps[k])
      BY <1>1, <2>1, <3>1 DEF Own
    <3>3. n + 1 \in Nat
      BY <1>2
    <3>. HIDE DEF a, n
    <3>. QED
      BY <3>2, <3>3, SeqDef, LenProperties
  <2>. HIDE DEF a, x
  <2>5. ASSUME NEW k \in 1..(n + 1)
        PROVE  a[k] = b[k]
    <3>1. CASE k = n + 1
      BY <2>1, <2>3, <2>4, <3>1 DEF x
    <3>2. CASE k # n + 1
      <4>1. k \in 1..n
        BY <1>2, <3>2
      <4>2. a[k] = OwnOf(k, parts[k])
        BY <2>1, <2>4, <4>1
      <4>3. Own(parts)[k] = OwnOf(k, parts[k])
        BY <1>2, <4>1 DEF Own
      <4>. QED
        BY <2>3, <4>1, <4>2, <4>3
    <3>. QED
      BY <3>1, <3>2
  <2>6. a = b
    BY <2>3, <2>4, <2>5, SeqEqual
  <2>. QED
    BY <2>6 DEF a, b, x, ps
<1>. QED
  BY <1>1, <1>2, <1>4, <1>5

\* One more sentence, after one that is closed.
LEMMA SplitStepIsWhole ==
  ASSUME NEW parts \in Sharing, NEW sentence \in Texts, Closed(Last(Last(parts)))
  PROVE  /\ SplitStep(parts, sentence) \in Sharing
         /\ FlattenSeq(Own(SplitStep(parts, sentence))) = FlattenSeq(Own(parts)) \o sentence
         /\ Last(Last(SplitStep(parts, sentence))) = sentence
<1>. DEFINE current == Last(parts)
            f == Front(parts)
            n == Len(parts)
            l == Last(current)
<1>1. parts \in Seq(Part) /\ parts # <<>> /\ sentence \in Seq(Piece)
  BY TextsAreSeqs DEF Sharing
<1>2. /\ f \in Seq(Part) /\ current \in Part /\ parts = Append(f, current)
      /\ n \in Nat \ {0} /\ Len(f) = n - 1 /\ DOMAIN f = 1..(n - 1) /\ \A k \in 1..(n - 1) : f[k] = parts[k]
      /\ current = parts[n] /\ DOMAIN parts = 1..n
  <2>1. /\ f \in Seq(Part) /\ current \in Part /\ parts = Append(f, current)
        /\ n \in Nat \ {0} /\ Len(f) = n - 1 /\ DOMAIN f = 1..(n - 1)
        /\ \A k \in 1..(n - 1) : f[k] = parts[k]
        /\ current = parts[n]
    BY <1>1, FrontAndLast
  <2>2. DOMAIN parts = 1..n
    BY <1>1, LenProperties
  <2>. QED
    BY <2>1, <2>2
<1>3. current \in Seq(Texts) /\ current # <<>> /\ l \in Texts
  <2>1. current \in Seq(Texts) /\ current # <<>>
    BY <1>2 DEF Part
  <2>. HIDE DEF current
  <2>. QED
    BY <2>1, FrontAndLast
<1>4. Closed(l)
  OBVIOUS
<1>5. SplitStep(parts, sentence) =
        IF Words(FlattenSeq(current)) + Words(sentence) > MaxWords
        THEN Append(parts, <<l, sentence>>)
        ELSE Append(f, Append(current, sentence))
  BY DEF SplitStep
<1>. HIDE DEF current, f, n, l
<1>6. \A ps \in Seq(Part) : FlattenSeq(Own(ps)) \in Seq(Piece)
  BY OwnIsSeq, FlattenIsSeq
<1>7. /\ Append(parts, <<l, sentence>>) \in Sharing
      /\ FlattenSeq(Own(Append(parts, <<l, sentence>>))) = FlattenSeq(Own(parts)) \o sentence
      /\ Last(Last(Append(parts, <<l, sentence>>))) = sentence
  <2>. DEFINE new == <<l, sentence>>
              ps == Append(parts, new)
  <2>1. new \in Part /\ Len(new) = 2 /\ Head(new) = l /\ Tail(new) = <<sentence>> /\ Last(new) = sentence
    BY <1>3 DEF Part, Last
  <2>. HIDE DEF new
  <2>2. /\ ps \in Seq(Part) /\ ps # <<>> /\ Len(ps) = n + 1 /\ DOMAIN ps = 1..(n + 1) /\ ps[n + 1] = new
        /\ \A k \in 1..n : ps[k] = parts[k]
    <3>1. Len(parts) = n
      BY DEF n
    <3>. QED
      BY <1>1, <2>1, <3>1, AppendProperties, LenProperties
  <2>3. ps \in Sharing
    <3>. HIDE DEF ps
    <3>1. ASSUME NEW k \in DOMAIN ps, k > 1
          PROVE  Len(ps[k]) >= 2 /\ Closed(Head(ps[k]))
      <4>1. CASE k = n + 1
        BY <1>4, <2>1, <2>2, <4>1
      <4>2. CASE k # n + 1
        <5>1. k \in DOMAIN parts /\ ps[k] = parts[k]
          BY <1>2, <2>2, <4>2
        <5>. QED
          BY <3>1, <5>1 DEF Sharing
      <4>. QED
        BY <4>1, <4>2
    <3>. QED
      BY <2>2, <3>1 DEF Sharing
  <2>4. FlattenSeq(Own(ps)) = FlattenSeq(Own(parts)) \o sentence
    <3>1. Own(ps) = Append(Own(parts), OwnOf(n + 1, new)) /\ Own(parts) \in Seq(Seq(Piece))
      <4>1. Len(parts) = n
        BY DEF n
      <4>. QED
        BY <1>1, <2>1, <4>1, OwnIsSeq
    <3>2. OwnOf(n + 1, new) = sentence
      <4>1. n + 1 # 1
        BY <1>2
      <4>2. FlattenSeq(<<sentence>>) = sentence
        BY <1>1, FlattenOne
      <4>. QED
        BY <2>1, <4>1, <4>2 DEF OwnOf
    <3>. QED
      BY <1>1, <3>1, <3>2, FlattenByPart
  <2>5. Last(ps) = new
    <3>. HIDE DEF ps
    <3>. QED
      BY <2>2 DEF Last
  <2>. QED
    BY <2>1, <2>3, <2>4, <2>5 DEF new
<1>8. /\ Append(f, Append(current, sentence)) \in Sharing
      /\ FlattenSeq(Own(Append(f, Append(current, sentence)))) = FlattenSeq(Own(parts)) \o sentence
      /\ Last(Last(Append(f, Append(current, sentence)))) = sentence
  <2>. DEFINE new == Append(current, sentence)
              ps == Append(f, new)
  <2>1. /\ new \in Seq(Texts) /\ new # <<>> /\ Len(new) = Len(current) + 1 /\ new[Len(current) + 1] = sentence
        /\ Len(current) \in Nat \ {0}
        /\ Head(new) = Head(current) /\ Tail(new) = Append(Tail(current), sentence)
    <3>1. /\ Append(current, sentence) \in Seq(Texts) /\ Append(current, sentence) # <<>>
          /\ Len(Append(current, sentence)) = Len(current) + 1
          /\ Append(current, sentence)[Len(current) + 1] = sentence
      BY <1>3, AppendProperties
    <3>2. Len(current) \in Nat \ {0}
      BY <1>3, EmptySeq
    <3>3. /\ Head(Append(current, sentence)) = Head(current)
          /\ Tail(Append(current, sentence)) = Append(Tail(current), sentence)
      BY <1>3, HeadTailAppend
    <3>. QED
      BY <3>1, <3>2, <3>3
  <2>2. new \in Part /\ Last(new) = sentence
    <3>. HIDE DEF new
    <3>. QED
      BY <2>1 DEF Part, Last
  <2>. HIDE DEF new
  <2>3. /\ ps \in Seq(Part) /\ ps # <<>> /\ Len(ps) = n /\ DOMAIN ps = 1..n /\ ps[n] = new
        /\ \A k \in 1..(n - 1) : ps[k] = f[k]
    <3>1. /\ ps \in Seq(Part) /\ ps # <<>> /\ Len(ps) = Len(f) + 1 /\ ps[Len(f) + 1] = new
          /\ \A k \in 1..Len(f) : ps[k] = f[k]
      BY <1>2, <2>2, AppendProperties
    <3>2. (n - 1) + 1 = n
      BY <1>2
    <3>. HIDE DEF ps
    <3>3. Len(ps) = n /\ DOMAIN ps = 1..n
      BY <1>2, <3>1, <3>2, LenProperties
    <3>. QED
      BY <1>2, <3>1, <3>2, <3>3
  <2>4. ps \in Sharing
    <3>. HIDE DEF ps
    <3>1. ASSUME NEW k \in DOMAIN ps, k > 1
          PROVE  Len(ps[k]) >= 2 /\ Closed(Head(ps[k]))
      <4>1. k \in DOMAIN parts
        BY <1>2, <2>3
      <4>2. Len(parts[k]) >= 2 /\ Closed(Head(parts[k]))
        BY <3>1, <4>1 DEF Sharing
      <4>3. CASE k = n
        BY <1>2, <2>1, <2>3, <4>2, <4>3
      <4>4. CASE k # n
        <5>1. k \in 1..(n - 1)
          BY <1>2, <4>1, <4>4
        <5>. QED
          BY <1>2, <2>3, <4>2, <5>1
      <4>. QED
        BY <4>3, <4>4
    <3>. QED
      BY <2>3, <3>1 DEF Sharing
  <2>5. FlattenSeq(Own(ps)) = FlattenSeq(Own(parts)) \o sentence
    <3>1. /\ Own(f) \in Seq(Seq(Piece))
          /\ Own(ps) = Append(Own(f), OwnOf(n, new)) /\ Own(parts) = Append(Own(f), OwnOf(n, current))
          /\ OwnOf(n, current) \in Seq(Piece)
      <4>1. Len(f) + 1 = n
        BY <1>2
      <4>2. /\ Own(f) \in Seq(Seq(Piece))
            /\ \A part \in Part : Own(Append(f, part)) = Append(Own(f), OwnOf(Len(f) + 1, part))
            /\ \A part \in Part, k \in Nat : OwnOf(k, part) \in Seq(Piece)
        BY <1>2, OwnIsSeq
      <4>. QED
        BY <1>2, <2>2, <4>1, <4>2
    <3>2. OwnOf(n, new) = OwnOf(n, current) \o sentence
      <4>1. current \in Seq(Seq(Piece)) /\ Tail(current) \in Seq(Seq(Piece))
        BY <1>3, TextsAreSeqs, HeadTailProperties
      <4>2. CASE n = 1
        <5>1. FlattenSeq(Append(current, sentence)) = FlattenSeq(current) \o sentence
          BY <1>1, <4>1, FlattenByPart
        <5>. QED
          BY <4>2, <5>1 DEF OwnOf, new
      <4>3. CASE n # 1
        <5>1. FlattenSeq(Append(Tail(current), sentence)) = FlattenSeq(Tail(current)) \o sentence
          BY <1>1, <4>1, FlattenByPart
        <5>. QED
          BY <2>1, <4>3, <5>1 DEF OwnOf
      <4>. QED
        BY <4>2, <4>3
    <3>3. OwnOf(n, new) \in Seq(Piece)
      BY <1>1, <3>1, <3>2, ConcatProperties
    <3>4. /\ FlattenSeq(Own(ps)) = FlattenSeq(Own(f)) \o OwnOf(n, new)
          /\ FlattenSeq(Own(parts)) = FlattenSeq(Own(f)) \o OwnOf(n, current)
          /\ FlattenSeq(Own(f)) \in Seq(Piece)
      BY <3>1, <3>3, FlattenByPart
    <3>5. (FlattenSeq(Own(f)) \o OwnOf(n, current)) \o sentence = FlattenSeq(Own(f)) \o (OwnOf(n, current) \o sentence)
      <4>1. \A x, y, z \in Seq(Piece) : (x \o y) \o z = x \o (y \o z)
        BY ConcatAssociative, SMTT(20)
      <4>. QED
        BY <1>1, <3>1, <3>4, <4>1
    <3>. HIDE DEF ps
    <3>. QED
      BY <3>2, <3>4, <3>5
  <2>6. Last(ps) = new
    <3>. HIDE DEF ps
    <3>. QED
      BY <2>3 DEF Last
  <2>. QED
    BY <2>2, <2>4, <2>5, <2>6 DEF new
<1>. QED
  BY <1>5, <1>7, <1>8

\* Sentences are not blank.
LEMMA SentencesAreNotBlank ==
  ASSUME NEW text \in Texts
  PROVE  Sentences(text) \in Seq(Texts) /\ Sentences(text) # <<>>
<1>. DEFINE cut == CutBefore(text, Starts(text))
            s == Ascending(Starts(text))
            n == Cardinality(Starts(text))
            end(k) == CutEnd(text, Starts(text), k)
<1>1. /\ text \in Seq(Piece) /\ Len(text) \in Nat \ {0} /\ DOMAIN text = 1..Len(text)
      /\ Starts(text) \in SUBSET DOMAIN text /\ 1 \in Starts(text)
      /\ Sentences(text) = cut
  BY StartsOfText
<1>2. /\ cut \in Seq(Seq(Piece)) /\ Len(cut) = n /\ n \in Nat \ {0}
      /\ \A k \in 1..n : /\ s[k] \in 1..Len(text)
                         /\ end(k) \in s[k]..Len(text)
                         /\ cut[k] = SubSeq(text, s[k], end(k))
  <2>1. AreCuts(Piece, text, Starts(text))
    BY <1>1, CutFacts
  <2>. QED
    BY <2>1 DEF AreCuts
<1>. HIDE DEF cut, s, n, end
<1>3. ASSUME NEW k \in 1..n
      PROVE  cut[k] \in Texts
  <2>1. /\ s[k] \in 1..Len(text) /\ end(k) \in s[k]..Len(text) /\ cut[k] = SubSeq(text, s[k], end(k))
    BY <1>2
  <2>2. s[k] \in Int /\ end(k) \in Int /\ s[k] <= end(k) /\ \A i \in s[k]..end(k) : text[i] \in Piece
    BY <1>1, <2>1
  <2>3. cut[k] \in Seq(Piece) /\ Len(cut[k]) = end(k) - s[k] + 1
    BY <2>1, <2>2, SubSeqProperties
  <2>4. Len(cut[k]) # 0
    BY <2>2, <2>3
  <2>. QED
    BY <2>3, <2>4, EmptySeq DEF Texts
<1>4. cut \in Seq(Texts) /\ cut # <<>>
  <2>1. cut \in [1..n -> Texts]
    BY <1>2, <1>3, LenProperties
  <2>. QED
    BY <1>2, <2>1, SeqDef
<1>. QED
  BY <1>1, <1>4

\* What may be followed by more sentences.
Follows(head, s) ==
  /\ s # <<>> => Closed(head)
  /\ \A k \in 1..(Len(s) - 1) : Closed(s[k])

\* The parts of some sentences are the sentences.
PartedIsWhole(head, s) ==
  /\ Parted(head, s) \in Sharing
  /\ FlattenSeq(Own(Parted(head, s))) = head \o FlattenSeq(s)
  /\ Last(Last(Parted(head, s))) = IF s = <<>> THEN head ELSE s[Len(s)]

\* Whatever the sentences, provided that whole sentences come before others.
LEMMA PartedIsWholeAlways ==
  ASSUME NEW head \in Texts, NEW sentences \in Seq(Texts), Follows(head, sentences)
  PROVE  PartedIsWhole(head, sentences)
<1>. DEFINE A == {s \in Seq(Texts) : Follows(head, s) => PartedIsWhole(head, s)}
<1>0. head \in Seq(Piece)
  BY TextsAreSeqs
<1>1. <<>> \in A
  <2>. DEFINE one == <<<<head>>>>
  <2>1. Parted(head, <<>>) = one
    BY <1>0, PartedFacts
  <2>2. one \in Sharing
    <3>1. <<head>> \in Part
      BY DEF Part
    <3>2. one \in Seq(Part) \ {<<>>} /\ DOMAIN one = {1}
      BY <3>1
    <3>. HIDE DEF one
    <3>. QED
      BY <3>2 DEF Sharing
  <2>3. FlattenSeq(Own(one)) = head \o FlattenSeq(<<>>)
    <3>1. DOMAIN one = {1} /\ one[1] = <<head>>
      OBVIOUS
    <3>2. Own(one) = <<OwnOf(1, <<head>>)>>
      <4>1. Own(one) = [k \in {1} |-> OwnOf(1, <<head>>)]
        <5>. HIDE DEF one
        <5>. QED
          BY <3>1 DEF Own
      <4>2. {1} = 1..1
        OBVIOUS
      <4>. QED
        BY <4>1, <4>2
    <3>3. OwnOf(1, <<head>>) = head
      BY <1>0, FlattenOne DEF OwnOf
    <3>4. FlattenSeq(<<head>>) = head
      BY <1>0, FlattenOne
    <3>5. head \o <<>> = head
      BY <1>0, ConcatEmptySeq
    <3>. QED
      BY <3>2, <3>3, <3>4, <3>5, FlattenNothing
  <2>4. Last(Last(one)) = head
    BY DEF Last
  <2>5. <<>> \in Seq(Texts)
    OBVIOUS
  <2>. HIDE DEF one
  <2>6. PartedIsWhole(head, <<>>)
    BY <2>1, <2>2, <2>3, <2>4 DEF PartedIsWhole
  <2>. QED
    BY <2>5, <2>6
<1>2. ASSUME NEW s \in Seq(Texts), NEW e \in Texts, s \in A
      PROVE  Append(s, e) \in A
  <2>. DEFINE r == Append(s, e)
              parts == Parted(head, s)
  <2>1. /\ r \in Seq(Texts) /\ r # <<>> /\ Len(r) = Len(s) + 1 /\ r[Len(s) + 1] = e
        /\ \A k \in 1..Len(s) : r[k] = s[k]
        /\ Len(s) \in Nat
    BY AppendProperties
  <2>2. Parted(head, r) = SplitStep(parts, e)
    <3>1. s \in Seq(Seq(Piece)) /\ e \in Seq(Piece)
      BY TextsAreSeqs
    <3>. QED
      BY <1>0, <3>1, PartedFacts
  <2>3. FlattenSeq(r) = FlattenSeq(s) \o e /\ FlattenSeq(s) \in Seq(Piece) /\ e \in Seq(Piece)
    <3>1. s \in Seq(Seq(Piece)) /\ e \in Seq(Piece)
      BY TextsAreSeqs
    <3>. QED
      BY <3>1, FlattenByPart
  <2>. HIDE DEF r
  <2>4. SUFFICES ASSUME Follows(head, r)
                 PROVE  PartedIsWhole(head, r)
    BY <2>1 DEF r
  <2>5. Closed(head) /\ \A k \in 1..Len(s) : Closed(s[k])
    <3>1. Closed(head) /\ \A k \in 1..(Len(r) - 1) : Closed(r[k])
      BY <2>1, <2>4 DEF Follows
    <3>2. Len(r) - 1 = Len(s)
      BY <2>1
    <3>. QED
      BY <2>1, <3>1, <3>2
  <2>6. Follows(head, s)
    <3>1. \A k \in 1..(Len(s) - 1) : k \in 1..Len(s)
      BY <2>1
    <3>. QED
      BY <2>5, <3>1 DEF Follows
  <2>7. PartedIsWhole(head, s)
    BY <1>2, <2>6
  <2>8. parts \in Sharing /\ FlattenSeq(Own(parts)) = head \o FlattenSeq(s) /\ Closed(Last(Last(parts)))
    <3>1. s # <<>> => Len(s) \in 1..Len(s)
      BY EmptySeq
    <3>. QED
      BY <2>5, <2>7, <3>1 DEF PartedIsWhole
  <2>9. /\ SplitStep(parts, e) \in Sharing
        /\ FlattenSeq(Own(SplitStep(parts, e))) = FlattenSeq(Own(parts)) \o e
        /\ Last(Last(SplitStep(parts, e))) = e
    BY <2>8, SplitStepIsWhole
  <2>10. (head \o FlattenSeq(s)) \o e = head \o (FlattenSeq(s) \o e)
    <3>1. \A x, y, z \in Seq(Piece) : (x \o y) \o z = x \o (y \o z)
      BY ConcatAssociative, SMTT(20)
    <3>. QED
      BY <1>0, <2>3, <3>1
  <2>. HIDE DEF parts
  <2>11. FlattenSeq(Own(Parted(head, r))) = head \o FlattenSeq(r)
    BY <2>2, <2>3, <2>8, <2>9, <2>10
  <2>12. Last(Last(Parted(head, r))) = IF r = <<>> THEN head ELSE r[Len(r)]
    BY <2>1, <2>2, <2>9
  <2>. QED
    BY <2>2, <2>9, <2>11, <2>12 DEF PartedIsWhole
<1>3. Seq(Texts) \subseteq A
  <2>. HIDE DEF A
  <2>. QED
    BY <1>1, <1>2, SequenceInduction
<1>. QED
  BY <1>3

\* Splitting loses nothing, and repeats only the sentence two parts share.
LEMMA SplitIsWhole ==
  ASSUME NEW text \in Texts
  PROVE  Split(text) \in Sharing /\ FlattenSeq(Own(Split(text))) = text
<1>. DEFINE s == Sentences(text)
            h == Head(s)
            t == Tail(s)
<1>1. s \in Seq(Texts) /\ s # <<>>
  BY SentencesAreNotBlank
<1>2. \A k \in 1..(Len(s) - 1) : Closed(s[k])
  BY SentencesAreClosed
<1>3. FlattenSeq(s) = text
  BY SentencesAreWhole
<1>4. Split(text) = Parted(h, t)
  BY DEF Split, Parted
<1>. HIDE DEF s
<1>5. /\ h \in Texts /\ t \in Seq(Texts) /\ Len(t) = Len(s) - 1 /\ \A k \in 1..Len(t) : t[k] = s[k + 1]
      /\ h = s[1] /\ Len(s) \in Nat \ {0}
  BY <1>1, HeadTailProperties, EmptySeq
<1>6. FlattenSeq(s) = h \o FlattenSeq(t)
  <2>1. s \in Seq(Seq(Piece))
    BY <1>1, TextsAreSeqs
  <2>. QED
    BY <1>1, <2>1, FlattenFromHead
<1>. HIDE DEF h, t
<1>7. Follows(h, t)
  <2>1. t # <<>> => Closed(h)
    <3>1. SUFFICES ASSUME t # <<>>
                   PROVE  Closed(h)
      OBVIOUS
    <3>2. Len(t) \in Nat \ {0}
      BY <1>5, <3>1, EmptySeq
    <3>3. 1 \in 1..(Len(s) - 1)
      BY <1>5, <3>2
    <3>. QED
      BY <1>2, <1>5, <3>3
  <2>2. ASSUME NEW k \in 1..(Len(t) - 1)
        PROVE  Closed(t[k])
    <3>1. k + 1 \in 1..(Len(s) - 1) /\ k \in 1..Len(t)
      BY <1>5
    <3>. QED
      BY <1>2, <1>5, <3>1
  <2>. QED
    BY <2>1, <2>2 DEF Follows
<1>8. PartedIsWhole(h, t)
  BY <1>5, <1>7, PartedIsWholeAlways
<1>. QED
  BY <1>3, <1>4, <1>6, <1>8 DEF PartedIsWhole

\* A part of a block without what it repeats.
FreshText(part) == IF part.continues THEN FlattenSeq(Tail(Sentences(part.text))) ELSE part.text

\* Parts that are not blank.
FullParts == [text: Texts, continues: BOOLEAN]

\* Texts that are not blank are not blank together.
LEMMA FlattenIsNotBlank ==
  ASSUME NEW ss \in Seq(Texts), ss # <<>>
  PROVE  FlattenSeq(ss) \in Texts
<1>1. ss \in Seq(Seq(Piece)) /\ Head(ss) \in Texts
  BY TextsAreSeqs, HeadTailProperties
<1>2. /\ Head(ss) \in Seq(Piece) /\ Head(ss) # <<>> /\ Tail(ss) \in Seq(Seq(Piece))
      /\ FlattenSeq(ss) = Head(ss) \o FlattenSeq(Tail(ss))
  BY <1>1, FlattenFromHead DEF Texts
<1>3. FlattenSeq(Tail(ss)) \in Seq(Piece)
  BY <1>2, FlattenIsSeq
<1>4. Head(ss) \o FlattenSeq(Tail(ss)) \in Seq(Piece) /\ Head(ss) \o FlattenSeq(Tail(ss)) # <<>>
  BY <1>2, <1>3, ConcatProperties, ConcatEqualIffEmpty
<1>. QED
  BY <1>2, <1>4 DEF Texts

\* What a part shows without what it repeats is what it adds.
LEMMA FreshIsOwn ==
  ASSUME NEW parts \in Sharing, NEW k \in DOMAIN parts
  PROVE  /\ [text |-> FlattenSeq(parts[k]), continues |-> k > 1] \in FullParts
         /\ FreshText([text |-> FlattenSeq(parts[k]), continues |-> k > 1]) = Own(parts)[k]
<1>. DEFINE p == parts[k]
            part == [text |-> FlattenSeq(p), continues |-> k > 1]
<1>1. p \in Part /\ k \in Nat \ {0} /\ (k > 1 => Len(p) >= 2 /\ Closed(Head(p)))
  BY DEF Sharing
<1>2. Own(parts)[k] = OwnOf(k, p)
  BY DEF Own
<1>. HIDE DEF p
<1>3. p \in Seq(Texts) /\ p # <<>>
  BY <1>1 DEF Part
<1>4. FlattenSeq(p) \in Texts
  BY <1>3, FlattenIsNotBlank
<1>5. part \in FullParts /\ part.text = FlattenSeq(p) /\ part.continues = (k > 1)
  BY <1>4 DEF FullParts
<1>. HIDE DEF part
<1>6. CASE ~(k > 1)
  <2>1. k = 1
    BY <1>1, <1>6
  <2>. QED
    BY <1>2, <1>5, <1>6, <2>1 DEF FreshText, OwnOf, part, p
<1>7. CASE k > 1
  <2>1. /\ p \in Seq(Seq(Piece)) /\ Head(p) \in Texts /\ Tail(p) \in Seq(Texts)
        /\ Len(Tail(p)) = Len(p) - 1 /\ Len(p) \in Nat
    BY <1>3, TextsAreSeqs, HeadTailProperties, LenProperties
  <2>2. Tail(p) # <<>>
    <3>1. Len(Tail(p)) # 0
      <4>1. Len(p) >= 2
        BY <1>1, <1>7
      <4>2. Len(p) \in Nat /\ Len(Tail(p)) = Len(p) - 1
        BY <2>1
      <4>3. \A n \in Nat : n >= 2 => n - 1 # 0
        OBVIOUS
      <4>4. Len(p) - 1 # 0
        BY <4>1, <4>2, <4>3
      <4>. QED
        BY <4>2, <4>4
    <3>. QED
      BY <2>1, <3>1, EmptySeq
  <2>3. FlattenSeq(Tail(p)) \in Texts
    BY <2>1, <2>2, FlattenIsNotBlank
  <2>4. FlattenSeq(p) = Head(p) \o FlattenSeq(Tail(p))
    BY <1>3, <2>1, FlattenFromHead
  <2>5. FlattenSeq(Tail(Sentences(Head(p) \o FlattenSeq(Tail(p))))) = FlattenSeq(Tail(p))
    BY <1>1, <1>7, <2>3, FirstSentence
  <2>6. FreshText(part) = FlattenSeq(Tail(p))
    BY <1>5, <1>7, <2>4, <2>5 DEF FreshText
  <2>7. OwnOf(k, p) = FlattenSeq(Tail(p))
    BY <1>1, <1>7 DEF OwnOf
  <2>. QED
    BY <1>2, <1>5, <2>6, <2>7 DEF part, p
<1>. QED
  BY <1>6, <1>7

\* What a text shows without what it repeats.
LEMMA FreshIsSeq ==
  ASSUME NEW part \in FullParts
  PROVE  FreshText(part) \in Seq(Piece)
<1>1. part.text \in Texts /\ part.text \in Seq(Piece)
  BY DEF FullParts, Texts
<1>2. Sentences(part.text) \in Seq(Seq(Piece)) /\ Sentences(part.text) # <<>>
  BY <1>1, SentencesAreTexts
<1>3. Tail(Sentences(part.text)) \in Seq(Seq(Piece))
  BY <1>2, HeadTailProperties
<1>. QED
  BY <1>1, <1>3, FlattenIsSeq DEF FreshText

\* What the parts of a run of paragraphs show, each without the sentence it repeats, is
\* the text of the run, whatever is merged and split (ParagraphStrategy).
THEOREM PartsAreWhole ==
  ASSUME NEW texts \in Seq(Texts)
  PROVE  /\ PartsOf(texts) \in Seq(FullParts)
         /\ FlattenSeq([k \in DOMAIN PartsOf(texts) |-> FreshText(PartsOf(texts)[k])]) = FlattenSeq(texts)
<1>. DEFINE blocks == Merge(texts)
            partOf(b, k) == [text |-> FlattenSeq(Split(blocks[b])[k]), continues |-> k > 1]
            ofBlock(b) == [k \in DOMAIN Split(blocks[b]) |-> partOf(b, k)]
            all == [b \in DOMAIN blocks |-> ofBlock(b)]
            f == [part \in FullParts |-> FreshText(part)]
            g == [ps \in Seq(FullParts) |-> FlattenSeq(Mapped(f, ps))]
<1>1. blocks \in Seq(Texts) /\ FlattenSeq(blocks) = FlattenSeq(texts)
  BY MergeIsTyped, MergeIsWhole
<1>2. PartsOf(texts) = FlattenSeq(all)
  BY DEF PartsOf
<1>. HIDE DEF blocks
<1>3. Len(blocks) \in Nat /\ DOMAIN blocks = 1..Len(blocks) /\ \A b \in DOMAIN blocks : blocks[b] \in Texts
  BY <1>1
<1>4. Maps(f, FullParts, Seq(Piece)) /\ \A part \in FullParts : f[part] = FreshText(part)
  BY FreshIsSeq DEF Maps
<1>. HIDE DEF f
<1>5. ASSUME NEW b \in DOMAIN blocks
      PROVE  ofBlock(b) \in Seq(FullParts) /\ FlattenSeq(Mapped(f, ofBlock(b))) = blocks[b]
  <2>. DEFINE parts == Split(blocks[b])
  <2>1. parts \in Sharing /\ FlattenSeq(Own(parts)) = blocks[b]
    BY <1>3, SplitIsWhole
  <2>2. \A k \in DOMAIN parts : partOf(b, k) \in FullParts /\ FreshText(partOf(b, k)) = Own(parts)[k]
    BY <2>1, FreshIsOwn
  <2>. HIDE DEF parts, partOf
  <2>3. Len(parts) \in Nat /\ DOMAIN parts = 1..Len(parts)
    <3>1. parts \in Seq(Part)
      BY <2>1 DEF Sharing
    <3>. QED
      BY <3>1
  <2>4. ofBlock(b) = [k \in 1..Len(parts) |-> partOf(b, k)]
    BY <2>3 DEF parts
  <2>5. ofBlock(b) \in Seq(FullParts)
    <3>1. ofBlock(b) \in [1..Len(parts) -> FullParts]
      BY <2>2, <2>3, <2>4
    <3>. HIDE DEF ofBlock
    <3>. QED
      BY <2>3, <3>1, SeqDef
  <2>6. Mapped(f, ofBlock(b)) = Own(parts)
    <3>1. Mapped(f, ofBlock(b)) = [k \in 1..Len(parts) |-> f[ofBlock(b)[k]]]
      <4>1. DOMAIN ofBlock(b) = 1..Len(parts)
        BY <2>4
      <4>. HIDE DEF ofBlock
      <4>. QED
        BY <4>1 DEF Mapped
    <3>2. \A k \in 1..Len(parts) : f[ofBlock(b)[k]] = Own(parts)[k]
      <4>1. \A k \in 1..Len(parts) : ofBlock(b)[k] = partOf(b, k)
        BY <2>4
      <4>. HIDE DEF ofBlock
      <4>. QED
        BY <1>4, <2>2, <2>3, <4>1
    <3>3. Own(parts) = [k \in 1..Len(parts) |-> Own(parts)[k]]
      BY <2>3 DEF Own
    <3>. HIDE DEF ofBlock
    <3>. QED
      BY <3>1, <3>2, <3>3
  <2>. HIDE DEF ofBlock
  <2>. QED
    BY <2>1, <2>5, <2>6
<1>. HIDE DEF ofBlock
<1>6. all \in Seq(Seq(FullParts))
  <2>1. all \in [1..Len(blocks) -> Seq(FullParts)]
    BY <1>3, <1>5
  <2>. HIDE DEF all
  <2>. QED
    BY <1>3, <2>1, SeqDef
<1>7. FlattenSeq(all) \in Seq(FullParts)
  <2>. HIDE DEF all
  <2>. QED
    BY <1>6, FlattenIsSeq
<1>8. Mapped(g, all) = blocks
  <2>1. DOMAIN all = DOMAIN blocks /\ \A b \in DOMAIN blocks : all[b] = ofBlock(b)
    OBVIOUS
  <2>2. \A ps \in Seq(FullParts) : g[ps] = FlattenSeq(Mapped(f, ps))
    OBVIOUS
  <2>. HIDE DEF all, g
  <2>3. \A b \in DOMAIN blocks : g[all[b]] = blocks[b]
    BY <1>5, <2>1, <2>2
  <2>4. Mapped(g, all) = [b \in DOMAIN blocks |-> blocks[b]]
    BY <2>1, <2>3 DEF Mapped
  <2>. QED
    BY <1>3, <2>4, <1>1
<1>9. FlattenSeq(Mapped(f, FlattenSeq(all))) = FlattenSeq(Mapped(g, all))
  <2>1. \A ps \in Seq(FullParts) : g[ps] = FlattenSeq(Mapped(f, ps))
    OBVIOUS
  <2>. HIDE DEF all, g
  <2>. QED
    BY <1>4, <1>6, <2>1, FlattenMapped
<1>10. [k \in DOMAIN PartsOf(texts) |-> FreshText(PartsOf(texts)[k])] = Mapped(f, FlattenSeq(all))
  <2>. DEFINE ps == PartsOf(texts)
  <2>1. ps \in Seq(FullParts) /\ ps = FlattenSeq(all)
    BY <1>2, <1>7
  <2>. HIDE DEF ps, all
  <2>2. \A k \in DOMAIN ps : FreshText(ps[k]) = f[ps[k]]
    BY <1>4, <2>1
  <2>3. [k \in DOMAIN ps |-> FreshText(ps[k])] = Mapped(f, ps)
    BY <2>2 DEF Mapped
  <2>. QED
    BY <2>1, <2>3 DEF ps
<1>. HIDE DEF all, f, g
<1>. QED
  BY <1>1, <1>2, <1>7, <1>8, <1>9, <1>10

\* Each part begins with the last sentence of the one before.
Overlaps(parts) == \A k \in DOMAIN parts : k > 1 => Head(parts[k]) = Last(parts[k - 1])

\* One more sentence keeps it so.
LEMMA SplitStepOverlaps ==
  ASSUME NEW parts \in Partings, NEW sentence \in Seq(Piece), Overlaps(parts)
  PROVE  Overlaps(SplitStep(parts, sentence))
<1>. DEFINE P == Seq(Seq(Piece)) \ {<<>>}
            current == Last(parts)
            f == Front(parts)
            n == Len(parts)
<1>1. parts \in Seq(P) /\ parts # <<>>
  BY DEF Partings
<1>. HIDE DEF P
<1>2. /\ f \in Seq(P) /\ n \in Nat \ {0} /\ Len(f) = n - 1 /\ DOMAIN f = 1..(n - 1)
      /\ \A k \in 1..(n - 1) : f[k] = parts[k]
      /\ current \in P /\ current = parts[n] /\ DOMAIN parts = 1..n
  <2>1. /\ f \in Seq(P) /\ n \in Nat \ {0} /\ Len(f) = n - 1 /\ DOMAIN f = 1..(n - 1)
        /\ \A k \in 1..(n - 1) : f[k] = parts[k]
        /\ current \in P /\ current = parts[n]
    BY <1>1, FrontAndLast
  <2>2. DOMAIN parts = 1..n
    BY <1>1
  <2>. QED
    BY <2>1, <2>2
<1>3. current \in Seq(Seq(Piece)) /\ current # <<>>
  BY <1>2 DEF P
<1>4. SplitStep(parts, sentence) =
        IF Words(FlattenSeq(current)) + Words(sentence) > MaxWords
        THEN Append(parts, <<Last(current), sentence>>)
        ELSE Append(f, Append(current, sentence))
  BY DEF SplitStep
<1>5. \A k \in 1..n : k > 1 => Head(parts[k]) = Last(parts[k - 1])
  BY <1>2 DEF Overlaps
<1>6. Last(current) \in Seq(Piece) /\ current[1] = Head(current)
  BY <1>3, FrontAndLast
<1>. HIDE DEF current, f, n
<1>7. ASSUME NEW x \in P
      PROVE  /\ DOMAIN Append(parts, x) = 1..(n + 1) /\ Append(parts, x)[n + 1] = x
             /\ \A k \in 1..n : Append(parts, x)[k] = parts[k]
             /\ DOMAIN Append(f, x) = 1..n /\ Append(f, x)[n] = x
             /\ \A k \in 1..(n - 1) : Append(f, x)[k] = parts[k]
  <2>1. /\ Append(parts, x) \in Seq(P) /\ Len(Append(parts, x)) = n + 1 /\ Append(parts, x)[n + 1] = x
        /\ \A k \in 1..n : Append(parts, x)[k] = parts[k]
    BY <1>1, <1>7, AppendProperties DEF n
  <2>2. /\ Append(f, x) \in Seq(P) /\ Len(Append(f, x)) = Len(f) + 1 /\ Append(f, x)[Len(f) + 1] = x
        /\ \A k \in 1..Len(f) : Append(f, x)[k] = f[k]
    BY <1>2, <1>7, AppendProperties
  <2>3. (n - 1) + 1 = n
    BY <1>2
  <2>. QED
    BY <1>2, <2>1, <2>2, <2>3
<1>8. ASSUME Words(FlattenSeq(current)) + Words(sentence) > MaxWords
      PROVE  Overlaps(SplitStep(parts, sentence))
  <2>. DEFINE x == <<Last(current), sentence>>
              ps == Append(parts, x)
  <2>1. x \in P /\ Head(x) = Last(current)
    BY <1>6 DEF P
  <2>. HIDE DEF x
  <2>2. /\ DOMAIN ps = 1..(n + 1) /\ ps[n + 1] = x /\ \A k \in 1..n : ps[k] = parts[k]
    BY <1>7, <2>1
  <2>3. SplitStep(parts, sentence) = ps
    BY <1>4, <1>8 DEF x
  <2>. HIDE DEF ps
  <2>4. ASSUME NEW k \in 1..(n + 1), k > 1
        PROVE  Head(ps[k]) = Last(ps[k - 1])
    <3>1. CASE k = n + 1
      <4>1. k - 1 = n /\ n \in 1..n
        BY <1>2, <3>1
      <4>. QED
        BY <1>2, <2>1, <2>2, <3>1, <4>1
    <3>2. CASE k # n + 1
      <4>1. k \in 1..n /\ k - 1 \in 1..n
        BY <1>2, <2>4, <3>2
      <4>. QED
        BY <1>5, <2>2, <2>4, <4>1
    <3>. QED
      BY <3>1, <3>2
  <2>. QED
    BY <2>2, <2>3, <2>4 DEF Overlaps
<1>9. ASSUME ~(Words(FlattenSeq(current)) + Words(sentence) > MaxWords)
      PROVE  Overlaps(SplitStep(parts, sentence))
  <2>. DEFINE x == Append(current, sentence)
              ps == Append(f, x)
  <2>1. x \in P /\ Head(x) = Head(current)
    <3>1. x \in Seq(Seq(Piece)) /\ x[1] = current[1] /\ Len(x) # 0
      <4>1. Len(current) \in Nat \ {0}
        BY <1>3, EmptySeq
      <4>2. x \in Seq(Seq(Piece)) /\ Len(x) = Len(current) + 1 /\ \A k \in 1..Len(current) : x[k] = current[k]
        BY <1>3, AppendProperties
      <4>. HIDE DEF x
      <4>. QED
        BY <4>1, <4>2
    <3>. HIDE DEF x
    <3>2. x # <<>> /\ Head(x) = x[1]
      BY <3>1
    <3>. QED
      BY <1>6, <3>1, <3>2 DEF P
  <2>. HIDE DEF x
  <2>2. /\ DOMAIN ps = 1..n /\ ps[n] = x /\ \A k \in 1..(n - 1) : ps[k] = parts[k]
    BY <1>7, <2>1
  <2>3. SplitStep(parts, sentence) = ps
    BY <1>4, <1>9 DEF x
  <2>. HIDE DEF ps
  <2>4. ASSUME NEW k \in 1..n, k > 1
        PROVE  Head(ps[k]) = Last(ps[k - 1])
    <3>1. k - 1 \in 1..(n - 1) /\ Head(parts[k]) = Last(parts[k - 1])
      BY <1>2, <1>5, <2>4
    <3>2. CASE k = n
      BY <1>2, <2>1, <2>2, <3>1, <3>2
    <3>3. CASE k # n
      <4>1. k \in 1..(n - 1)
        BY <1>2, <3>3
      <4>. QED
        BY <2>2, <3>1, <4>1
    <3>. QED
      BY <3>2, <3>3
  <2>. QED
    BY <2>2, <2>3, <2>4 DEF Overlaps
<1>. QED
  BY <1>8, <1>9

\* So the parts of a block overlap.
LEMMA SplitOverlaps ==
  ASSUME NEW text \in Texts
  PROVE  Overlaps(Split(text))
<1>. DEFINE s == Sentences(text)
            h == Head(s)
            t == Tail(s)
            A == {r \in Seq(Seq(Piece)) : Overlaps(Parted(h, r))}
            E == Seq(Piece)
<1>1. h \in Seq(Piece) /\ t \in Seq(Seq(Piece))
  BY SentencesAreTexts
<1>2. Split(text) = Parted(h, t)
  BY DEF Split, Parted
<1>. HIDE DEF h, t
<1>3. <<>> \in A
  <2>1. Parted(h, <<>>) = <<<<h>>>>
    BY <1>1, PartedFacts
  <2>2. DOMAIN <<<<h>>>> = {1}
    OBVIOUS
  <2>3. Overlaps(<<<<h>>>>)
    BY <2>2 DEF Overlaps
  <2>. QED
    BY <2>1, <2>3
<1>4. ASSUME NEW r \in Seq(Seq(Piece)), NEW e \in Seq(Piece), r \in A
      PROVE  Append(r, e) \in A
  <2>1. Parted(h, r) \in Partings /\ Parted(h, Append(r, e)) = SplitStep(Parted(h, r), e)
    BY <1>1, PartedFacts
  <2>2. Overlaps(SplitStep(Parted(h, r), e))
    BY <1>4, <2>1, SplitStepOverlaps
  <2>. QED
    BY <2>1, <2>2
<1>5. Seq(E) \subseteq A
  <2>1. \A r \in Seq(E), e \in E : r \in A => Append(r, e) \in A
    BY <1>4
  <2>. HIDE DEF A, E
  <2>. QED
    BY <1>3, <2>1, SequenceInduction
<1>. QED
  BY <1>1, <1>2, <1>5

\* The second part begins with a piece of what the first shows.
Leads == {p \in FullParts \X FullParts : \E m \in DOMAIN FreshText(p[1]) : FreshText(p[1])[m] = p[2].text[1]}

\* Parts that continue no other.
Openings == {part \in FullParts : ~part.continues}

\* A part after the first begins with a piece that the part before it adds.
LEMMA OverlapLeads ==
  ASSUME NEW parts \in Sharing, Overlaps(parts), NEW k \in DOMAIN parts, k > 1
  PROVE  \E m \in DOMAIN Own(parts)[k - 1] : Own(parts)[k - 1][m] = FlattenSeq(parts[k])[1]
<1>. DEFINE p == parts[k]
            q == parts[k - 1]
            rows == IF k - 1 = 1 THEN q ELSE Tail(q)
<1>1. /\ k - 1 \in DOMAIN parts /\ p \in Part /\ q \in Part
      /\ k - 1 # 1 => Len(q) >= 2
      /\ k - 1 \in Nat
  <2>1. parts \in Seq(Part)
    BY DEF Sharing
  <2>2. Len(parts) \in Nat /\ DOMAIN parts = 1..Len(parts)
    BY <2>1
  <2>3. k - 1 \in DOMAIN parts /\ (k - 1 # 1 => k - 1 > 1) /\ k - 1 \in Nat
    BY <2>2
  <2>. QED
    BY <2>1, <2>3 DEF Sharing
<1>2. Own(parts)[k - 1] = FlattenSeq(rows)
  BY <1>1 DEF Own, OwnOf
<1>3. Head(p) = Last(q)
  BY DEF Overlaps
<1>. HIDE DEF p, q
<1>4. /\ p \in Seq(Texts) /\ p # <<>> /\ q \in Seq(Texts) /\ q # <<>>
  BY <1>1 DEF Part
<1>5. FlattenSeq(p)[1] = Head(p)[1] /\ Head(p) \in Texts
  <2>1. p \in Seq(Seq(Piece)) /\ Head(p) \in Texts
    BY <1>4, TextsAreSeqs, HeadTailProperties
  <2>2. /\ Head(p) \in Seq(Piece) /\ Tail(p) \in Seq(Seq(Piece))
        /\ FlattenSeq(p) = Head(p) \o FlattenSeq(Tail(p))
    BY <1>4, <2>1, FlattenFromHead
  <2>3. FlattenSeq(Tail(p)) \in Seq(Piece)
    BY <2>2, FlattenIsSeq
  <2>4. Len(Head(p)) \in Nat \ {0}
    BY <2>1, EmptySeq DEF Texts
  <2>. DEFINE x == Head(p)
              y == FlattenSeq(Tail(p))
  <2>5. x \in Seq(Piece) /\ y \in Seq(Piece) /\ Len(x) \in Nat \ {0}
    BY <2>2, <2>3, <2>4
  <2>. HIDE DEF x, y
  <2>6. (x \o y)[1] = x[1]
    <3>1. \A i \in 1..(Len(x) + Len(y)) : (x \o y)[i] = IF i <= Len(x) THEN x[i] ELSE y[i - Len(x)]
      BY <2>5, ConcatProperties
    <3>2. 1 \in 1..(Len(x) + Len(y)) /\ 1 <= Len(x)
      BY <2>5, LenProperties
    <3>. QED
      BY <3>1, <3>2
  <2>. QED
    BY <2>1, <2>2, <2>6 DEF x, y
<1>6. rows \in Seq(Texts) /\ \E r \in DOMAIN rows : rows[r] = Last(q)
  <2>1. /\ Len(q) \in Nat \ {0} /\ Last(q) = q[Len(q)] /\ DOMAIN q = 1..Len(q)
    <3>1. Len(q) \in Nat \ {0} /\ Last(q) = q[Len(q)]
      BY <1>4, FrontAndLast
    <3>. QED
      BY <1>4, <3>1
  <2>2. CASE k - 1 = 1
    <3>1. rows = q
      BY <2>2
    <3>2. Len(q) \in DOMAIN q
      BY <2>1
    <3>. HIDE DEF rows
    <3>. QED
      BY <1>4, <2>1, <3>1, <3>2
  <2>3. CASE k - 1 # 1
    <3>1. rows = Tail(q)
      BY <2>3
    <3>2. /\ Tail(q) \in Seq(Texts) /\ Len(Tail(q)) = Len(q) - 1
          /\ \A i \in 1..Len(Tail(q)) : Tail(q)[i] = q[i + 1]
      BY <1>4, HeadTailProperties
    <3>3. Len(q) >= 2
      BY <1>1, <2>3
    <3>. HIDE DEF rows
    <3>4. DOMAIN rows = 1..(Len(q) - 1) /\ Len(q) - 1 \in 1..(Len(q) - 1) /\ (Len(q) - 1) + 1 = Len(q)
      BY <2>1, <3>1, <3>2, <3>3
    <3>5. rows[Len(q) - 1] = q[Len(q)]
      BY <3>1, <3>2, <3>4
    <3>. QED
      BY <2>1, <3>1, <3>2, <3>4, <3>5
  <2>. QED
    BY <2>2, <2>3
<1>. HIDE DEF rows
<1>7. PICK r \in DOMAIN rows : rows[r] = Last(q)
  BY <1>6
<1>8. 1 \in DOMAIN rows[r]
  <2>1. rows[r] \in Texts
    BY <1>6
  <2>2. Len(rows[r]) \in Nat \ {0} /\ DOMAIN rows[r] = 1..Len(rows[r])
    BY <2>1, EmptySeq DEF Texts
  <2>. QED
    BY <2>2
<1>9. InRows(FlattenSeq(rows), rows)
  <2>1. rows \in Seq(Seq(Piece))
    BY <1>6, TextsAreSeqs
  <2>. QED
    BY <2>1, FlattenIsInRows
<1>10. PICK m \in DOMAIN FlattenSeq(rows) : FlattenSeq(rows)[m] = rows[r][1]
  BY <1>8, <1>9 DEF InRows
<1>. QED
  BY <1>2, <1>3, <1>5, <1>7, <1>10 DEF p

\* Of the parts of a run, each opens a block or begins inside what the one before shows.
LEMMA PartsAreChained ==
  ASSUME NEW texts \in Seq(Texts)
  PROVE  Chained(PartsOf(texts), Openings, Leads)
<1>. DEFINE blocks == Merge(texts)
            partOf(b, k) == [text |-> FlattenSeq(Split(blocks[b])[k]), continues |-> k > 1]
            ofBlock(b) == [k \in DOMAIN Split(blocks[b]) |-> partOf(b, k)]
            all == [b \in DOMAIN blocks |-> ofBlock(b)]
<1>1. blocks \in Seq(Texts)
  BY MergeIsTyped
<1>2. PartsOf(texts) = FlattenSeq(all)
  BY DEF PartsOf
<1>. HIDE DEF blocks
<1>3. Len(blocks) \in Nat /\ DOMAIN blocks = 1..Len(blocks) /\ \A b \in DOMAIN blocks : blocks[b] \in Texts
  BY <1>1
<1>4. ASSUME NEW b \in DOMAIN blocks
      PROVE  ofBlock(b) \in Seq(FullParts) /\ Chained(ofBlock(b), Openings, Leads)
  <2>. DEFINE parts == Split(blocks[b])
  <2>1. parts \in Sharing /\ Overlaps(parts)
    BY <1>3, SplitIsWhole, SplitOverlaps
  <2>2. \A k \in DOMAIN parts : partOf(b, k) \in FullParts /\ FreshText(partOf(b, k)) = Own(parts)[k]
    BY <2>1, FreshIsOwn
  <2>3. \A k \in DOMAIN parts : partOf(b, k).text = FlattenSeq(parts[k]) /\ partOf(b, k).continues = (k > 1)
    OBVIOUS
  <2>. HIDE DEF parts, partOf
  <2>4. Len(parts) \in Nat /\ DOMAIN parts = 1..Len(parts)
    <3>1. parts \in Seq(Part)
      BY <2>1 DEF Sharing
    <3>. QED
      BY <3>1
  <2>5. ofBlock(b) = [k \in 1..Len(parts) |-> partOf(b, k)]
    BY <2>4 DEF parts
  <2>6. ofBlock(b) \in Seq(FullParts) /\ DOMAIN ofBlock(b) = 1..Len(parts)
        /\ \A k \in 1..Len(parts) : ofBlock(b)[k] = partOf(b, k)
    <3>1. ofBlock(b) \in [1..Len(parts) -> FullParts] /\ \A k \in 1..Len(parts) : ofBlock(b)[k] = partOf(b, k)
      BY <2>2, <2>4, <2>5
    <3>. HIDE DEF ofBlock
    <3>. QED
      BY <2>4, <3>1, SeqDef
  <2>. HIDE DEF ofBlock
  <2>7. ASSUME NEW k \in 1..Len(parts), ofBlock(b)[k] \notin Openings
        PROVE  k > 1 /\ <<ofBlock(b)[k - 1], ofBlock(b)[k]>> \in Leads
    <3>1. k \in DOMAIN parts /\ k > 1 /\ k - 1 \in DOMAIN parts
      <4>1. k \in DOMAIN parts
        BY <2>4
      <4>2. k > 1
        BY <2>2, <2>3, <2>6, <2>7, <4>1 DEF Openings
      <4>. QED
        BY <2>4, <4>1, <4>2
    <3>2. PICK m \in DOMAIN Own(parts)[k - 1] : Own(parts)[k - 1][m] = FlattenSeq(parts[k])[1]
      BY <2>1, <3>1, OverlapLeads
    <3>. DEFINE x == ofBlock(b)[k - 1]
                y == ofBlock(b)[k]
    <3>3. /\ x \in FullParts /\ FreshText(x) = Own(parts)[k - 1]
          /\ y \in FullParts /\ y.text = FlattenSeq(parts[k])
      BY <2>2, <2>3, <2>4, <2>6, <3>1
    <3>. HIDE DEF x, y
    <3>4. <<x, y>> \in Leads
      BY <3>2, <3>3 DEF Leads
    <3>. QED
      BY <3>1, <3>4 DEF x, y
  <2>. QED
    BY <2>6, <2>7 DEF Chained
<1>. HIDE DEF ofBlock
<1>5. all \in Seq(Seq(FullParts))
  <2>1. all \in [1..Len(blocks) -> Seq(FullParts)]
    BY <1>3, <1>4
  <2>. HIDE DEF all
  <2>. QED
    BY <1>3, <2>1, SeqDef
<1>6. AllChained(all, Openings, Leads)
  BY <1>4 DEF AllChained
<1>. HIDE DEF all
<1>. QED
  BY <1>2, <1>5, <1>6, FlattenIsChained

\* The first piece of each part stands in the run, and the parts begin in the order
\* of the run: so for any order of the pieces that the run keeps.
LEMMA PartsBeginInOrder ==
  ASSUME NEW texts \in Seq(Texts), NEW R,
         InOrder(FlattenSeq(texts), R), \A piece \in Piece : <<piece, piece>> \in R
  PROVE  LET parts == PartsOf(texts)
             whole == FlattenSeq(texts)
         IN  /\ parts \in Seq(FullParts)
             /\ \A k \in DOMAIN parts : \E n \in DOMAIN whole : whole[n] = parts[k].text[1]
             /\ \A j, k \in DOMAIN parts : j < k => <<parts[j].text[1], parts[k].text[1]>> \in R
<1>. DEFINE parts == PartsOf(texts)
            whole == FlattenSeq(texts)
            fresh == [k \in DOMAIN parts |-> FreshText(parts[k])]
<1>1. parts \in Seq(FullParts) /\ FlattenSeq(fresh) = whole
  BY PartsAreWhole
<1>2. Chained(parts, Openings, Leads)
  BY PartsAreChained
<1>3. InOrder(whole, R)
  OBVIOUS
<1>. HIDE DEF parts, whole
<1>4. Len(parts) \in Nat /\ DOMAIN parts = 1..Len(parts) /\ \A k \in DOMAIN parts : parts[k] \in FullParts
  BY <1>1
<1>5. fresh \in Seq(Seq(Piece)) /\ DOMAIN fresh = 1..Len(parts) /\ \A k \in 1..Len(parts) : fresh[k] = FreshText(parts[k])
  <2>1. fresh \in [1..Len(parts) -> Seq(Piece)] /\ \A k \in 1..Len(parts) : fresh[k] = FreshText(parts[k])
    BY <1>4, FreshIsSeq
  <2>. HIDE DEF fresh
  <2>. QED
    BY <1>4, <2>1, SeqDef, SMTT(20)
<1>. HIDE DEF fresh
<1>6. AllInOrder(fresh, R) /\ InRows(whole, fresh)
  <2>1. InOrder(FlattenSeq(fresh), R)
    BY <1>1, <1>3
  <2>. QED
    BY <1>1, <1>5, <2>1, FlattenWasInOrder, FlattenIsInRows
  \* The part that has the first piece of part k among what it shows.
<1>. DEFINE home(k) == IF parts[k].continues THEN k - 1 ELSE k
<1>7. ASSUME NEW k \in 1..Len(parts)
      PROVE  /\ home(k) \in 1..Len(parts)
             /\ parts[k].continues => home(k) = k - 1
             /\ ~parts[k].continues => home(k) = k /\ 1 \in DOMAIN fresh[k] /\ fresh[k][1] = parts[k].text[1]
             /\ \E m \in DOMAIN fresh[home(k)] : fresh[home(k)][m] = parts[k].text[1]
  <2>1. CASE parts[k].continues
    <3>1. k > 1 /\ <<parts[k - 1], parts[k]>> \in Leads
      BY <1>2, <1>4, <2>1 DEF Chained, Openings
    <3>2. k - 1 \in 1..Len(parts)
      BY <1>4, <3>1
    <3>3. \E m \in DOMAIN FreshText(parts[k - 1]) : FreshText(parts[k - 1])[m] = parts[k].text[1]
      BY <3>1 DEF Leads
    <3>. QED
      BY <1>5, <2>1, <3>2, <3>3
  <2>2. CASE ~parts[k].continues
    <3>1. fresh[k] = parts[k].text
      BY <1>5, <2>2 DEF FreshText
    <3>2. parts[k].text \in Texts
      BY <1>4 DEF FullParts
    <3>3. 1 \in DOMAIN parts[k].text
      <4>1. Len(parts[k].text) \in Nat \ {0} /\ DOMAIN parts[k].text = 1..Len(parts[k].text)
        BY <3>2, EmptySeq DEF Texts
      <4>. QED
        BY <4>1
    <3>. QED
      BY <2>2, <3>1, <3>3
  <2>. QED
    BY <2>1, <2>2
<1>. HIDE DEF home
<1>8. ASSUME NEW k \in 1..Len(parts)
      PROVE  \E n \in DOMAIN whole : whole[n] = parts[k].text[1]
  <2>1. PICK m \in DOMAIN fresh[home(k)] : fresh[home(k)][m] = parts[k].text[1]
    BY <1>7
  <2>2. home(k) \in DOMAIN fresh
    BY <1>5, <1>7
  <2>. QED
    BY <1>6, <2>1, <2>2 DEF InRows
<1>9. ASSUME NEW j \in 1..Len(parts), NEW k \in 1..Len(parts), j < k
      PROVE  <<parts[j].text[1], parts[k].text[1]>> \in R
  <2>1. PICK m \in DOMAIN fresh[home(j)] : fresh[home(j)][m] = parts[j].text[1]
    BY <1>7
  <2>2. PICK n \in DOMAIN fresh[home(k)] : fresh[home(k)][n] = parts[k].text[1]
    BY <1>7
  <2>3. home(j) \in DOMAIN fresh /\ home(k) \in DOMAIN fresh
    BY <1>5, <1>7
  <2>4. CASE home(j) < home(k)
    BY <1>6, <2>1, <2>2, <2>3, <2>4 DEF AllInOrder
  <2>5. CASE ~(home(j) < home(k))
    <3>1. ~parts[j].continues /\ home(k) = j /\ home(j) = j
      <4>1. home(j) \in {j - 1, j} /\ home(k) \in {k - 1, k}
        BY <1>7
      <4>2. home(j) = j /\ home(k) = j
        BY <1>4, <1>9, <2>5, <4>1
      <4>3. j - 1 # j
        BY <1>4
      <4>. QED
        BY <1>7, <4>2, <4>3
    <3>2. 1 \in DOMAIN fresh[j] /\ fresh[j][1] = parts[j].text[1]
      BY <1>7, <3>1
    <3>3. n \in DOMAIN fresh[j] /\ fresh[j][n] = parts[k].text[1] /\ InOrder(fresh[j], R)
      BY <1>6, <2>2, <2>3, <3>1 DEF AllInOrder
    <3>4. n \in Nat \ {0} /\ fresh[j][n] \in Piece
      <4>1. fresh[j] \in Seq(Piece)
        BY <1>5
      <4>. QED
        BY <3>3, <4>1
    <3>5. CASE n = 1
      BY <3>2, <3>3, <3>4, <3>5
    <3>6. CASE n # 1
      <4>1. 1 < n
        BY <3>4, <3>6
      <4>2. <<fresh[j][1], fresh[j][n]>> \in R
        BY <3>2, <3>3, <4>1 DEF InOrder
      <4>. QED
        BY <3>2, <3>3, <4>2
    <3>. QED
      BY <3>5, <3>6
  <2>. QED
    BY <2>4, <2>5
<1>. QED
  BY <1>1, <1>4, <1>8, <1>9 DEF parts, whole

-----------------------------------------------------------------------------
(* How long parts get.                                                     *)

\* Counting words goes piece by piece.
LEMMA WordsIsAFold ==
  ASSUME NEW s \in Seq(Piece)
  PROVE  Words(s) = Folded([p \in Nat \X Piece |-> p[1] + p[2].words], 0, s)
<1>. DEFINE step == [p \in Nat \X Piece |-> p[1] + p[2].words]
<1>1. step \in StepOf(Nat, Piece) /\ 0 \in Nat
  <2>1. \A n \in Nat, piece \in Piece : n + piece.words \in Nat
    BY DEF Piece
  <2>. QED
    BY <2>1 DEF StepOf
<1>2. \A x \in Nat, e \in Piece : step[<<x, e>>] = x + e.words
  OBVIOUS
<1>. HIDE DEF step
<1>3. PICK g \in [SUBSET DOMAIN s -> Nat] : ComputesFold(g, step, 0, s)
  BY <1>1, FoldExists
<1>4. g = [t \in SUBSET DOMAIN s |-> IF t = {} THEN 0 ELSE g[t \ {Max(t)}] + s[Max(t)].words]
  <2>1. ASSUME NEW t \in SUBSET DOMAIN s, t # {}
        PROVE  step[<<g[t \ {Max(t)}], s[Max(t)]>>] = g[t \ {Max(t)}] + s[Max(t)].words
    <3>1. s[Max(t)] \in Piece /\ g[t \ {Max(t)}] \in Nat
      BY <2>1, MaxIsAnIndex
    <3>. HIDE DEF Max
    <3>. QED
      BY <1>2, <3>1
  <2>. QED
    BY <1>3, <2>1 DEF ComputesFold
<1>5. PICK it : /\ it = [t \in SUBSET DOMAIN s |-> IF t = {} THEN 0 ELSE it[t \ {Max(t)}] + s[Max(t)].words]
                /\ Words(s) = it[DOMAIN s]
  BY <1>4 DEF Words, FoldLeft, MapThenFoldSet
<1>6. FollowsFold(it, Nat, step, 0, s)
  <2>1. it[{}] = 0
    BY <1>5
  <2>2. ASSUME NEW m \in 1..Len(s), it[1..(m - 1)] \in Nat
        PROVE  it[1..m] = step[<<it[1..(m - 1)], s[m]>>]
    <3>1. /\ 1..m \in SUBSET DOMAIN s /\ 1..m # {}
          /\ Max(1..m) = m /\ (1..m) \ {m} = 1..(m - 1) /\ s[m] \in Piece
      BY PrefixOfIndexes
    <3>2. it[1..m] = it[1..(m - 1)] + s[m].words
      <4>. HIDE DEF Max
      <4>. QED
        BY <1>5, <3>1
    <3>. QED
      BY <1>2, <2>2, <3>1, <3>2
  <2>. QED
    BY <2>1, <2>2 DEF FollowsFold
<1>7. it[DOMAIN s] = Folded(step, 0, s)
  BY <1>1, <1>6, FoldIsUnique
<1>. QED
  BY <1>5, <1>7 DEF step

\* No pieces have no words, and one more piece adds its own.
LEMMA WordsFacts ==
  /\ Words(<<>>) = 0
  /\ \A s \in Seq(Piece), piece \in Piece :
       Words(s) \in Nat /\ Words(Append(s, piece)) = Words(s) + piece.words
<1>. DEFINE step == [p \in Nat \X Piece |-> p[1] + p[2].words]
<1>1. step \in StepOf(Nat, Piece) /\ 0 \in Nat
  <2>1. \A n \in Nat, piece \in Piece : n + piece.words \in Nat
    BY DEF Piece
  <2>. QED
    BY <2>1 DEF StepOf
<1>2. \A x \in Nat, e \in Piece : step[<<x, e>>] = x + e.words
  OBVIOUS
<1>3. \A s \in Seq(Piece) : Words(s) = Folded(step, 0, s)
  BY WordsIsAFold
<1>. HIDE DEF step
<1>4. GoesByElement(step, 0, Nat, Piece)
  BY <1>1, FoldGoesByElement
<1>5. Words(<<>>) = 0
  <2>1. <<>> \in Seq(Piece)
    OBVIOUS
  <2>. QED
    BY <1>3, <1>4, <2>1 DEF GoesByElement
<1>6. ASSUME NEW s \in Seq(Piece), NEW piece \in Piece
      PROVE  Words(s) \in Nat /\ Words(Append(s, piece)) = Words(s) + piece.words
  <2>1. Append(s, piece) \in Seq(Piece)
    OBVIOUS
  <2>2. Words(s) \in Nat /\ Words(Append(s, piece)) = step[<<Words(s), piece>>]
    BY <1>3, <1>4, <2>1 DEF GoesByElement
  <2>. QED
    BY <1>2, <2>2
<1>. QED
  BY <1>5, <1>6

\* Texts have a number of words, together the sum of what each has.
LEMMA WordsOfConcat ==
  ASSUME NEW s \in Seq(Piece), NEW t \in Seq(Piece)
  PROVE  /\ Words(s) \in Nat /\ Words(t) \in Nat
         /\ Words(s \o t) = Words(s) + Words(t)
<1>0. \A r \in Seq(Piece) : Words(r) \in Nat
  <2>. DEFINE A == {r \in Seq(Piece) : Words(r) \in Nat}
  <2>1. <<>> \in A
    BY WordsFacts
  <2>2. ASSUME NEW r \in Seq(Piece), NEW e \in Piece, r \in A
        PROVE  Append(r, e) \in A
    <3>1. e.words \in Nat /\ Append(r, e) \in Seq(Piece)
      BY DEF Piece
    <3>2. Words(r) \in Nat /\ Words(Append(r, e)) = Words(r) + e.words
      BY WordsFacts
    <3>. QED
      BY <3>1, <3>2
  <2>3. Seq(Piece) \subseteq A
    <3>. HIDE DEF A
    <3>. QED
      BY <2>1, <2>2, SequenceInduction
  <2>. QED
    BY <2>3
<1>. DEFINE A == {r \in Seq(Piece) : Words(s \o r) = Words(s) + Words(r)}
<1>1. <<>> \in A
  <2>1. s \o <<>> = s
    BY ConcatEmptySeq
  <2>. QED
    BY <1>0, <2>1, WordsFacts
<1>2. ASSUME NEW r \in Seq(Piece), NEW e \in Piece, r \in A
      PROVE  Append(r, e) \in A
  <2>1. s \o Append(r, e) = Append(s \o r, e) /\ s \o r \in Seq(Piece) /\ Append(r, e) \in Seq(Piece)
    OBVIOUS
  <2>2. Words(Append(s \o r, e)) = Words(s \o r) + e.words /\ Words(Append(r, e)) = Words(r) + e.words
    BY <2>1, WordsFacts
  <2>3. Words(s \o r) = Words(s) + Words(r)
    BY <1>2
  <2>4. e.words \in Nat /\ Words(s) \in Nat /\ Words(r) \in Nat
    BY <1>0 DEF Piece
  <2>5. Words(s \o Append(r, e)) = Words(s) + Words(Append(r, e))
    <3>. DEFINE x == Append(r, e)
                y == s \o r
                z == s \o x
    <3>1. z = Append(y, e) /\ Words(Append(y, e)) = Words(y) + e.words /\ Words(x) = Words(r) + e.words
      BY <2>1, <2>2
    <3>2. Words(y) = Words(s) + Words(r)
      BY <2>3
    <3>. HIDE DEF x, y, z
    <3>3. Words(z) = Words(s) + Words(x)
      BY <2>4, <3>1, <3>2
    <3>. QED
      BY <3>3 DEF z, x
  <2>. QED
    BY <2>1, <2>5
<1>3. Seq(Piece) \subseteq A
  <2>. HIDE DEF A
  <2>. QED
    BY <1>1, <1>2, SequenceInduction
<1>. QED
  BY <1>0, <1>3

\* A sentence: no piece before its last ends one.
Single == {s \in Texts : \A m \in 1..(Len(s) - 1) : ~s[m].stop}

\* A sentence is cut nowhere.
LEMMA SingleIsOne ==
  ASSUME NEW s \in Single
  PROVE  Len(Sentences(s)) = 1
<1>1. s \in Texts /\ \A m \in 1..(Len(s) - 1) : ~s[m].stop
  BY DEF Single
<1>2. /\ s \in Seq(Piece) /\ Len(s) \in Nat \ {0} /\ DOMAIN s = 1..Len(s)
      /\ Starts(s) \in SUBSET DOMAIN s /\ 1 \in Starts(s)
      /\ \A m \in 1..(Len(s) - 1) : m + 1 \in Starts(s) <=> s[m].stop
      /\ Sentences(s) = CutBefore(s, Starts(s))
  BY <1>1, StartsOfText
<1>3. Starts(s) = {1}
  <2>1. ASSUME NEW k \in Starts(s), k # 1
        PROVE  FALSE
    <3>1. k \in 1..Len(s) /\ k - 1 \in 1..(Len(s) - 1) /\ (k - 1) + 1 = k
      BY <1>2, <2>1
    <3>. QED
      BY <1>1, <1>2, <3>1
  <2>. QED
    BY <1>2, <2>1
<1>4. Len(Sentences(s)) = Cardinality(Starts(s))
  BY <1>2, CutIsSeq
<1>5. Cardinality({1}) = 1
  BY FS_Singleton
<1>. QED
  BY <1>3, <1>4, <1>5

\* The sentences of a text are sentences.
LEMMA SentencesAreSingle ==
  ASSUME NEW text \in Texts
  PROVE  Sentences(text) \in Seq(Single) /\ Sentences(text) # <<>>
<1>. DEFINE cut == Sentences(text)
            starts == Starts(text)
            s == Ascending(starts)
            n == Cardinality(starts)
            end(k) == CutEnd(text, starts, k)
<1>1. /\ text \in Seq(Piece) /\ Len(text) \in Nat \ {0}
      /\ starts \in SUBSET DOMAIN text /\ 1 \in starts
      /\ \A m \in 1..(Len(text) - 1) : m + 1 \in starts <=> text[m].stop
      /\ cut = CutBefore(text, starts)
  BY StartsOfText
<1>2. cut \in Seq(Texts) /\ cut # <<>>
  BY SentencesAreNotBlank
<1>. HIDE DEF cut, starts
<1>3. /\ Len(cut) = n /\ n \in Nat \ {0}
      /\ \A k \in 1..n : /\ s[k] \in 1..Len(text)
                         /\ end(k) \in s[k]..Len(text)
                         /\ cut[k] = SubSeq(text, s[k], end(k))
                         /\ \A m \in (s[k] + 1)..end(k) : m \notin starts
  <2>1. AreCuts(Piece, text, starts)
    BY <1>1, CutFacts
  <2>2. cut = CutBefore(text, starts)
    BY <1>1
  <2>. QED
    BY <2>1, <2>2 DEF AreCuts
<1>. HIDE DEF s, n, end
<1>4. ASSUME NEW k \in 1..n
      PROVE  cut[k] \in Single
  <2>. DEFINE a == s[k]
              b == end(k)
              c == SubSeq(text, a, b)
  <2>1. /\ a \in 1..Len(text) /\ b \in a..Len(text) /\ cut[k] = c
        /\ \A m \in (a + 1)..b : m \notin starts
    BY <1>3
  <2>. HIDE DEF a, b
  <2>2. /\ c \in Seq(Piece) /\ Len(c) = b - a + 1 /\ \A i \in 1..(b - a + 1) : c[i] = text[a + i - 1]
    <3>1. \A i \in a..b : text[i] \in Piece
      BY <1>1, <2>1
    <3>2. a \in Int /\ b \in Int /\ a <= b
      BY <2>1
    <3>. QED
      BY <3>1, <3>2, SubSeqProperties
  <2>. HIDE DEF c
  <2>3. ASSUME NEW m \in 1..(Len(c) - 1)
        PROVE  ~c[m].stop
    <3>. DEFINE i == a + m - 1
    <3>1. m \in 1..(b - a + 1) /\ i \in 1..(Len(text) - 1) /\ i + 1 \in (a + 1)..b
      BY <1>1, <2>1, <2>2
    <3>2. c[m] = text[i]
      BY <2>2, <3>1
    <3>. HIDE DEF i
    <3>. QED
      BY <1>1, <2>1, <3>1, <3>2
  <2>4. cut[k] \in Texts
    BY <1>2, <1>3
  <2>. QED
    BY <2>1, <2>3, <2>4 DEF Single
<1>5. cut \in Seq(Single)
  <2>1. cut \in [1..n -> Single]
    <3>1. DOMAIN cut = 1..n /\ cut = [k \in 1..n |-> cut[k]]
      BY <1>2, <1>3
    <3>. QED
      BY <1>4, <3>1
  <2>. QED
    BY <1>3, <2>1, SeqDef
<1>. QED
  BY <1>2, <1>5 DEF cut

\* A part is made of sentences, and when it is over the limit one of them is all it adds.
LimitedPart(k, part) ==
  /\ \A j \in DOMAIN part : part[j] \in Single
  /\ Words(FlattenSeq(part)) > MaxWords => Len(part) <= IF k = 1 THEN 1 ELSE 2

\* So is each part of a block.
Limited(parts) == \A k \in DOMAIN parts : LimitedPart(k, parts[k])

\* One more sentence keeps it so.
LEMMA SplitStepIsLimited ==
  ASSUME NEW parts \in Partings, NEW sentence \in Single, Limited(parts)
  PROVE  Limited(SplitStep(parts, sentence))
<1>. DEFINE P == Seq(Seq(Piece)) \ {<<>>}
            current == Last(parts)
            f == Front(parts)
            n == Len(parts)
<1>1. parts \in Seq(P) /\ parts # <<>> /\ sentence \in Seq(Piece)
  BY DEF Partings, Single, Texts
<1>. HIDE DEF P
<1>2. /\ f \in Seq(P) /\ n \in Nat \ {0} /\ Len(f) = n - 1 /\ DOMAIN f = 1..(n - 1)
      /\ \A k \in 1..(n - 1) : f[k] = parts[k]
      /\ current \in P /\ current = parts[n] /\ DOMAIN parts = 1..n
  <2>1. /\ f \in Seq(P) /\ n \in Nat \ {0} /\ Len(f) = n - 1 /\ DOMAIN f = 1..(n - 1)
        /\ \A k \in 1..(n - 1) : f[k] = parts[k]
        /\ current \in P /\ current = parts[n]
    BY <1>1, FrontAndLast
  <2>2. DOMAIN parts = 1..n
    BY <1>1
  <2>. QED
    BY <2>1, <2>2
<1>3. current \in Seq(Seq(Piece)) /\ current # <<>>
  BY <1>2 DEF P
<1>4. SplitStep(parts, sentence) =
        IF Words(FlattenSeq(current)) + Words(sentence) > MaxWords
        THEN Append(parts, <<Last(current), sentence>>)
        ELSE Append(f, Append(current, sentence))
  BY DEF SplitStep
<1>5. \A k \in 1..n : LimitedPart(k, parts[k])
  BY <1>2 DEF Limited
<1>6. /\ Len(current) \in Nat \ {0} /\ DOMAIN current = 1..Len(current)
      /\ \A j \in 1..Len(current) : current[j] \in Single
      /\ Last(current) \in Seq(Piece) /\ Last(current) \in Single
  <2>1. Len(current) \in Nat \ {0} /\ Last(current) = current[Len(current)] /\ Last(current) \in Seq(Piece)
        /\ DOMAIN current = 1..Len(current)
    <3>1. Len(current) \in Nat \ {0} /\ Last(current) = current[Len(current)] /\ Last(current) \in Seq(Piece)
      BY <1>3, FrontAndLast
    <3>2. DOMAIN current = 1..Len(current)
      BY <1>3
    <3>. QED
      BY <3>1, <3>2
  <2>2. \A j \in DOMAIN current : current[j] \in Single
    BY <1>2, <1>5 DEF LimitedPart
  <2>. QED
    BY <2>1, <2>2
<1>. HIDE DEF current, f, n
<1>7. ASSUME NEW x \in P
      PROVE  /\ DOMAIN Append(parts, x) = 1..(n + 1) /\ Append(parts, x)[n + 1] = x
             /\ \A k \in 1..n : Append(parts, x)[k] = parts[k]
             /\ DOMAIN Append(f, x) = 1..n /\ Append(f, x)[n] = x
             /\ \A k \in 1..(n - 1) : Append(f, x)[k] = parts[k]
  <2>1. /\ Append(parts, x) \in Seq(P) /\ Len(Append(parts, x)) = n + 1 /\ Append(parts, x)[n + 1] = x
        /\ \A k \in 1..n : Append(parts, x)[k] = parts[k]
    BY <1>1, <1>7, AppendProperties DEF n
  <2>2. /\ Append(f, x) \in Seq(P) /\ Len(Append(f, x)) = Len(f) + 1 /\ Append(f, x)[Len(f) + 1] = x
        /\ \A k \in 1..Len(f) : Append(f, x)[k] = f[k]
    BY <1>2, <1>7, AppendProperties
  <2>3. (n - 1) + 1 = n
    BY <1>2
  <2>. QED
    BY <1>2, <2>1, <2>2, <2>3
<1>8. ASSUME Words(FlattenSeq(current)) + Words(sentence) > MaxWords
      PROVE  Limited(SplitStep(parts, sentence))
  <2>. DEFINE x == <<Last(current), sentence>>
              ps == Append(parts, x)
  <2>1. x \in P /\ Len(x) = 2 /\ \A j \in DOMAIN x : x[j] \in Single
    BY <1>1, <1>6 DEF P
  <2>2. SplitStep(parts, sentence) = ps
    BY <1>4, <1>8
  <2>. HIDE DEF x
  <2>3. /\ DOMAIN ps = 1..(n + 1) /\ ps[n + 1] = x /\ \A k \in 1..n : ps[k] = parts[k]
    BY <1>7, <2>1
  <2>. HIDE DEF ps
  <2>4. LimitedPart(n + 1, x)
    <3>1. n + 1 # 1
      BY <1>2
    <3>. QED
      BY <2>1, <3>1 DEF LimitedPart
  <2>5. \A k \in 1..(n + 1) : k = n + 1 \/ k \in 1..n
    BY <1>2
  <2>. QED
    BY <1>5, <2>2, <2>3, <2>4, <2>5 DEF Limited
<1>9. ASSUME ~(Words(FlattenSeq(current)) + Words(sentence) > MaxWords)
      PROVE  Limited(SplitStep(parts, sentence))
  <2>. DEFINE x == Append(current, sentence)
              ps == Append(f, x)
  <2>1. /\ x \in Seq(Seq(Piece)) /\ Len(x) = Len(current) + 1 /\ DOMAIN x = 1..(Len(current) + 1)
        /\ \A j \in 1..Len(current) : x[j] = current[j]
        /\ x[Len(current) + 1] = sentence
    <3>1. /\ x \in Seq(Seq(Piece)) /\ Len(x) = Len(current) + 1
          /\ \A j \in 1..Len(current) : x[j] = current[j]
          /\ x[Len(current) + 1] = sentence
      BY <1>1, <1>3, AppendProperties
    <3>. HIDE DEF x
    <3>2. DOMAIN x = 1..Len(x)
      BY <3>1
    <3>. QED
      BY <3>1, <3>2
  <2>2. FlattenSeq(x) = FlattenSeq(current) \o sentence /\ FlattenSeq(current) \in Seq(Piece)
    BY <1>1, <1>3, FlattenByPart
  <2>3. Words(FlattenSeq(x)) = Words(FlattenSeq(current)) + Words(sentence)
    BY <1>1, <2>2, WordsOfConcat
  <2>4. SplitStep(parts, sentence) = ps
    BY <1>4, <1>9
  <2>. HIDE DEF x
  <2>5. x \in P
    <3>1. Len(x) # 0
      BY <1>6, <2>1
    <3>2. x # <<>>
      BY <3>1
    <3>. QED
      BY <2>1, <3>2 DEF P
  <2>6. /\ DOMAIN ps = 1..n /\ ps[n] = x /\ \A k \in 1..(n - 1) : ps[k] = parts[k]
    BY <1>7, <2>5
  <2>. HIDE DEF ps
  <2>7. LimitedPart(n, x)
    <3>1. \A j \in 1..(Len(current) + 1) : j \in 1..Len(current) \/ j = Len(current) + 1
      BY <1>6
    <3>2. \A j \in DOMAIN x : x[j] \in Single
      BY <1>6, <2>1, <3>1
    <3>3. ~(Words(FlattenSeq(x)) > MaxWords)
      BY <1>9, <2>3
    <3>. QED
      BY <3>2, <3>3 DEF LimitedPart
  <2>8. \A k \in 1..n : k = n \/ k \in 1..(n - 1)
    BY <1>2
  <2>9. \A k \in 1..(n - 1) : k \in 1..n
    BY <1>2
  <2>. QED
    BY <1>5, <2>4, <2>6, <2>7, <2>8, <2>9 DEF Limited
<1>. QED
  BY <1>8, <1>9

\* So are the parts of a block.
LEMMA SplitIsLimited ==
  ASSUME NEW text \in Texts
  PROVE  Limited(Split(text))
<1>. DEFINE s == Sentences(text)
            h == Head(s)
            t == Tail(s)
            A == {r \in Seq(Single) : Limited(Parted(h, r))}
<1>1. s \in Seq(Single) /\ s # <<>>
  BY SentencesAreSingle
<1>2. Split(text) = Parted(h, t)
  BY DEF Split, Parted
<1>. HIDE DEF s
<1>3. h \in Single /\ t \in Seq(Single)
  BY <1>1, HeadTailProperties
<1>. HIDE DEF h, t
<1>4. Single \subseteq Seq(Piece)
  BY DEF Single, Texts
<1>5. Seq(Single) \subseteq Seq(Seq(Piece))
  BY <1>4
<1>6. <<>> \in A
  <2>. DEFINE row == <<h>>
              one == <<row>>
  <2>1. Parted(h, <<>>) = one
    BY <1>3, <1>4, PartedFacts
  <2>2. row \in Seq(Single) /\ Len(row) = 1 /\ DOMAIN one = {1} /\ one[1] = row
    BY <1>3
  <2>. HIDE DEF row, one
  <2>3. LimitedPart(1, row)
    <3>1. \A j \in DOMAIN row : row[j] \in Single
      BY <2>2
    <3>. QED
      BY <2>2, <3>1 DEF LimitedPart
  <2>4. Limited(one)
    BY <2>2, <2>3 DEF Limited
  <2>5. <<>> \in Seq(Single)
    OBVIOUS
  <2>. QED
    BY <2>1, <2>4, <2>5
<1>7. ASSUME NEW r \in Seq(Single), NEW e \in Single, r \in A
      PROVE  Append(r, e) \in A
  <2>1. r \in Seq(Seq(Piece)) /\ e \in Seq(Piece) /\ h \in Seq(Piece)
    BY <1>3, <1>4, <1>5
  <2>2. Parted(h, r) \in Partings /\ Parted(h, Append(r, e)) = SplitStep(Parted(h, r), e)
    BY <2>1, PartedFacts
  <2>3. Limited(SplitStep(Parted(h, r), e))
    BY <1>7, <2>2, SplitStepIsLimited
  <2>4. Append(r, e) \in Seq(Single)
    OBVIOUS
  <2>. QED
    BY <2>2, <2>3, <2>4
<1>8. Seq(Single) \subseteq A
  <2>. HIDE DEF A
  <2>. QED
    BY <1>6, <1>7, SequenceInduction
<1>. QED
  BY <1>2, <1>3, <1>8

\* What a part over the limit adds is one sentence.
LEMMA LimitedAddsOne ==
  ASSUME NEW parts \in Sharing, Limited(parts), NEW k \in DOMAIN parts,
         Words(FlattenSeq(parts[k])) > MaxWords
  PROVE  Own(parts)[k] \in Single
<1>. DEFINE p == parts[k]
<1>1. p \in Part /\ k \in Nat \ {0} /\ (k > 1 => Len(p) >= 2)
  BY DEF Sharing
<1>2. Own(parts)[k] = OwnOf(k, p)
  BY DEF Own
<1>3. (\A j \in DOMAIN p : p[j] \in Single) /\ Len(p) <= IF k = 1 THEN 1 ELSE 2
  BY DEF Limited, LimitedPart
<1>. HIDE DEF p
<1>4. p \in Seq(Texts) /\ Len(p) \in Nat \ {0} /\ DOMAIN p = 1..Len(p)
  <2>1. p \in Seq(Texts) /\ p # <<>>
    BY <1>1 DEF Part
  <2>. QED
    BY <2>1, EmptySeq
<1>5. \A s \in Single : s \in Seq(Piece)
  BY DEF Single, Texts
<1>6. CASE k = 1
  <2>1. Len(p) = 1 /\ p[1] \in Single
    BY <1>3, <1>4, <1>6
  <2>2. p = <<p[1]>>
    BY <1>4, <2>1
  <2>3. FlattenSeq(<<p[1]>>) = p[1]
    BY <1>5, <2>1, FlattenOne
  <2>. QED
    BY <1>2, <1>6, <2>1, <2>2, <2>3 DEF OwnOf
<1>7. CASE k # 1
  <2>1. Len(p) = 2 /\ p[2] \in Single
    BY <1>1, <1>3, <1>4, <1>7
  <2>2. Tail(p) = <<p[2]>>
    <3>. DEFINE t == Tail(p)
    <3>1. t \in Seq(Texts) /\ Len(t) = 1 /\ t[1] = p[2]
      <4>1. /\ t \in Seq(Texts) /\ Len(t) = Len(p) - 1
            /\ \A i \in 1..Len(t) : t[i] = p[i + 1]
        BY <1>4, <2>1, EmptySeq, HeadTailProperties
      <4>. HIDE DEF t
      <4>. QED
        BY <2>1, <4>1
    <3>. HIDE DEF t
    <3>2. t = <<p[2]>>
      BY <3>1
    <3>. QED
      BY <3>2 DEF t
  <2>3. FlattenSeq(<<p[2]>>) = p[2]
    BY <1>5, <2>1, FlattenOne
  <2>. QED
    BY <1>2, <1>7, <2>1, <2>2, <2>3 DEF OwnOf
<1>. QED
  BY <1>6, <1>7

\* Blocks that reach the floor.
Enough(blocks) == \A b \in DOMAIN blocks : Words(blocks[b]) >= MinWords

\* What merging has done with reaches the floor.
LEMMA MergedIsEnough ==
  ASSUME NEW texts \in Seq(Texts)
  PROVE  Merged(texts) \in Merges /\ Enough(Merged(texts).done)
<1>. DEFINE A == {s \in Seq(Texts) : Merged(s) \in Merges /\ Enough(Merged(s).done)}
<1>1. <<>> \in A
  <2>1. Merged(<<>>) \in Merges /\ Merged(<<>>).done = <<>>
    BY MergedFacts, NothingMerged
  <2>2. Enough(<<>>)
    BY DEF Enough
  <2>. QED
    BY <2>1, <2>2
<1>2. ASSUME NEW s \in Seq(Texts), NEW text \in Texts, s \in A
      PROVE  Append(s, text) \in A
  <2>. DEFINE m == Merged(s)
              r == Merged(Append(s, text))
              block == m.pending \o text
  <2>1. m \in Merges /\ r = MergeStep(m, text) /\ Append(s, text) \in Seq(Texts) /\ Enough(m.done)
    BY <1>2, MergedFacts, AppendProperties
  <2>. HIDE DEF m, r
  <2>2. r \in Merges
    BY <2>1, MergeStepIsTyped
  <2>3. r = IF Words(block) < MinWords THEN [m EXCEPT !.pending = block]
            ELSE [done |-> Append(m.done, block), pending |-> <<>>]
    BY <2>1 DEF MergeStep
  <2>4. m.done \in Seq(Seq(Piece)) /\ block \in Seq(Piece) /\ Words(block) \in Nat
    <3>1. m.done \in Seq(Seq(Piece)) /\ m.pending \in Seq(Piece) /\ text \in Seq(Piece)
      BY <2>1, TextsAreSeqs DEF Merges
    <3>2. block \in Seq(Piece)
      BY <3>1, ConcatProperties
    <3>. QED
      BY <3>1, <3>2, WordsOfConcat
  <2>. HIDE DEF block
  <2>5. Enough(r.done)
    <3>1. CASE Words(block) < MinWords
      <4>1. r.done = m.done
        BY <2>1, <2>3, <3>1 DEF Merges
      <4>. QED
        BY <2>1, <4>1
    <3>2. CASE ~(Words(block) < MinWords)
      <4>. DEFINE d == m.done
                  e == Append(d, block)
      <4>1. r.done = e
        BY <2>3, <3>2
      <4>2. /\ e \in Seq(Seq(Piece)) /\ Len(e) = Len(d) + 1 /\ Len(d) \in Nat
            /\ \A k \in 1..Len(d) : e[k] = d[k]
            /\ e[Len(d) + 1] = block
        BY <2>4, AppendProperties, LenProperties
      <4>3. \A b \in 1..Len(d) : Words(d[b]) >= MinWords
        <5>1. DOMAIN d = 1..Len(d)
          BY <2>4
        <5>. QED
          BY <2>1, <5>1 DEF Enough
      <4>. HIDE DEF d, e
      <4>4. Words(block) >= MinWords
        BY <2>4, <3>2, WordLimitsAreNatural
      <4>5. DOMAIN e = 1..(Len(d) + 1) /\ \A b \in 1..(Len(d) + 1) : b \in 1..Len(d) \/ b = Len(d) + 1
        BY <4>2
      <4>6. Enough(e)
        BY <4>2, <4>3, <4>4, <4>5 DEF Enough
      <4>. QED
        BY <4>1, <4>6
    <3>. QED
      BY <3>1, <3>2
  <2>. QED
    BY <2>1, <2>2, <2>5 DEF r
<1>3. Seq(Texts) \subseteq A
  <2>. HIDE DEF A
  <2>. QED
    BY <1>1, <1>2, SequenceInduction
<1>. QED
  BY <1>3

\* A block is below the floor only if it is the only one.
LEMMA MergeIsEnough ==
  ASSUME NEW texts \in Seq(Texts)
  PROVE  Enough(Merge(texts)) \/ Len(Merge(texts)) = 1
<1>. DEFINE m == Merged(texts)
<1>1. m \in Merges /\ Enough(m.done)
  BY MergedIsEnough
<1>2. Merge(texts) = IF m.pending = <<>> THEN m.done
                     ELSE IF m.done = <<>> THEN <<m.pending>>
                     ELSE [m.done EXCEPT ![Len(m.done)] = @ \o m.pending]
  BY DEF Merge, Merged
<1>. HIDE DEF m
<1>3. m.done \in Seq(Seq(Piece)) /\ m.pending \in Seq(Piece)
  BY <1>1, TextsAreSeqs DEF Merges
<1>4. CASE m.pending = <<>>
  BY <1>1, <1>2, <1>4
<1>5. CASE m.pending # <<>> /\ m.done = <<>>
  BY <1>2, <1>5
<1>6. CASE m.pending # <<>> /\ m.done # <<>>
  <2>. DEFINE d == m.done
              n == Len(d)
              x == d[n] \o m.pending
              e == [d EXCEPT ![n] = x]
  <2>1. n \in 1..Len(d) /\ d[n] \in Seq(Piece) /\ DOMAIN d = 1..Len(d)
    BY <1>3, <1>6, EmptySeq
  <2>2. x \in Seq(Piece) /\ Words(x) = Words(d[n]) + Words(m.pending)
        /\ Words(d[n]) \in Nat /\ Words(m.pending) \in Nat
    BY <1>3, <2>1, ConcatProperties, WordsOfConcat
  <2>3. Merge(texts) = e
    BY <1>2, <1>6
  <2>4. \A b \in 1..Len(d) : Words(d[b]) >= MinWords
    BY <1>1, <2>1 DEF Enough
  <2>5. d \in Seq(Seq(Piece))
    BY <1>3
  <2>6. Words(x) >= MinWords
    <3>1. Words(d[n]) >= MinWords
      BY <2>1, <2>4
    <3>. HIDE DEF d, n, x
    <3>. QED
      BY <2>2, <3>1, WordLimitsAreNatural
  <2>. HIDE DEF d, n, x
  <2>7. /\ e \in Seq(Seq(Piece)) /\ Len(e) = Len(d)
        /\ \A j \in 1..Len(d) : e[j] = IF j = n THEN x ELSE d[j]
    BY <2>1, <2>2, <2>5, ExceptSeq
  <2>. HIDE DEF e
  <2>8. DOMAIN e = 1..Len(d)
    BY <2>7
  <2>9. Enough(e)
    BY <2>4, <2>6, <2>7, <2>8 DEF Enough
  <2>. QED
    BY <2>3, <2>9
<1>. QED
  BY <1>4, <1>5, <1>6

\* A part over the limit adds no more than a sentence.
LongAddLittle(parts) ==
  \A n \in DOMAIN parts : Words(parts[n].text) > MaxWords => Len(Sentences(FreshText(parts[n]))) <= 1

\* A part below the floor that neither continues another nor is continued has no other beside it.
ShortAreAlone(parts) ==
  \A n \in DOMAIN parts :
    Words(parts[n].text) < MinWords /\ ~parts[n].continues /\ (n < Len(parts) => ~parts[n + 1].continues) =>
      Len(parts) = 1

\* So it is for the parts of any run of paragraphs.
LEMMA PartsAreLimited ==
  ASSUME NEW texts \in Seq(Texts)
  PROVE  LongAddLittle(PartsOf(texts)) /\ ShortAreAlone(PartsOf(texts))
<1>. DEFINE blocks == Merge(texts)
            partOf(b, k) == [text |-> FlattenSeq(Split(blocks[b])[k]), continues |-> k > 1]
            ofBlock(b) == [k \in DOMAIN Split(blocks[b]) |-> partOf(b, k)]
            all == [b \in DOMAIN blocks |-> ofBlock(b)]
<1>1. blocks \in Seq(Texts) /\ (Enough(blocks) \/ Len(blocks) = 1)
  BY MergeIsTyped, MergeIsEnough
<1>2. PartsOf(texts) = FlattenSeq(all)
  BY DEF PartsOf
<1>. HIDE DEF blocks
<1>3. Len(blocks) \in Nat /\ DOMAIN blocks = 1..Len(blocks) /\ \A b \in DOMAIN blocks : blocks[b] \in Texts
  BY <1>1
<1>4. ASSUME NEW b \in DOMAIN blocks
      PROVE  /\ Split(blocks[b]) \in Sharing /\ Limited(Split(blocks[b])) /\ FlattenSeq(Own(Split(blocks[b]))) = blocks[b]
             /\ Len(Split(blocks[b])) \in Nat \ {0} /\ DOMAIN Split(blocks[b]) = 1..Len(Split(blocks[b]))
             /\ ofBlock(b) \in Seq(FullParts) /\ DOMAIN ofBlock(b) = 1..Len(Split(blocks[b]))
             /\ Len(ofBlock(b)) = Len(Split(blocks[b]))
             /\ \A k \in DOMAIN ofBlock(b) :
                  /\ ofBlock(b)[k].text = FlattenSeq(Split(blocks[b])[k]) /\ ofBlock(b)[k].continues = (k > 1)
                  /\ FreshText(ofBlock(b)[k]) = Own(Split(blocks[b]))[k]
  <2>. DEFINE parts == Split(blocks[b])
  <2>1. parts \in Sharing /\ Limited(parts) /\ FlattenSeq(Own(parts)) = blocks[b]
    BY <1>3, SplitIsWhole, SplitIsLimited
  <2>2. \A k \in DOMAIN parts : partOf(b, k) \in FullParts /\ FreshText(partOf(b, k)) = Own(parts)[k]
    BY <2>1, FreshIsOwn
  <2>3. \A k \in DOMAIN parts : partOf(b, k).text = FlattenSeq(parts[k]) /\ partOf(b, k).continues = (k > 1)
    OBVIOUS
  <2>. HIDE DEF parts, partOf
  <2>4. Len(parts) \in Nat \ {0} /\ DOMAIN parts = 1..Len(parts)
    <3>1. parts \in Seq(Part) /\ parts # <<>>
      BY <2>1 DEF Sharing
    <3>. QED
      BY <3>1, EmptySeq
  <2>5. ofBlock(b) = [k \in 1..Len(parts) |-> partOf(b, k)]
    BY <2>4 DEF parts
  <2>6. ofBlock(b) \in Seq(FullParts) /\ DOMAIN ofBlock(b) = 1..Len(parts) /\ Len(ofBlock(b)) = Len(parts)
        /\ \A k \in 1..Len(parts) : ofBlock(b)[k] = partOf(b, k)
    <3>1. ofBlock(b) \in [1..Len(parts) -> FullParts] /\ \A k \in 1..Len(parts) : ofBlock(b)[k] = partOf(b, k)
      BY <2>2, <2>4, <2>5
    <3>2. DOMAIN ofBlock(b) = 1..Len(parts)
      BY <2>5
    <3>. HIDE DEF ofBlock
    <3>3. ofBlock(b) \in Seq(FullParts)
      BY <2>4, <3>1, SeqDef
    <3>. QED
      BY <2>4, <3>1, <3>2, <3>3
  <2>. HIDE DEF ofBlock
  <2>. QED
    BY <2>1, <2>2, <2>3, <2>4, <2>6 DEF parts
<1>5. all \in Seq(Seq(FullParts)) /\ DOMAIN all = 1..Len(blocks) /\ Len(all) = Len(blocks)
      /\ \A b \in DOMAIN blocks : all[b] = ofBlock(b)
  <2>. HIDE DEF ofBlock
  <2>1. all \in [1..Len(blocks) -> Seq(FullParts)] /\ DOMAIN all = 1..Len(blocks) /\ \A b \in DOMAIN blocks : all[b] = ofBlock(b)
    BY <1>3, <1>4
  <2>. HIDE DEF all
  <2>2. all \in Seq(Seq(FullParts))
    BY <1>3, <2>1, SeqDef
  <2>. QED
    BY <1>3, <2>1, <2>2
<1>. HIDE DEF ofBlock, all
<1>. DEFINE P == PartsOf(texts)
<1>6. P \in Seq(FullParts) /\ InRows(P, all)
  BY <1>2, <1>5, FlattenIsInRows, FlattenIsSeq
<1>7. \A n \in DOMAIN P : \E b \in DOMAIN blocks : \E j \in DOMAIN ofBlock(b) :
        /\ P[n] = ofBlock(b)[j]
        /\ j < Len(ofBlock(b)) => n < Len(P) /\ P[n + 1] = ofBlock(b)[j + 1]
  <2>. HIDE DEF P
  <2>1. ASSUME NEW n \in DOMAIN P
        PROVE  \E b \in DOMAIN blocks : \E j \in DOMAIN ofBlock(b) :
                 /\ P[n] = ofBlock(b)[j]
                 /\ j < Len(ofBlock(b)) => n < Len(P) /\ P[n + 1] = ofBlock(b)[j + 1]
    <3>1. PICK b \in DOMAIN all : \E j \in DOMAIN all[b] :
            /\ P[n] = all[b][j]
            /\ j < Len(all[b]) => n < Len(P) /\ P[n + 1] = all[b][j + 1]
      BY <1>6 DEF InRows
    <3>2. b \in DOMAIN blocks /\ all[b] = ofBlock(b)
      BY <1>3, <1>5
    <3>. QED
      BY <3>1, <3>2
  <2>. QED
    BY <2>1
<1>8. ASSUME NEW n \in DOMAIN P, Words(P[n].text) > MaxWords
      PROVE  Len(Sentences(FreshText(P[n]))) <= 1
  <2>1. PICK b \in DOMAIN blocks : \E j \in DOMAIN ofBlock(b) : P[n] = ofBlock(b)[j]
    BY <1>7
  <2>2. PICK j \in DOMAIN ofBlock(b) : P[n] = ofBlock(b)[j]
    BY <2>1
  <2>. DEFINE parts == Split(blocks[b])
  <2>3. /\ parts \in Sharing /\ Limited(parts) /\ j \in DOMAIN parts
        /\ P[n].text = FlattenSeq(parts[j]) /\ FreshText(P[n]) = Own(parts)[j]
    BY <1>4, <2>2
  <2>. HIDE DEF parts, P
  <2>4. Own(parts)[j] \in Single
    BY <1>8, <2>3, LimitedAddsOne
  <2>5. Len(Sentences(Own(parts)[j])) = 1
    BY <2>4, SingleIsOne
  <2>. QED
    BY <2>3, <2>5
<1>9. ASSUME NEW n \in DOMAIN P, Words(P[n].text) < MinWords, ~P[n].continues,
             n < Len(P) => ~P[n + 1].continues
      PROVE  Len(P) = 1
  <2>1. PICK b \in DOMAIN blocks : \E j \in DOMAIN ofBlock(b) :
          /\ P[n] = ofBlock(b)[j]
          /\ j < Len(ofBlock(b)) => n < Len(P) /\ P[n + 1] = ofBlock(b)[j + 1]
    BY <1>7
  <2>2. PICK j \in DOMAIN ofBlock(b) :
          /\ P[n] = ofBlock(b)[j]
          /\ j < Len(ofBlock(b)) => n < Len(P) /\ P[n + 1] = ofBlock(b)[j + 1]
    BY <2>1
  <2>. DEFINE parts == Split(blocks[b])
              row == ofBlock(b)
  <2>3. /\ parts \in Sharing /\ FlattenSeq(Own(parts)) = blocks[b]
        /\ Len(parts) \in Nat \ {0} /\ DOMAIN parts = 1..Len(parts)
        /\ row \in Seq(FullParts) /\ DOMAIN row = 1..Len(parts) /\ Len(row) = Len(parts)
        /\ \A k \in 1..Len(parts) :
             row[k].text = FlattenSeq(parts[k]) /\ row[k].continues = (k > 1)
    BY <1>4
  <2>4. /\ j \in 1..Len(parts) /\ P[n] = row[j]
        /\ j < Len(parts) => n < Len(P) /\ P[n + 1] = row[j + 1]
    BY <2>2, <2>3
  <2>. HIDE DEF parts, row, P
  <2>5. j = 1
    <3>1. ~(j > 1)
      BY <1>9, <2>3, <2>4
    <3>. QED
      BY <2>3, <2>4, <3>1
  <2>6. Len(parts) = 1
    <3>1. SUFFICES ASSUME 1 < Len(parts)
                   PROVE  FALSE
      BY <2>3
    <3>2. 2 \in 1..Len(parts) /\ n < Len(P) /\ P[n + 1] = row[2]
      BY <2>3, <2>4, <2>5, <3>1
    <3>3. row[2].continues = (2 > 1) /\ 2 > 1
      BY <2>3, <3>2
    <3>4. P[n + 1].continues
      BY <3>2, <3>3, Zenon
    <3>. QED
      BY <1>9, <3>2, <3>4
  <2>7. P[n].text = blocks[b]
    <3>1. Own(parts) = <<OwnOf(1, parts[1])>>
      <4>1. Own(parts) = [k \in 1..1 |-> OwnOf(k, parts[k])]
        BY <2>3, <2>6 DEF Own
      <4>. QED
        BY <4>1
    <3>2. OwnOf(1, parts[1]) = FlattenSeq(parts[1])
      BY DEF OwnOf
    <3>3. FlattenSeq(parts[1]) \in Seq(Piece)
      <4>1. parts[1] \in Seq(Seq(Piece))
        <5>1. parts[1] \in Part
          BY <2>3, <2>6 DEF Sharing
        <5>. QED
          BY <5>1, TextsAreSeqs DEF Part
      <4>. QED
        BY <4>1, FlattenIsSeq
    <3>4. FlattenSeq(<<FlattenSeq(parts[1])>>) = FlattenSeq(parts[1])
      BY <3>3, FlattenOne
    <3>5. P[n].text = FlattenSeq(parts[1])
      BY <2>3, <2>4, <2>5, <2>6
    <3>. QED
      BY <2>3, <3>1, <3>2, <3>4, <3>5
  <2>8. Len(blocks) = 1
    <3>1. ~Enough(blocks)
      <4>1. blocks[b] \in Seq(Piece)
        BY <1>3 DEF Texts
      <4>2. Words(blocks[b]) \in Nat
        BY <4>1, WordsOfConcat
      <4>3. ~(Words(blocks[b]) >= MinWords)
        BY <1>9, <2>7, <4>2, WordLimitsAreNatural
      <4>. QED
        BY <4>3 DEF Enough
    <3>. QED
      BY <1>1, <3>1
  <2>9. all = <<row>>
    <3>1. b = 1 /\ all[1] = row
      BY <1>3, <1>5, <2>8 DEF row
    <3>. QED
      BY <1>5, <2>8, <3>1
  <2>10. P = row
    BY <1>2, <2>3, <2>9, FlattenOne DEF P
  <2>. QED
    BY <2>3, <2>6, <2>10
<1>. HIDE DEF P
<1>10. LongAddLittle(P)
  BY <1>8 DEF LongAddLittle
<1>11. ShortAreAlone(P)
  BY <1>9 DEF ShortAreAlone
<1>. QED
  BY <1>10, <1>11 DEF P

-----------------------------------------------------------------------------
(* What stands together in a text still does in a part of it.              *)

\* Piece x stands in text t, and y right after it unless it is the same.
Together(t, x, y) == \E m, n \in DOMAIN t : n \in {m, m + 1} /\ t[m] = x /\ t[n] = y

\* In some text of a sequence they do.
TogetherIn(ss, x, y) == \E k \in DOMAIN ss : Together(ss[k], x, y)

\* What stands together in a text does so in every text it is a part of; texts
\* that follow each other bring together the last piece of one and the first
\* of the other, and nothing else.
LEMMA ConcatIsTogether ==
  ASSUME NEW S, NEW a \in Seq(S), NEW b \in Seq(S), NEW x, NEW y
  PROVE  /\ Together(a, x, y) => Together(a \o b, x, y)
         /\ Together(b, x, y) => Together(a \o b, x, y)
         /\ Together(a \o b, x, y) =>
              \/ Together(a, x, y) \/ Together(b, x, y)
              \/ a # <<>> /\ b # <<>> /\ x = Last(a) /\ y = Head(b)
         /\ a # <<>> /\ b # <<>> => Together(a \o b, Last(a), Head(b))
<1>. DEFINE c == a \o b
            p == Len(a)
            q == Len(b)
<1>1. /\ c \in Seq(S) /\ p \in Nat /\ q \in Nat /\ DOMAIN a = 1..p /\ DOMAIN b = 1..q
      /\ Len(c) = p + q /\ DOMAIN c = 1..(p + q)
      /\ \A i \in 1..(p + q) : c[i] = IF i <= p THEN a[i] ELSE b[i - p]
  <2>1. /\ c \in Seq(S) /\ Len(c) = Len(a) + Len(b)
        /\ \A i \in 1..(Len(a) + Len(b)) : c[i] = IF i <= Len(a) THEN a[i] ELSE b[i - Len(a)]
    BY ConcatProperties
  <2>. HIDE DEF c
  <2>2. DOMAIN c = 1..(p + q)
    BY <2>1
  <2>. QED
    BY <2>1, <2>2
<1>2. a # <<>> => p \in 1..p /\ Last(a) = a[p]
  <2>1. a # <<>> => p # 0 /\ Last(a) = a[p]
    BY EmptySeq, FrontAndLast
  <2>. QED
    BY <1>1, <2>1
<1>3. b # <<>> => 1 \in 1..q /\ Head(b) = b[1]
  <2>1. b # <<>> => q # 0 /\ Head(b) = b[1]
    BY EmptySeq
  <2>. QED
    BY <1>1, <2>1
<1>4. p # 0 => a # <<>>
  OBVIOUS
<1>5. q # 0 => b # <<>>
  OBVIOUS
<1>. HIDE DEF c, p, q
<1>6. ASSUME Together(a, x, y)
      PROVE  Together(c, x, y)
  <2>1. PICK m, n \in 1..p : n \in {m, m + 1} /\ a[m] = x /\ a[n] = y
    BY <1>1, <1>6 DEF Together
  <2>2. m \in 1..(p + q) /\ n \in 1..(p + q) /\ m <= p /\ n <= p
    BY <1>1
  <2>3. c[m] = x /\ c[n] = y
    BY <1>1, <2>1, <2>2
  <2>. QED
    BY <1>1, <2>1, <2>2, <2>3 DEF Together
<1>7. ASSUME Together(b, x, y)
      PROVE  Together(c, x, y)
  <2>1. PICK m, n \in 1..q : n \in {m, m + 1} /\ b[m] = x /\ b[n] = y
    BY <1>1, <1>7 DEF Together
  <2>2. /\ p + m \in 1..(p + q) /\ p + n \in 1..(p + q) /\ ~(p + m <= p) /\ ~(p + n <= p)
        /\ (p + m) - p = m /\ (p + n) - p = n
    BY <1>1, <2>1
  <2>4. p + n \in {p + m, (p + m) + 1}
    <3>1. m \in Nat /\ n \in Nat /\ (n = m \/ n = m + 1)
      BY <1>1, <2>1
    <3>. QED
      BY <1>1, <3>1
  <2>3. c[p + m] = x /\ c[p + n] = y
    BY <1>1, <2>1, <2>2
  <2>. QED
    BY <1>1, <2>2, <2>3, <2>4 DEF Together
<1>8. ASSUME Together(c, x, y)
      PROVE  \/ Together(a, x, y) \/ Together(b, x, y)
             \/ a # <<>> /\ b # <<>> /\ x = Last(a) /\ y = Head(b)
  <2>1. PICK m, n \in 1..(p + q) : n \in {m, m + 1} /\ c[m] = x /\ c[n] = y
    BY <1>1, <1>8 DEF Together
  <2>2. CASE n <= p
    <3>1. m \in 1..p /\ n \in 1..p /\ m <= p
      BY <1>1, <2>1, <2>2
    <3>2. a[m] = x /\ a[n] = y
      BY <1>1, <2>1, <2>2, <3>1
    <3>. QED
      BY <1>1, <2>1, <3>1, <3>2 DEF Together
  <2>3. CASE m > p
    <3>1. m - p \in 1..q /\ n - p \in 1..q /\ ~(m <= p) /\ ~(n <= p) /\ n - p \in {m - p, (m - p) + 1}
      BY <1>1, <2>1, <2>3
    <3>2. b[m - p] = x /\ b[n - p] = y
      BY <1>1, <2>1, <3>1
    <3>. QED
      BY <1>1, <3>1, <3>2 DEF Together
  <2>4. CASE m <= p /\ ~(n <= p)
    <3>1. m = p /\ n = p + 1 /\ p # 0 /\ q # 0 /\ n - p = 1
      BY <1>1, <2>1, <2>4
    <3>2. x = a[p] /\ y = b[1]
      BY <1>1, <2>1, <2>4, <3>1
    <3>. QED
      BY <1>2, <1>3, <1>4, <1>5, <3>1, <3>2
  <2>. QED
    BY <1>1, <2>2, <2>3, <2>4
<1>9. ASSUME a # <<>>, b # <<>>
      PROVE  Together(c, Last(a), Head(b))
  <2>1. p \in 1..(p + q) /\ p + 1 \in 1..(p + q) /\ p <= p /\ ~(p + 1 <= p) /\ (p + 1) - p = 1
    BY <1>1, <1>2, <1>3, <1>9
  <2>2. c[p] = Last(a) /\ c[p + 1] = Head(b)
    BY <1>1, <1>2, <1>3, <1>9, <2>1
  <2>. QED
    BY <1>1, <2>1, <2>2 DEF Together
<1>. QED
  BY <1>6, <1>7, <1>8, <1>9 DEF c

\* So it is with one more text.
LEMMA TogetherInAppended ==
  ASSUME NEW S, NEW ss \in Seq(S), NEW s \in S, NEW x, NEW y
  PROVE  TogetherIn(Append(ss, s), x, y) <=> TogetherIn(ss, x, y) \/ Together(s, x, y)
<1>. DEFINE tt == Append(ss, s)
            n == Len(ss)
<1>1. /\ tt \in Seq(S) /\ n \in Nat /\ Len(tt) = n + 1 /\ DOMAIN tt = 1..(n + 1) /\ tt[n + 1] = s
      /\ \A k \in 1..n : tt[k] = ss[k]
      /\ DOMAIN ss = 1..n /\ n + 1 \in 1..(n + 1)
  OBVIOUS
<1>2. \A k \in 1..(n + 1) : k \in 1..n \/ k = n + 1
  BY <1>1
<1>3. \A k \in 1..n : k \in 1..(n + 1)
  BY <1>1
<1>. HIDE DEF tt, n
<1>4. TogetherIn(tt, x, y) <=> TogetherIn(ss, x, y) \/ Together(s, x, y)
  BY <1>1, <1>2, <1>3 DEF TogetherIn
<1>. QED
  BY <1>4 DEF tt

\* Merging takes nothing apart.
LEMMA MergedIsTogether ==
  ASSUME NEW texts \in Seq(Texts), NEW x, NEW y, TogetherIn(texts, x, y)
  PROVE  TogetherIn(Merged(texts).done, x, y) \/ Together(Merged(texts).pending, x, y)
<1>. DEFINE Kept(s) == TogetherIn(s, x, y) =>
                         TogetherIn(Merged(s).done, x, y) \/ Together(Merged(s).pending, x, y)
            A == {s \in Seq(Texts) : Kept(s)}
<1>1. <<>> \in A
  <2>1. <<>> \in Seq(Texts) /\ DOMAIN <<>> = {}
    OBVIOUS
  <2>2. ~TogetherIn(<<>>, x, y)
    BY <2>1 DEF TogetherIn
  <2>. QED
    BY <2>1, <2>2
<1>2. ASSUME NEW s \in Seq(Texts), NEW text \in Texts, s \in A
      PROVE  Append(s, text) \in A
  <2>. DEFINE m == Merged(s)
              r == Merged(Append(s, text))
              block == m.pending \o text
  <2>1. m \in Merges /\ r = MergeStep(m, text) /\ Append(s, text) \in Seq(Texts)
    BY MergedFacts, AppendProperties
  <2>2. TogetherIn(s, x, y) => TogetherIn(m.done, x, y) \/ Together(m.pending, x, y)
    BY <1>2
  <2>3. TogetherIn(Append(s, text), x, y) <=> TogetherIn(s, x, y) \/ Together(text, x, y)
    BY TogetherInAppended
  <2>. HIDE DEF m, r
  <2>4. m.done \in Seq(Texts) /\ m.pending \in Seq(Piece) /\ text \in Seq(Piece) /\ text # <<>>
    BY <2>1 DEF Merges, Texts
  <2>5. /\ Together(m.pending, x, y) => Together(block, x, y)
        /\ Together(text, x, y) => Together(block, x, y)
    BY <2>4, ConcatIsTogether
  <2>6. block \in Texts
    <3>1. block \in Seq(Piece) /\ block # <<>>
      BY <2>4, ConcatProperties, ConcatEqualIffEmpty
    <3>. QED
      BY <3>1 DEF Texts
  <2>7. r = IF Words(block) < MinWords THEN [m EXCEPT !.pending = block]
            ELSE [done |-> Append(m.done, block), pending |-> <<>>]
    BY <2>1 DEF MergeStep
  <2>. HIDE DEF block
  <2>8. TogetherIn(m.done, x, y) \/ Together(block, x, y) =>
          TogetherIn(r.done, x, y) \/ Together(r.pending, x, y)
    <3>1. CASE Words(block) < MinWords
      <4>1. r.done = m.done /\ r.pending = block
        BY <2>1, <2>7, <3>1 DEF Merges
      <4>. QED
        BY <4>1
    <3>2. CASE ~(Words(block) < MinWords)
      <4>1. r.done = Append(m.done, block)
        BY <2>7, <3>2
      <4>2. TogetherIn(Append(m.done, block), x, y) <=> TogetherIn(m.done, x, y) \/ Together(block, x, y)
        BY <2>4, <2>6, TogetherInAppended
      <4>. QED
        BY <4>1, <4>2
    <3>. QED
      BY <3>1, <3>2
  <2>9. Kept(Append(s, text))
    BY <2>2, <2>3, <2>5, <2>8 DEF r
  <2>. HIDE DEF Kept
  <2>. QED
    BY <2>1, <2>9
<1>3. Seq(Texts) \subseteq A
  <2>. HIDE DEF A
  <2>. QED
    BY <1>1, <1>2, SequenceInduction
<1>. QED
  BY <1>3

\* Nor does joining what nothing follows to the block before it.
LEMMA MergeIsTogether ==
  ASSUME NEW texts \in Seq(Texts), NEW x, NEW y, TogetherIn(texts, x, y)
  PROVE  TogetherIn(Merge(texts), x, y)
<1>. DEFINE m == Merged(texts)
<1>1. m.done \in Seq(Texts) /\ m.pending \in Seq(Piece)
  <2>1. m \in Merges
    <3>1. PICK k \in DOMAIN texts : Together(texts[k], x, y)
      BY DEF TogetherIn
    <3>2. texts[k] \in Texts
      BY <3>1
    <3>. QED
      BY <3>2, MergedFacts
  <2>. HIDE DEF m
  <2>. QED
    BY <2>1 DEF Merges
<1>2. TogetherIn(m.done, x, y) \/ Together(m.pending, x, y)
  BY MergedIsTogether
<1>3. Merge(texts) = IF m.pending = <<>> THEN m.done
                     ELSE IF m.done = <<>> THEN <<m.pending>>
                     ELSE [m.done EXCEPT ![Len(m.done)] = @ \o m.pending]
  BY DEF Merge, Merged
<1>. DEFINE d == m.done
            r == m.pending
<1>4. /\ d \in Seq(Texts) /\ r \in Seq(Piece) /\ (TogetherIn(d, x, y) \/ Together(r, x, y))
      /\ Merge(texts) = IF r = <<>> THEN d ELSE IF d = <<>> THEN <<r>> ELSE [d EXCEPT ![Len(d)] = @ \o r]
  BY <1>1, <1>2, <1>3
<1>. HIDE DEF d, r, m
<1>5. CASE r = <<>>
  <2>1. ~Together(<<>>, x, y)
    <3>1. DOMAIN <<>> = {}
      OBVIOUS
    <3>. QED
      BY <3>1 DEF Together
  <2>. QED
    BY <1>4, <1>5, <2>1
<1>6. CASE r # <<>> /\ d = <<>>
  <2>1. ~TogetherIn(<<>>, x, y)
    <3>1. DOMAIN <<>> = {}
      OBVIOUS
    <3>. QED
      BY <3>1 DEF TogetherIn
  <2>2. DOMAIN <<r>> = {1} /\ <<r>>[1] = r
    OBVIOUS
  <2>. DEFINE one == <<r>>
  <2>3. Merge(texts) = one /\ DOMAIN one = {1} /\ one[1] = r
    BY <1>4, <1>6, <2>2
  <2>. HIDE DEF one
  <2>. QED
    BY <1>4, <1>6, <2>1, <2>3 DEF TogetherIn
<1>7. CASE r # <<>> /\ d # <<>>
  <2>. DEFINE n == Len(d)
              last == d[n] \o r
              e == [d EXCEPT ![n] = last]
  <2>1. n \in 1..n /\ d[n] \in Seq(Piece) /\ DOMAIN d = 1..n
    <3>1. n \in Nat /\ n # 0 /\ DOMAIN d = 1..n /\ \A k \in 1..n : d[k] \in Texts
      BY <1>4, <1>7, EmptySeq
    <3>. QED
      BY <3>1 DEF Texts
  <2>2. /\ Together(d[n], x, y) => Together(last, x, y)
        /\ Together(r, x, y) => Together(last, x, y)
    BY <1>4, <2>1, ConcatIsTogether
  <2>3. Merge(texts) = e
    BY <1>4, <1>7
  <2>. HIDE DEF last
  <2>4. DOMAIN e = 1..n /\ e[n] = last /\ \A k \in 1..n : k # n => e[k] = d[k]
    <3>. HIDE DEF n
    <3>. QED
      BY <2>1
  <2>. HIDE DEF e, n
  <2>5. TogetherIn(e, x, y)
    <3>1. CASE TogetherIn(d, x, y)
      <4>1. PICK k \in 1..n : Together(d[k], x, y)
        BY <2>1, <3>1 DEF TogetherIn
      <4>2. Together(e[k], x, y)
        BY <2>2, <2>4, <4>1
      <4>. QED
        BY <2>4, <4>2 DEF TogetherIn
    <3>2. CASE Together(r, x, y)
      BY <2>1, <2>2, <2>4, <3>2 DEF TogetherIn
    <3>. QED
      BY <1>4, <3>1, <3>2
  <2>. QED
    BY <2>3, <2>5
<1>. QED
  BY <1>5, <1>6, <1>7

\* In some part, a sequence of sentences, they stand together.
TogetherInPart(parts, x, y) == \E k \in DOMAIN parts : Together(FlattenSeq(parts[k]), x, y)

\* So it is with one more part.
LEMMA TogetherInOneMore ==
  ASSUME NEW S, NEW parts \in Seq(S), NEW part \in S, NEW x, NEW y
  PROVE  TogetherInPart(Append(parts, part), x, y) <=>
           TogetherInPart(parts, x, y) \/ Together(FlattenSeq(part), x, y)
<1>. DEFINE tt == Append(parts, part)
            n == Len(parts)
<1>1. /\ tt \in Seq(S) /\ n \in Nat /\ Len(tt) = n + 1 /\ DOMAIN tt = 1..(n + 1) /\ tt[n + 1] = part
      /\ \A k \in 1..n : tt[k] = parts[k]
      /\ DOMAIN parts = 1..n /\ n + 1 \in 1..(n + 1)
  OBVIOUS
<1>2. \A k \in 1..(n + 1) : k \in 1..n \/ k = n + 1
  BY <1>1
<1>3. \A k \in 1..n : k \in 1..(n + 1)
  BY <1>1
<1>. HIDE DEF tt, n
<1>4. TogetherInPart(tt, x, y) <=> TogetherInPart(parts, x, y) \/ Together(FlattenSeq(part), x, y)
  BY <1>1, <1>2, <1>3 DEF TogetherInPart
<1>. QED
  BY <1>4 DEF tt

\* One more sentence takes nothing apart, and follows the last one somewhere.
LEMMA SplitStepIsTogether ==
  ASSUME NEW parts \in Seq(Part), parts # <<>>, NEW sentence \in Texts, NEW x, NEW y,
         \/ TogetherInPart(parts, x, y) \/ Together(sentence, x, y)
         \/ x = Last(Last(Last(parts))) /\ y = Head(sentence)
  PROVE  TogetherInPart(SplitStep(parts, sentence), x, y)
<1>. DEFINE current == Last(parts)
            f == Front(parts)
            l == Last(current)
            g == Front(current)
<1>1. f \in Seq(Part) /\ current \in Part /\ parts = Append(f, current)
  BY FrontAndLast
<1>2. SplitStep(parts, sentence) =
        IF Words(FlattenSeq(current)) + Words(sentence) > MaxWords
        THEN Append(parts, <<l, sentence>>)
        ELSE Append(f, Append(current, sentence))
  BY DEF SplitStep
<1>3. \/ TogetherInPart(parts, x, y) \/ Together(sentence, x, y)
      \/ x = Last(l) /\ y = Head(sentence)
  OBVIOUS
<1>. HIDE DEF current, f
<1>4. /\ current \in Seq(Texts) /\ current # <<>> /\ g \in Seq(Texts) /\ l \in Texts
      /\ current = Append(g, l)
  <2>1. current \in Seq(Texts) /\ current # <<>>
    BY <1>1 DEF Part
  <2>. QED
    BY <2>1, FrontAndLast
<1>. HIDE DEF l, g
<1>5. /\ l \in Seq(Piece) /\ l # <<>> /\ sentence \in Seq(Piece) /\ sentence # <<>>
      /\ current \in Seq(Seq(Piece)) /\ g \in Seq(Seq(Piece))
  BY <1>4, TextsAreSeqs DEF Texts
<1>6. TogetherInPart(parts, x, y) <=> TogetherInPart(f, x, y) \/ Together(FlattenSeq(current), x, y)
  BY <1>1, TogetherInOneMore
<1>7. ASSUME Words(FlattenSeq(current)) + Words(sentence) > MaxWords
      PROVE  TogetherInPart(SplitStep(parts, sentence), x, y)
  <2>. DEFINE part == <<l, sentence>>
  <2>1. part \in Part
    BY <1>4 DEF Part
  <2>2. FlattenSeq(part) = l \o sentence
    <3>1. part = Append(<<l>>, sentence) /\ <<l>> \in Seq(Seq(Piece))
      BY <1>5
    <3>2. FlattenSeq(Append(<<l>>, sentence)) = FlattenSeq(<<l>>) \o sentence
      BY <1>5, <3>1, FlattenByPart
    <3>3. FlattenSeq(<<l>>) = l
      BY <1>5, FlattenOne
    <3>. QED
      BY <3>1, <3>2, <3>3
  <2>3. SplitStep(parts, sentence) = Append(parts, part)
    BY <1>2, <1>7
  <2>. HIDE DEF part
  <2>4. /\ Together(sentence, x, y) => Together(l \o sentence, x, y)
    BY <1>5, ConcatIsTogether
  <2>5. Together(l \o sentence, Last(l), Head(sentence))
    BY <1>5, ConcatIsTogether
  <2>6. TogetherInPart(Append(parts, part), x, y) <=>
          TogetherInPart(parts, x, y) \/ Together(FlattenSeq(part), x, y)
    BY <2>1, TogetherInOneMore
  <2>. QED
    BY <1>3, <2>2, <2>3, <2>4, <2>5, <2>6
<1>8. ASSUME ~(Words(FlattenSeq(current)) + Words(sentence) > MaxWords)
      PROVE  TogetherInPart(SplitStep(parts, sentence), x, y)
  <2>. DEFINE part == Append(current, sentence)
              flat == FlattenSeq(current)
  <2>1. part \in Part
    <3>1. part \in Seq(Texts) /\ part # <<>>
      BY <1>4, AppendProperties
    <3>. HIDE DEF part
    <3>. QED
      BY <3>1 DEF Part
  <2>2. FlattenSeq(part) = flat \o sentence /\ flat \in Seq(Piece)
    BY <1>5, FlattenByPart
  <2>3. flat # <<>> /\ Last(flat) = Last(l)
    <3>1. flat = FlattenSeq(g) \o l /\ FlattenSeq(g) \in Seq(Piece)
      BY <1>4, <1>5, FlattenByPart
    <3>. HIDE DEF flat
    <3>. QED
      BY <1>5, <3>1, LastOfConcat
  <2>4. SplitStep(parts, sentence) = Append(f, part)
    BY <1>2, <1>8
  <2>. HIDE DEF part, flat
  <2>5. /\ Together(flat, x, y) => Together(flat \o sentence, x, y)
        /\ Together(sentence, x, y) => Together(flat \o sentence, x, y)
    BY <1>5, <2>2, ConcatIsTogether
  <2>6. Together(flat \o sentence, Last(flat), Head(sentence))
    BY <1>5, <2>2, <2>3, ConcatIsTogether
  <2>7. TogetherInPart(Append(f, part), x, y) <=> TogetherInPart(f, x, y) \/ Together(FlattenSeq(part), x, y)
    BY <1>1, <2>1, TogetherInOneMore
  <2>8. Together(FlattenSeq(current), x, y) <=> Together(flat, x, y)
    BY DEF flat
  <2>. QED
    BY <1>3, <1>6, <2>2, <2>3, <2>4, <2>5, <2>6, <2>7, <2>8
<1>. QED
  BY <1>7, <1>8

\* What a sentence and those that follow bring together stands together in a part.
PartedIsTogether(head, s, x, y) ==
  Together(head \o FlattenSeq(s), x, y) => TogetherInPart(Parted(head, s), x, y)

\* Whatever the sentences, provided that whole sentences come before others.
LEMMA PartedIsTogetherAlways ==
  ASSUME NEW head \in Texts, NEW sentences \in Seq(Texts), Follows(head, sentences), NEW x, NEW y
  PROVE  PartedIsTogether(head, sentences, x, y)
<1>. DEFINE A == {s \in Seq(Texts) : Follows(head, s) => PartedIsTogether(head, s, x, y)}
<1>0. head \in Seq(Piece) /\ head # <<>>
  BY DEF Texts
<1>1. <<>> \in A
  <2>1. Parted(head, <<>>) = <<<<head>>>>
    BY <1>0, PartedFacts
  <2>2. head \o FlattenSeq(<<>>) = head
    BY <1>0, ConcatEmptySeq, FlattenNothing
  <2>. DEFINE one == <<<<head>>>>
  <2>3. DOMAIN one = {1} /\ one[1] = <<head>>
    OBVIOUS
  <2>. HIDE DEF one
  <2>4. FlattenSeq(<<head>>) = head
    BY <1>0, FlattenOne
  <2>5. Together(head, x, y) => TogetherInPart(one, x, y)
    BY <2>3, <2>4 DEF TogetherInPart
  <2>6. PartedIsTogether(head, <<>>, x, y)
    BY <2>1, <2>2, <2>5 DEF PartedIsTogether, one
  <2>7. <<>> \in Seq(Texts)
    OBVIOUS
  <2>. QED
    BY <2>6, <2>7
<1>2. ASSUME NEW s \in Seq(Texts), NEW e \in Texts, s \in A
      PROVE  Append(s, e) \in A
  <2>. DEFINE r == Append(s, e)
              parts == Parted(head, s)
              w == head \o FlattenSeq(s)
  <2>1. /\ r \in Seq(Texts) /\ r # <<>> /\ Len(r) = Len(s) + 1 /\ r[Len(s) + 1] = e
        /\ \A k \in 1..Len(s) : r[k] = s[k]
        /\ Len(s) \in Nat
    BY AppendProperties
  <2>2. s \in Seq(Seq(Piece)) /\ e \in Seq(Piece) /\ e # <<>>
    BY TextsAreSeqs DEF Texts
  <2>3. Parted(head, r) = SplitStep(parts, e)
    BY <1>0, <2>2, PartedFacts
  <2>4. head \o FlattenSeq(r) = w \o e /\ w \in Seq(Piece)
    <3>1. FlattenSeq(r) = FlattenSeq(s) \o e /\ FlattenSeq(s) \in Seq(Piece)
      BY <2>2, FlattenByPart
    <3>2. head \o (FlattenSeq(s) \o e) = (head \o FlattenSeq(s)) \o e
      <4>1. \A a, b, c \in Seq(Piece) : (a \o b) \o c = a \o (b \o c)
        BY ConcatAssociative, SMTT(20)
      <4>. QED
        BY <1>0, <2>2, <3>1, <4>1
    <3>3. w \in Seq(Piece)
      BY <1>0, <3>1, ConcatProperties
    <3>. HIDE DEF r
    <3>. QED
      BY <3>1, <3>2, <3>3
  <2>. HIDE DEF r
  <2>5. SUFFICES ASSUME Follows(head, r)
                 PROVE  PartedIsTogether(head, r, x, y)
    BY <2>1 DEF r
  <2>6. Follows(head, s)
    <3>1. Closed(head) /\ \A k \in 1..(Len(r) - 1) : Closed(r[k])
      BY <2>1, <2>5 DEF Follows
    <3>2. \A k \in 1..(Len(s) - 1) : k \in 1..(Len(r) - 1) /\ k \in 1..Len(s)
      BY <2>1
    <3>. QED
      BY <2>1, <3>1, <3>2 DEF Follows
  <2>7. /\ parts \in Seq(Part) /\ parts # <<>>
        /\ Last(Last(parts)) = IF s = <<>> THEN head ELSE s[Len(s)]
    <3>1. PartedIsWhole(head, s)
      BY <2>6, PartedIsWholeAlways
    <3>. QED
      BY <3>1 DEF PartedIsWhole, Sharing
  <2>8. w # <<>> /\ Last(w) = Last(Last(Last(parts)))
    <3>1. CASE s = <<>>
      <4>1. w = head
        BY <1>0, <3>1, ConcatEmptySeq, FlattenNothing
      <4>. QED
        BY <1>0, <2>7, <3>1, <4>1
    <3>2. CASE s # <<>>
      <4>. DEFINE f == Front(s)
                  l == Last(s)
      <4>1. f \in Seq(Texts) /\ l \in Texts /\ s = Append(f, l) /\ l = s[Len(s)]
        BY <3>2, FrontAndLast
      <4>. HIDE DEF f, l
      <4>2. f \in Seq(Seq(Piece)) /\ l \in Seq(Piece) /\ l # <<>>
        BY <4>1, TextsAreSeqs DEF Texts
      <4>3. FlattenSeq(s) = FlattenSeq(f) \o l /\ FlattenSeq(f) \in Seq(Piece)
        BY <4>1, <4>2, FlattenByPart
      <4>. DEFINE t == FlattenSeq(s)
      <4>4. t \in Seq(Piece) /\ t # <<>> /\ Last(t) = Last(l)
        BY <4>2, <4>3, LastOfConcat
      <4>. HIDE DEF t
      <4>5. head \o t # <<>> /\ Last(head \o t) = Last(t)
        BY <1>0, <4>4, LastOfConcat
      <4>. QED
        BY <2>7, <3>2, <4>1, <4>4, <4>5 DEF t
    <3>. QED
      BY <3>1, <3>2
  <2>9. Together(w, x, y) => TogetherInPart(parts, x, y)
    BY <1>2, <2>6 DEF PartedIsTogether
  <2>. HIDE DEF w, parts
  <2>10. Together(w \o e, x, y) => \/ Together(w, x, y) \/ Together(e, x, y)
                                   \/ x = Last(w) /\ y = Head(e)
    BY <2>2, <2>4, ConcatIsTogether
  <2>11. ASSUME Together(w \o e, x, y)
         PROVE  TogetherInPart(SplitStep(parts, e), x, y)
    <3>1. \/ TogetherInPart(parts, x, y) \/ Together(e, x, y)
          \/ x = Last(Last(Last(parts))) /\ y = Head(e)
      BY <2>8, <2>9, <2>10, <2>11
    <3>. QED
      BY <2>7, <3>1, SplitStepIsTogether
  <2>. QED
    BY <2>3, <2>4, <2>11 DEF PartedIsTogether
<1>3. Seq(Texts) \subseteq A
  <2>. HIDE DEF A
  <2>. QED
    BY <1>1, <1>2, SequenceInduction
<1>. QED
  BY <1>3

\* Splitting takes nothing apart.
LEMMA SplitIsTogether ==
  ASSUME NEW text \in Texts, NEW x, NEW y, Together(text, x, y)
  PROVE  TogetherInPart(Split(text), x, y)
<1>. DEFINE s == Sentences(text)
            h == Head(s)
            t == Tail(s)
<1>1. s \in Seq(Texts) /\ s # <<>>
  BY SentencesAreNotBlank
<1>2. \A k \in 1..(Len(s) - 1) : Closed(s[k])
  BY SentencesAreClosed
<1>3. FlattenSeq(s) = text
  BY SentencesAreWhole
<1>4. Split(text) = Parted(h, t)
  BY DEF Split, Parted
<1>. HIDE DEF s
<1>5. /\ h \in Texts /\ t \in Seq(Texts) /\ Len(t) = Len(s) - 1 /\ \A k \in 1..Len(t) : t[k] = s[k + 1]
      /\ h = s[1] /\ Len(s) \in Nat \ {0}
  BY <1>1, HeadTailProperties, EmptySeq
<1>6. FlattenSeq(s) = h \o FlattenSeq(t)
  <2>1. s \in Seq(Seq(Piece))
    BY <1>1, TextsAreSeqs
  <2>. QED
    BY <1>1, <2>1, FlattenFromHead
<1>. HIDE DEF h, t
<1>7. Follows(h, t)
  <2>1. t # <<>> => Closed(h)
    <3>1. SUFFICES ASSUME t # <<>>
                   PROVE  Closed(h)
      OBVIOUS
    <3>2. Len(t) \in Nat \ {0}
      BY <1>5, <3>1, EmptySeq
    <3>3. 1 \in 1..(Len(s) - 1)
      BY <1>5, <3>2
    <3>. QED
      BY <1>2, <1>5, <3>3
  <2>2. ASSUME NEW k \in 1..(Len(t) - 1)
        PROVE  Closed(t[k])
    <3>1. k + 1 \in 1..(Len(s) - 1) /\ k \in 1..Len(t)
      BY <1>5
    <3>. QED
      BY <1>2, <1>5, <3>1
  <2>. QED
    BY <2>1, <2>2 DEF Follows
<1>8. PartedIsTogether(h, t, x, y)
  BY <1>5, <1>7, PartedIsTogetherAlways
<1>. QED
  BY <1>3, <1>4, <1>6, <1>8 DEF PartedIsTogether

\* No two neighbours of a paragraph are without a part in which they are neighbours.
THEOREM PartsKeepNeighbours ==
  ASSUME NEW texts \in Seq(Texts), NEW x, NEW y, TogetherIn(texts, x, y)
  PROVE  \E n \in DOMAIN PartsOf(texts) : Together(PartsOf(texts)[n].text, x, y)
<1>. DEFINE blocks == Merge(texts)
            partOf(b, k) == [text |-> FlattenSeq(Split(blocks[b])[k]), continues |-> k > 1]
            ofBlock(b) == [k \in DOMAIN Split(blocks[b]) |-> partOf(b, k)]
            all == [b \in DOMAIN blocks |-> ofBlock(b)]
<1>1. blocks \in Seq(Texts) /\ TogetherIn(blocks, x, y)
  BY MergeIsTyped, MergeIsTogether
<1>2. PartsOf(texts) = FlattenSeq(all)
  BY DEF PartsOf
<1>. HIDE DEF blocks
<1>3. Len(blocks) \in Nat /\ DOMAIN blocks = 1..Len(blocks) /\ \A b \in DOMAIN blocks : blocks[b] \in Texts
  BY <1>1
<1>4. ASSUME NEW b \in DOMAIN blocks
      PROVE  ofBlock(b) \in Seq(Parts)
  <2>. DEFINE parts == Split(blocks[b])
  <2>1. parts \in Sharing
    BY <1>3, SplitIsWhole
  <2>2. \A k \in DOMAIN parts : partOf(b, k) \in Parts
    <3>1. \A k \in DOMAIN parts : parts[k] \in Seq(Seq(Piece))
      <4>1. parts \in Partings
        BY <2>1, SharingIsParting
      <4>. HIDE DEF parts
      <4>. QED
        BY <4>1 DEF Partings
    <3>2. \A k \in DOMAIN parts : FlattenSeq(parts[k]) \in Seq(Piece)
      BY <3>1, FlattenIsSeq
    <3>. QED
      BY <3>2 DEF Parts
  <2>3. Len(parts) \in Nat /\ DOMAIN parts = 1..Len(parts)
    <3>. HIDE DEF parts
    <3>1. parts \in Seq(Part)
      BY <2>1 DEF Sharing
    <3>. QED
      BY <3>1
  <2>. HIDE DEF parts, partOf
  <2>4. ofBlock(b) = [k \in 1..Len(parts) |-> partOf(b, k)]
    BY <2>3 DEF parts
  <2>5. ofBlock(b) \in [1..Len(parts) -> Parts]
    BY <2>2, <2>3, <2>4
  <2>. HIDE DEF ofBlock
  <2>. QED
    BY <2>3, <2>5, SeqDef
<1>5. PICK b \in DOMAIN blocks : Together(blocks[b], x, y)
  BY <1>1 DEF TogetherIn
<1>6. PICK k \in DOMAIN Split(blocks[b]) : Together(FlattenSeq(Split(blocks[b])[k]), x, y)
  <2>1. TogetherInPart(Split(blocks[b]), x, y)
    BY <1>3, <1>5, SplitIsTogether
  <2>. QED
    BY <2>1 DEF TogetherInPart
<1>7. DOMAIN ofBlock(b) = DOMAIN Split(blocks[b]) /\ Together(ofBlock(b)[k].text, x, y)
  BY <1>6
<1>. HIDE DEF ofBlock, partOf
<1>8. all \in Seq(Seq(Parts)) /\ DOMAIN all = DOMAIN blocks /\ all[b] = ofBlock(b)
  <2>1. all \in [1..Len(blocks) -> Seq(Parts)]
    BY <1>3, <1>4
  <2>2. DOMAIN all = DOMAIN blocks /\ all[b] = ofBlock(b)
    OBVIOUS
  <2>. HIDE DEF all
  <2>. QED
    BY <1>3, <2>1, <2>2, SeqDef
<1>. HIDE DEF all
<1>9. InRows(FlattenSeq(all), all)
  BY <1>8, FlattenIsInRows
<1>10. \E n \in DOMAIN FlattenSeq(all) : FlattenSeq(all)[n] = ofBlock(b)[k]
  BY <1>6, <1>7, <1>8, <1>9 DEF InRows
<1>. QED
  BY <1>2, <1>7, <1>10

-----------------------------------------------------------------------------
(* What is found of what a piece mentions.                                 *)

\* All that a piece and the piece after it mention is found in the text.
LEMMA FoundIsAll ==
  ASSUME NEW text \in Seq(Piece), NEW m \in DOMAIN text,
         NEW mention \in Range(text[m].mentions \o Straddling(text, m))
  PROVE  \E n \in DOMAIN Found(text) : Found(text)[n] = mention
<1>. DEFINE in(k) == text[k].mentions \o Straddling(text, k)
            parts == [k \in DOMAIN text |-> in(k)]
            all == FlattenSeq(parts)
<1>1. Len(text) \in Nat /\ DOMAIN text = 1..Len(text)
  OBVIOUS
<1>2. ASSUME NEW k \in DOMAIN text
      PROVE  in(k) \in Seq(Mentions)
  <2>1. text[k] \in Piece
    OBVIOUS
  <2>2. text[k].mentions \in Seq(Mentions) /\ (text[k].announces # "nothing" => text[k].announces \in Kinds)
    BY <2>1 DEF Piece, Mentions
  <2>3. Straddling(text, k) \in Seq(Mentions)
    <3>1. CASE k < Len(text) /\ text[k].announces # "nothing" /\ text[k + 1].number # 0
      <4>1. k + 1 \in DOMAIN text
        BY <1>1, <3>1
      <4>2. text[k + 1] \in Piece
        BY <4>1
      <4>3. text[k + 1].number \in Nat
        BY <4>2 DEF Piece
      <4>4. <<text[k].announces, text[k + 1].number>> \in Mentions
        BY <2>2, <3>1, <4>3 DEF Mentions
      <4>. QED
        BY <3>1, <4>4 DEF Straddling
    <3>2. CASE ~(k < Len(text) /\ text[k].announces # "nothing" /\ text[k + 1].number # 0)
      BY <3>2 DEF Straddling
    <3>. QED
      BY <3>1, <3>2
  <2>. QED
    BY <2>2, <2>3, ConcatProperties
<1>3. PICK j \in DOMAIN in(m) : in(m)[j] = mention
  BY DEF Range
<1>4. parts \in Seq(Seq(Mentions)) /\ m \in DOMAIN parts /\ j \in DOMAIN parts[m] /\ parts[m][j] = mention
  <2>. HIDE DEF in
  <2>. QED
    BY <1>1, <1>2, <1>3
<1>5. all \in Seq(Mentions) /\ \E n \in DOMAIN all : all[n] = mention
  <2>. HIDE DEF parts
  <2>1. InRows(FlattenSeq(parts), parts) /\ FlattenSeq(parts) \in Seq(Mentions)
    BY <1>4, FlattenIsInRows, FlattenIsSeq
  <2>. QED
    BY <1>4, <2>1 DEF InRows
<1>. DEFINE of(kind) == FlattenSeq([k \in DOMAIN all |-> IF all[k][1] = kind THEN <<all[k]>> ELSE <<>>])
<1>6. Found(text) = (of("cites") \o of("figure")) \o of("table")
  BY DEF Found
<1>. HIDE DEF all
<1>7. PICK p \in DOMAIN all : all[p] = mention
  BY <1>5
<1>8. ASSUME NEW kind
      PROVE  /\ of(kind) \in Seq(Mentions)
             /\ mention[1] = kind => \E n \in DOMAIN of(kind) : of(kind)[n] = mention
  <2>. DEFINE ones == [k \in DOMAIN all |-> IF all[k][1] = kind THEN <<all[k]>> ELSE <<>>]
  <2>1. Len(all) \in Nat /\ DOMAIN all = 1..Len(all) /\ \A k \in DOMAIN all : all[k] \in Mentions
    BY <1>5
  <2>2. \A k \in DOMAIN all : (IF all[k][1] = kind THEN <<all[k]>> ELSE <<>>) \in Seq(Mentions)
    BY <2>1
  <2>3. ones \in Seq(Seq(Mentions))
    BY <2>1, <2>2
  <2>4. mention[1] = kind => p \in DOMAIN ones /\ ones[p] = <<mention>>
    BY <1>7
  <2>. HIDE DEF ones
  <2>5. FlattenSeq(ones) \in Seq(Mentions) /\ InRows(FlattenSeq(ones), ones)
    BY <2>3, FlattenIsSeq, FlattenIsInRows
  <2>6. 1 \in DOMAIN <<mention>> /\ <<mention>>[1] = mention
    OBVIOUS
  <2>. DEFINE one == <<mention>>
  <2>7. 1 \in DOMAIN one /\ one[1] = mention /\ (mention[1] = kind => p \in DOMAIN ones /\ ones[p] = one)
    BY <2>4, <2>6
  <2>. HIDE DEF one
  <2>8. mention[1] = kind => \E n \in DOMAIN FlattenSeq(ones) : FlattenSeq(ones)[n] = mention
    BY <2>5, <2>7 DEF InRows
  <2>. QED
    BY <2>5, <2>8 DEF ones
<1>9. mention \in Mentions
  BY <1>5
<1>10. mention[1] \in {"cites", "figure", "table"}
  BY <1>9 DEF Mentions, Kinds
<1>. HIDE DEF of
<1>. DEFINE a == of("cites")
            b == of("figure")
            c == of("table")
            d == a \o b
<1>11. /\ a \in Seq(Mentions) /\ b \in Seq(Mentions) /\ c \in Seq(Mentions)
       /\ \/ \E n \in DOMAIN a : a[n] = mention
          \/ \E n \in DOMAIN b : b[n] = mention
          \/ \E n \in DOMAIN c : c[n] = mention
  BY <1>8, <1>10
<1>12. Found(text) = d \o c
  BY <1>6
<1>. HIDE DEF a, b, c
<1>13. HasBoth(a \o b, a, b) /\ d \in Seq(Mentions)
  BY <1>11, ConcatHasBoth, ConcatProperties
<1>14. HasBoth(d, a, b)
  BY <1>13
<1>. HIDE DEF d
<1>15. HasBoth(d \o c, d, c)
  BY <1>11, <1>13, ConcatHasBoth
<1>. HIDE DEF of
<1>16. (\E n \in DOMAIN d : d[n] = mention) \/ (\E n \in DOMAIN c : c[n] = mention)
  BY <1>11, <1>14 DEF HasBoth
<1>17. \E n \in DOMAIN (d \o c) : (d \o c)[n] = mention
  BY <1>15, <1>16 DEF HasBoth
<1>. QED
  BY <1>12, <1>17

\* What a piece and the next mention is found in any text in which they are neighbours.
LEMMA NeighboursAreFound ==
  ASSUME NEW text \in Seq(Piece), NEW k \in DOMAIN text,
         k < Len(text) => text[k] # text[k + 1],
         NEW mention \in Range(text[k].mentions \o Straddling(text, k))
  PROVE  \E y : /\ Together(text, text[k], y)
                /\ \A other \in Seq(Piece) :
                     Together(other, text[k], y) =>
                       \E n \in DOMAIN Found(other) : Found(other)[n] = mention
<1>. DEFINE a == text[k].mentions
            b == Straddling(text, k)
<1>0. a \in Seq(Mentions)
  <2>1. text[k] \in Piece
    OBVIOUS
  <2>. QED
    BY <2>1 DEF Piece, Mentions
<1>1. CASE \E j \in DOMAIN a : a[j] = mention
  <2>1. Together(text, text[k], text[k])
    BY DEF Together
  <2>2. ASSUME NEW other \in Seq(Piece), Together(other, text[k], text[k])
        PROVE  \E n \in DOMAIN Found(other) : Found(other)[n] = mention
    <3>1. PICK m \in DOMAIN other : other[m] = text[k]
      BY <2>2 DEF Together
    <3>2. mention \in Range(other[m].mentions \o Straddling(other, m))
      <4>. DEFINE c == Straddling(other, m)
      <4>1. c \in Seq({<<other[m].announces, other[m + 1].number>>})
        <5>1. \A z : <<z>> \in Seq({z}) /\ <<>> \in Seq({z})
          OBVIOUS
        <5>. QED
          BY <5>1 DEF Straddling
      <4>. HIDE DEF c
      <4>. DEFINE E == Mentions \cup {<<other[m].announces, other[m + 1].number>>}
      <4>2. a \in Seq(E) /\ c \in Seq(E)
        BY <1>0, <4>1, SeqMonotonic
      <4>. HIDE DEF E, a
      <4>3. HasBoth(a \o c, a, c)
        BY <4>2, ConcatHasBoth
      <4>4. \E n \in DOMAIN (a \o c) : (a \o c)[n] = mention
        BY <1>1, <4>3 DEF HasBoth
      <4>5. mention \in Range(a \o c)
        BY <4>4 DEF Range
      <4>. QED
        BY <3>1, <4>5 DEF a, c
    <3>. QED
      BY <3>2, FoundIsAll
  <2>. QED
    BY <2>1, <2>2
<1>2. CASE \E j \in DOMAIN b : b[j] = mention
  <2>1. /\ k < Len(text) /\ text[k].announces # "nothing" /\ text[k + 1].number # 0
        /\ mention = <<text[k].announces, text[k + 1].number>>
    BY <1>2 DEF Straddling
  <2>2. k \in 1..Len(text) /\ k + 1 \in DOMAIN text /\ k + 1 \in {k, k + 1}
    BY <2>1
  <2>3. Together(text, text[k], text[k + 1])
    BY <2>2 DEF Together
  <2>4. ASSUME NEW other \in Seq(Piece), Together(other, text[k], text[k + 1])
        PROVE  \E n \in DOMAIN Found(other) : Found(other)[n] = mention
    <3>1. PICK m, n \in DOMAIN other : n \in {m, m + 1} /\ other[m] = text[k] /\ other[n] = text[k + 1]
      BY <2>4 DEF Together
    <3>2. n = m + 1 /\ m < Len(other)
      <4>1. n # m
        BY <2>1, <3>1
      <4>. QED
        BY <3>1, <4>1
    <3>3. Straddling(other, m) = <<mention>>
      BY <2>1, <3>1, <3>2 DEF Straddling
    <3>4. mention \in Range(other[m].mentions \o Straddling(other, m))
      <4>. DEFINE c == <<mention>>
                  E == Mentions \cup {mention}
      <4>1. a \in Seq(E) /\ c \in Seq(E) /\ 1 \in DOMAIN c /\ c[1] = mention
        <5>1. a \in Seq(E)
          <6>1. Mentions \subseteq E
            OBVIOUS
          <6>. HIDE DEF a, E
          <6>. QED
            BY <1>0, <6>1, SeqMonotonic
        <5>. QED
          BY <5>1
      <4>. HIDE DEF c, E, a
      <4>2. HasBoth(a \o c, a, c)
        BY <4>1, ConcatHasBoth
      <4>3. mention \in Range(a \o c)
        BY <4>1, <4>2 DEF HasBoth, Range
      <4>. QED
        BY <3>1, <3>3, <4>3 DEF a, c
    <3>. QED
      BY <3>4, FoundIsAll
  <2>. QED
    BY <2>3, <2>4
<1>3. (\E j \in DOMAIN a : a[j] = mention) \/ (\E j \in DOMAIN b : b[j] = mention)
  <2>. DEFINE E == Mentions \cup {<<text[k].announces, text[k + 1].number>>}
  <2>1. b \in Seq({<<text[k].announces, text[k + 1].number>>})
    <3>1. \A z : <<z>> \in Seq({z}) /\ <<>> \in Seq({z})
      OBVIOUS
    <3>. QED
      BY <3>1 DEF Straddling
  <2>2. mention \in Range(a \o b)
    OBVIOUS
  <2>. HIDE DEF a, b
  <2>3. a \in Seq(E) /\ b \in Seq(E)
    BY <1>0, <2>1, SeqMonotonic
  <2>. HIDE DEF E
  <2>4. HasBoth(a \o b, a, b)
    BY <2>3, ConcatHasBoth
  <2>5. PICK n \in DOMAIN (a \o b) : (a \o b)[n] = mention
    BY <2>2 DEF Range
  <2>. QED
    BY <2>4, <2>5 DEF HasBoth
<1>. QED
  BY <1>1, <1>2, <1>3

=============================================================================
