-------------------------- MODULE ParagraphSplitting --------------------------
(***************************************************************************)
(* ParagraphStrategy: how a run of paragraphs of one section becomes the   *)
(* texts of knowledge units.  Paragraphs that are too short are merged     *)
(* with a neighbour, blocks that are too long are split between sentences, *)
(* and what a text cites or mentions is found by pattern.                  *)
(*                                                                         *)
(* A text is a sequence of pieces.  A piece is a stretch of words that     *)
(* nothing cuts: it has a place in the document, a number of words, says   *)
(* whether it ends with a full stop (or what the sentence pattern takes    *)
(* for one, as in "Fig."), the citations and mentions inside it in order,  *)
(* whether its last word announces a number ("Fig.", "Table") and the      *)
(* number its first word is, if any.                                       *)
(***************************************************************************)
EXTENDS Naturals, Sequences, FiniteSets, SequencesExt

CONSTANTS
  MaxWords,    \* max_words_per_chunk
  MinWords     \* min_words_per_chunk

ASSUME WordLimitsAreNatural == MaxWords \in Nat /\ MinWords \in Nat

Kinds == {"cites", "figure", "table"}

Piece == [place:     Nat \X Nat,
          words:     Nat,
          stop:      BOOLEAN,
          mentions:  Seq(Kinds \X Nat),
          announces: Kinds \cup {"nothing"},
          number:    Nat]

Words(text) == FoldLeft(LAMBDA n, piece : n + piece.words, 0, text)

\* The numbers of S from the smallest on.
Ascending(S) ==
  [n \in 1..Cardinality(S) |-> CHOOSE k \in S : Cardinality({j \in S : j < k}) = n - 1]

\* The runs of text that begin at each of starts.
CutBefore(text, starts) ==
  LET s == Ascending(starts)
  IN  [k \in DOMAIN s |-> SubSeq(text, s[k], IF k < Len(s) THEN s[k + 1] - 1 ELSE Len(text))]

Sentences(text) ==
  CutBefore(text, {k \in DOMAIN text : k = 1 \/ text[k - 1].stop})

-----------------------------------------------------------------------------
(* Merging.  A short paragraph waits for the next one; one that nothing    *)
(* follows joins the block before it.                                      *)

MergeStep(merged, text) ==
  LET block == merged.pending \o text
  IN  IF Words(block) < MinWords
      THEN [merged EXCEPT !.pending = block]
      ELSE [done |-> Append(merged.done, block), pending |-> <<>>]

\* Mutant: what no paragraph follows is forgotten.
Merge_DropsRest(texts) ==
  FoldLeft(MergeStep, [done |-> <<>>, pending |-> <<>>], texts).done

\* Mutant: what no paragraph follows stays alone.
Merge_RestAlone(texts) ==
  LET merged == FoldLeft(MergeStep, [done |-> <<>>, pending |-> <<>>], texts)
  IN  IF merged.pending = <<>> THEN merged.done ELSE Append(merged.done, merged.pending)

Merge(texts) ==
  LET merged == FoldLeft(MergeStep, [done |-> <<>>, pending |-> <<>>], texts)
  IN  IF merged.pending = <<>> THEN merged.done
      ELSE IF merged.done = <<>> THEN <<merged.pending>>
      ELSE [merged.done EXCEPT ![Len(merged.done)] = @ \o merged.pending]

-----------------------------------------------------------------------------
(* Splitting.  A part is a sequence of sentences; the next part begins     *)
(* with the last sentence of the one before.                               *)

\* Mutant: parts share no sentence.
SplitStep_NoOverlap(parts, sentence) ==
  IF Words(FlattenSeq(Last(parts))) + Words(sentence) > MaxWords
  THEN Append(parts, <<sentence>>)
  ELSE Append(Front(parts), Append(Last(parts), sentence))

SplitStep(parts, sentence) ==
  LET current == Last(parts)
  IN  IF Words(FlattenSeq(current)) + Words(sentence) > MaxWords
      THEN Append(parts, <<Last(current), sentence>>)
      ELSE Append(Front(parts), Append(current, sentence))

Split(text) ==
  LET sentences == Sentences(text)
  IN  FoldLeft(SplitStep, <<<<Head(sentences)>>>>, Tail(sentences))

\* The parts of a run of paragraphs, in order; a part that continues the one
\* before is the second or later of its block.
PartsOf(texts) ==
  LET blocks == Merge(texts)
      ofBlock(b) == LET parts == Split(blocks[b])
                    IN  [k \in DOMAIN parts |-> [text |-> FlattenSeq(parts[k]), continues |-> k > 1]]
  IN  FlattenSeq([b \in DOMAIN blocks |-> ofBlock(b)])

-----------------------------------------------------------------------------
(* Finding.                                                                *)

\* A word that announces a number followed by a number, in the next piece.
Straddling(text, k) ==
  IF k < Len(text) /\ text[k].announces # "nothing" /\ text[k + 1].number # 0
  THEN <<<<text[k].announces, text[k + 1].number>>>>
  ELSE <<>>

\* The matches of the three patterns, one pattern after the other.
Found(text) ==
  LET all == FlattenSeq([k \in DOMAIN text |-> text[k].mentions \o Straddling(text, k)])
      of(kind) == FlattenSeq([k \in DOMAIN all |-> IF all[k][1] = kind THEN <<all[k]>> ELSE <<>>])
  IN  of("cites") \o of("figure") \o of("table")

=============================================================================
