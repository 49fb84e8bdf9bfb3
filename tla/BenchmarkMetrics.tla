--------------------------- MODULE BenchmarkMetrics ---------------------------
(***************************************************************************)
(* How a benchmark scores the answer to a case, averages the scores of a   *)
(* run and compares two runs.  A score is a fraction <<n, d>>.             *)
(*                                                                         *)
(* A case says which units are relevant, which an answer should cite and   *)
(* what its status should be.  An answer lists the retrieved units by rank *)
(* and the cited ones, and counts its citation labels and its claims.      *)
(***************************************************************************)
EXTENDS Integers, Sequences, FiniteSets, FiniteSetsExt, SequencesExt

CONSTANTS
  KValues,    \* cutoffs of the metrics by rank
  Gains       \* 1 / log2(rank + 1) for the ranks up to the cutoffs, on some integer scale

ASSUME KValuesArePositive == IsFiniteSet(KValues) /\ KValues \subseteq 1..Len(Gains)

\* All that is known of the logarithm is that it grows.
ASSUME GainsFall ==
  /\ Gains \in Seq(Nat \ {0})
  /\ \A j, k \in DOMAIN Gains : j <= k => Gains[k] <= Gains[j]

Zero == <<0, 1>>
One  == <<1, 1>>

AtMost(a, b) == a[1] * b[2] <= b[1] * a[2]

Plus(a, b) == <<a[1] * b[2] + b[1] * a[2], a[2] * b[2]>>

-----------------------------------------------------------------------------
(* Retrieval.                                                              *)

RelevantRanks(retrieved, relevant) == {n \in DOMAIN retrieved : retrieved[n] \in relevant}

Hits(retrieved, relevant, k) == {n \in RelevantRanks(retrieved, relevant) : n <= k}

precision_at_k(retrieved, relevant, k) == <<Cardinality(Hits(retrieved, relevant, k)), k>>

recall_at_k(retrieved, relevant, k) ==
  <<Cardinality(Hits(retrieved, relevant, k)), Cardinality(relevant)>>

hit_rate_at_k(retrieved, relevant, k) ==
  IF Hits(retrieved, relevant, k) # {} THEN One ELSE Zero

reciprocal_rank(retrieved, relevant) ==
  LET ranks == RelevantRanks(retrieved, relevant)
  IN  IF ranks = {} THEN Zero ELSE <<1, Min(ranks)>>

Gain(rank) == Gains[rank]

TotalGain(ranks) == FoldSet(LAMBDA n, sum : Gain(n) + sum, 0, ranks)

ndcg_at_k(retrieved, relevant, k) ==
  LET ideal == 1..Min({Cardinality(relevant), k})
  IN  <<TotalGain(Hits(retrieved, relevant, k)), TotalGain(ideal)>>

-----------------------------------------------------------------------------
(* Generation.                                                             *)

grounding_accuracy(a) == <<a.grounded, a.claims>>

unsupported_claim_rate(a) == <<a.claims - a.grounded, a.claims>>

citation_accuracy(a) ==
  IF a.resolved + a.unresolved = 0 THEN One ELSE <<a.resolved, a.resolved + a.unresolved>>

evidence_coverage(a, expected) ==
  IF a.cited = {} THEN Zero ELSE <<Cardinality(a.cited \cap expected), Cardinality(a.cited)>>

answer_completeness(a, expected) ==
  <<Cardinality(a.cited \cap expected), Cardinality(expected)>>

-----------------------------------------------------------------------------
(* A run.  results is a set of pairs: a case and its answer.               *)

RetrievalMetrics ==
  {<<"mrr", 0>>} \cup ({"precision", "recall", "ndcg", "hit_rate"} \X KValues)

GenerationMetrics ==
  {"grounding_accuracy", "citation_accuracy", "evidence_coverage", "answer_completeness",
   "unsupported_claim_rate"} \X {0}

Score(metric, c, a) ==
  CASE metric[1] = "mrr"                    -> reciprocal_rank(a.retrieved, c.units)
    [] metric[1] = "precision"              -> precision_at_k(a.retrieved, c.units, metric[2])
    [] metric[1] = "recall"                 -> recall_at_k(a.retrieved, c.units, metric[2])
    [] metric[1] = "ndcg"                   -> ndcg_at_k(a.retrieved, c.units, metric[2])
    [] metric[1] = "hit_rate"               -> hit_rate_at_k(a.retrieved, c.units, metric[2])
    [] metric[1] = "grounding_accuracy"     -> grounding_accuracy(a)
    [] metric[1] = "citation_accuracy"      -> citation_accuracy(a)
    [] metric[1] = "evidence_coverage"      -> evidence_coverage(a, c.citations)
    [] metric[1] = "answer_completeness"    -> answer_completeness(a, c.citations)
    [] metric[1] = "unsupported_claim_rate" -> unsupported_claim_rate(a)

\* The mean of a metric over the cases a run completed.
Mean(metric, results) ==
  LET total == FoldSet(LAMBDA r, sum : Plus(Score(metric, r[1], r[2]), sum), Zero, results)
  IN  <<total[1], total[2] * Cardinality(results)>>

\* A run that completed no case has no aggregates at all.
Aggregate(metrics, results) == [m \in IF results = {} THEN {} ELSE metrics |-> Mean(m, results)]

-----------------------------------------------------------------------------
(* Two runs.                                                               *)

\* Mutant: no metric is better when it is lower.
LowerIsBetter_Forgotten == {}

LowerIsBetter == {<<"unsupported_claim_rate", 0>>}

\* The change from b to c is at least five per cent of b.  From zero any change
\* is: one of 0.0005 already, as the code divides by 0.01 and compares with 5.
IsMarked(b, c) ==
  LET change == c[1] * b[2] - b[1] * c[2]
  IN  IF b[1] = 0 THEN c[1] * 2000 >= c[2]
      ELSE \E d \in {change, -change} : d * 20 >= b[1] * c[2]

Direction(metric, b, c) ==
  IF ~IsMarked(b, c) THEN "unchanged"
  ELSE IF (metric \in LowerIsBetter) = (AtMost(c, b)) THEN "improvement" ELSE "regression"

\* The metrics both runs have, by the way they went.
Compared(metrics, baseline, candidate, direction) ==
  LET b == Aggregate(metrics, baseline)
      c == Aggregate(metrics, candidate)
  IN  {m \in DOMAIN b \cap DOMAIN c : Direction(m, b[m], c[m]) = direction}

QualityIn(baseline, candidate, direction) ==
  Compared(RetrievalMetrics, baseline, candidate, direction)
    \cup Compared(GenerationMetrics, baseline, candidate, direction)

=============================================================================
