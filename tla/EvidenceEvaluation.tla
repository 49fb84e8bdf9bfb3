-------------------------- MODULE EvidenceEvaluation --------------------------
(***************************************************************************)
(* EvidenceEvaluator: reciprocal rank fusion of four signals over a pool   *)
(* of candidates.  A signal is a function from candidates to naturals,     *)
(* larger being better, or None where it does not apply.                   *)
(***************************************************************************)
EXTENDS GraphExpansion

CONSTANT RrfScale   \* scores are kept as multiples of 1 / RrfScale, rounded down

RrfK == 60

\* As fine as floats are: one rank more or less in one signal tells two scores
\* apart, among all the chunks there are.
ASSUME ScaleIsFine ==
  /\ RrfScale \in Nat
  /\ RrfScale >= 5 * (RrfK + Cardinality(Chunks) + 1) * (RrfK + Cardinality(Chunks) + 1)

DenseConfidence == 4

\* relationship_policy.confidence_tier.
ConfidenceTier == [CITES |-> 3, REFERENCES |-> 3, CONTINUES |-> 2, NEXT |-> 2, BELONGS_TO |-> 1]

\* The depth of a candidate: its hops from a seed.
Depth(c) == Len(path[c])

\* The last hop a graph candidate was reached by.
LastHop(c) == path[c][Depth(c)]

RelationshipConfidence(c) ==
  IF Depth(c) = 0 THEN DenseConfidence ELSE ConfidenceTier[LastHop(c).type]

\* 1 / (1 + depth) as a natural: only its order is used.
GraphProximity(c) == budget.depth - Depth(c)

\* Mutant: the values are sorted in ascending order.
RankDescending_Ascending(pool, signal, c) ==
  LET valued == {d \in pool : signal[d] # None}
  IN  1 + Cardinality(IF signal[c] = None THEN valued
                      ELSE {d \in valued : signal[d] < signal[c]})

\* _rank_descending: ties share the rank of the first of them, and candidates
\* without a value all rank after those that have one.
RankDescending(pool, signal, c) ==
  LET valued == {d \in pool : signal[d] # None}
  IN  1 + Cardinality(IF signal[c] = None THEN valued
                      ELSE {d \in valued : signal[d] > signal[c]})

Reciprocal(rank) == RrfScale \div (RrfK + rank)

\* The signals of a pool, given the similarity of the seeds and the lexical
\* overlap of every candidate with the query.
Signals(pool, similarity, overlap) ==
  << [c \in pool |-> IF c \in DOMAIN similarity THEN similarity[c] ELSE None],
     overlap,
     [c \in pool |-> GraphProximity(c)],
     [c \in pool |-> RelationshipConfidence(c)] >>

FusedScore(pool, signals, c) ==
  LET part(k) == Reciprocal(RankDescending(pool, signals[k], c))
  IN  part(1) + part(2) + part(3) + part(4)

\* Candidates are sorted by the sum of four floats: those whose exact sums are
\* equal may come in either order, and so may those the rounding of the four
\* terms (less than 1 / RrfScale each) does not tell apart.
Indistinguishable == 4

\* One value of a signal is better than another.
Better(v, w) == v # None /\ (w = None \/ v > w)

\* Candidate c is at least as good as d in every signal, and better in one.
Dominates(signals, c, d) ==
  /\ \A k \in DOMAIN signals : ~Better(signals[k][d], signals[k][c])
  /\ \E k \in DOMAIN signals : Better(signals[k][c], signals[k][d])

=============================================================================
