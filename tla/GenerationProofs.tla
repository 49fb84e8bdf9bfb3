---------------------------- MODULE GenerationProofs ----------------------------
(***************************************************************************)
(* Proofs about generation.  For every bundle, the context is evidence in  *)
(* rank order that nothing could be added to (an induction over what the   *)
(* folds of ContextFitting compute); for every question and every answer   *)
(* of the model, the prompt keeps to its budget, the final checks pass,    *)
(* and the status of a response, the limitations it states, the evidence   *)
(* it shows and the citations it counts agree.                             *)
(***************************************************************************)
EXTENDS Generation, SequenceFolds

\* A group as a bundle holds it.
EvidenceGroup == [primary: Units, supporting: Seq(Units)]

\* One element of RemoveRedundant and of FitToBudget.
KeepIfNew(b, kept, u) ==
  IF \E k \in DOMAIN kept : <<u, kept[k]>> \in b.within THEN kept ELSE Append(kept, u)

AddIfFits(b, kept, u) ==
  IF Spent(b, kept) + EstimateTokens(b.length[u]) > EvidenceBudget
  THEN kept ELSE Append(kept, u)

\* How far an estimate is from four characters a token.
LEMMA EstimatesAreNatural ==
  ASSUME NEW n \in Nat
  PROVE  EstimateTokens(n) \in Nat /\ n <= CharsPerToken * EstimateTokens(n) + (CharsPerToken - 1)
BY DEF EstimateTokens, CharsPerToken

\* What Total computes, as a fold by a function step.
LEMMA TotalIsAFold ==
  ASSUME NEW length \in [Units -> Nat], NEW s \in Seq(Units)
  PROVE  Total(length, s) = Folded([p \in Nat \X Units |-> p[1] + length[p[2]]], 0, s)
<1>. DEFINE step == [p \in Nat \X Units |-> p[1] + length[p[2]]]
<1>1. step \in StepOf(Nat, Units) /\ 0 \in Nat
  BY DEF StepOf
<1>2. \A x \in Nat, e \in Units : step[<<x, e>>] = x + length[e]
  OBVIOUS
<1>. HIDE DEF step
<1>3. PICK g \in [SUBSET DOMAIN s -> Nat] : ComputesFold(g, step, 0, s)
  BY <1>1, FoldExists
<1>4. g = [t \in SUBSET DOMAIN s |->
            IF t = {} THEN 0 ELSE g[t \ {Max(t)}] + length[s[Max(t)]]]
  <2>1. ASSUME NEW t \in SUBSET DOMAIN s, t # {}
        PROVE  step[<<g[t \ {Max(t)}], s[Max(t)]>>] = g[t \ {Max(t)}] + length[s[Max(t)]]
    <3>1. s[Max(t)] \in Units /\ g[t \ {Max(t)}] \in Nat
      BY <2>1, MaxIsAnIndex
    <3>. HIDE DEF Max
    <3>. QED
      BY <1>2, <3>1
  <2>. QED
    BY <1>3, <2>1 DEF ComputesFold
<1>5. PICK it : /\ it = [t \in SUBSET DOMAIN s |->
                        IF t = {} THEN 0 ELSE it[t \ {Max(t)}] + length[s[Max(t)]]]
                /\ Total(length, s) = it[DOMAIN s]
  BY <1>4 DEF Total, FoldLeft, MapThenFoldSet
<1>6. FollowsFold(it, Nat, step, 0, s)
  <2>1. it[{}] = 0
    BY <1>5
  <2>2. ASSUME NEW m \in 1..Len(s), it[1..(m - 1)] \in Nat
        PROVE  it[1..m] = step[<<it[1..(m - 1)], s[m]>>]
    <3>1. /\ 1..m \in SUBSET DOMAIN s /\ 1..m # {}
          /\ Max(1..m) = m /\ (1..m) \ {m} = 1..(m - 1) /\ s[m] \in Units
      BY PrefixOfIndexes
    <3>2. it[1..m] = it[1..(m - 1)] + length[s[m]]
      <4>. HIDE DEF Max
      <4>. QED
        BY <1>5, <3>1
    <3>. QED
      BY <1>2, <2>2, <3>1, <3>2
  <2>. QED
    BY <2>1, <2>2 DEF FollowsFold
<1>7. it[DOMAIN s] = Folded(step, 0, s) /\ it[DOMAIN s] \in Nat
  BY <1>1, <1>6, FoldIsUnique
<1>. QED
  BY <1>5, <1>7 DEF step

\* Total of the empty sequence, and with one more element.
LEMMA TotalFacts ==
  ASSUME NEW length \in [Units -> Nat]
  PROVE  /\ Total(length, <<>>) = 0
         /\ \A s \in Seq(Units), u \in Units :
              /\ Total(length, s) \in Nat
              /\ Total(length, Append(s, u)) = Total(length, s) + length[u]
<1>. DEFINE step == [p \in Nat \X Units |-> p[1] + length[p[2]]]
<1>1. step \in StepOf(Nat, Units) /\ 0 \in Nat
  BY DEF StepOf
<1>2. \A x \in Nat, u \in Units : step[<<x, u>>] = x + length[u]
  OBVIOUS
<1>3. \A s \in Seq(Units) : Total(length, s) = Folded(step, 0, s)
  BY TotalIsAFold
<1>. HIDE DEF step
<1>4. GoesByElement(step, 0, Nat, Units)
  BY <1>1, FoldGoesByElement
<1>5. Total(length, <<>>) = 0
  <2>1. <<>> \in Seq(Units)
    OBVIOUS
  <2>. QED
    BY <1>3, <1>4, <2>1 DEF GoesByElement
<1>6. ASSUME NEW s \in Seq(Units), NEW u \in Units
      PROVE  /\ Total(length, s) \in Nat
             /\ Total(length, Append(s, u)) = Total(length, s) + length[u]
  <2>1. Append(s, u) \in Seq(Units)
    OBVIOUS
  <2>2. Total(length, s) \in Nat /\ Total(length, Append(s, u)) = step[<<Total(length, s), u>>]
    BY <1>3, <1>4, <2>1 DEF GoesByElement
  <2>. QED
    BY <1>2, <2>2
<1>. QED
  BY <1>5, <1>6

\* What Spent computes, as a fold by a function step.
LEMMA SpentIsAFold ==
  ASSUME NEW b \in Bundle, NEW s \in Seq(Units)
  PROVE  Spent(b, s) = Folded([p \in Nat \X Units |-> p[1] + EstimateTokens(b.length[p[2]])], 0, s)
<1>. DEFINE step == [p \in Nat \X Units |-> p[1] + EstimateTokens(b.length[p[2]])]
<1>1. step \in StepOf(Nat, Units) /\ 0 \in Nat
  <2>1. \A u \in Units : EstimateTokens(b.length[u]) \in Nat
    BY EstimatesAreNatural DEF Bundle
  <2>. QED
    BY <2>1 DEF StepOf
<1>2. \A x \in Nat, e \in Units : step[<<x, e>>] = x + EstimateTokens(b.length[e])
  OBVIOUS
<1>. HIDE DEF step
<1>3. PICK g \in [SUBSET DOMAIN s -> Nat] : ComputesFold(g, step, 0, s)
  BY <1>1, FoldExists
<1>4. g = [t \in SUBSET DOMAIN s |->
            IF t = {} THEN 0 ELSE g[t \ {Max(t)}] + EstimateTokens(b.length[s[Max(t)]])]
  <2>1. ASSUME NEW t \in SUBSET DOMAIN s, t # {}
        PROVE  step[<<g[t \ {Max(t)}], s[Max(t)]>>] = g[t \ {Max(t)}] + EstimateTokens(b.length[s[Max(t)]])
    <3>1. s[Max(t)] \in Units /\ g[t \ {Max(t)}] \in Nat
      BY <2>1, MaxIsAnIndex
    <3>. HIDE DEF Max
    <3>. QED
      BY <1>2, <3>1
  <2>. QED
    BY <1>3, <2>1 DEF ComputesFold
<1>5. PICK it : /\ it = [t \in SUBSET DOMAIN s |->
                        IF t = {} THEN 0 ELSE it[t \ {Max(t)}] + EstimateTokens(b.length[s[Max(t)]])]
                /\ Spent(b, s) = it[DOMAIN s]
  BY <1>4 DEF Spent, FoldLeft, MapThenFoldSet
<1>6. FollowsFold(it, Nat, step, 0, s)
  <2>1. it[{}] = 0
    BY <1>5
  <2>2. ASSUME NEW m \in 1..Len(s), it[1..(m - 1)] \in Nat
        PROVE  it[1..m] = step[<<it[1..(m - 1)], s[m]>>]
    <3>1. /\ 1..m \in SUBSET DOMAIN s /\ 1..m # {}
          /\ Max(1..m) = m /\ (1..m) \ {m} = 1..(m - 1) /\ s[m] \in Units
      BY PrefixOfIndexes
    <3>2. it[1..m] = it[1..(m - 1)] + EstimateTokens(b.length[s[m]])
      <4>. HIDE DEF Max
      <4>. QED
        BY <1>5, <3>1
    <3>. QED
      BY <1>2, <2>2, <3>1, <3>2
  <2>. QED
    BY <2>1, <2>2 DEF FollowsFold
<1>7. it[DOMAIN s] = Folded(step, 0, s) /\ it[DOMAIN s] \in Nat
  BY <1>1, <1>6, FoldIsUnique
<1>. QED
  BY <1>5, <1>7 DEF step

\* Spent of the empty sequence, and with one more element.
LEMMA SpentFacts ==
  ASSUME NEW b \in Bundle
  PROVE  /\ Spent(b, <<>>) = 0
         /\ \A s \in Seq(Units), u \in Units :
              /\ Spent(b, s) \in Nat
              /\ Spent(b, Append(s, u)) = Spent(b, s) + EstimateTokens(b.length[u])
<1>. DEFINE step == [p \in Nat \X Units |-> p[1] + EstimateTokens(b.length[p[2]])]
<1>1. step \in StepOf(Nat, Units) /\ 0 \in Nat
  <2>1. \A u \in Units : EstimateTokens(b.length[u]) \in Nat
    BY EstimatesAreNatural DEF Bundle
  <2>. QED
    BY <2>1 DEF StepOf
<1>2. \A x \in Nat, u \in Units : step[<<x, u>>] = x + EstimateTokens(b.length[u])
  OBVIOUS
<1>3. \A s \in Seq(Units) : Spent(b, s) = Folded(step, 0, s)
  BY SpentIsAFold
<1>. HIDE DEF step
<1>4. GoesByElement(step, 0, Nat, Units)
  BY <1>1, FoldGoesByElement
<1>5. Spent(b, <<>>) = 0
  <2>1. <<>> \in Seq(Units)
    OBVIOUS
  <2>. QED
    BY <1>3, <1>4, <2>1 DEF GoesByElement
<1>6. ASSUME NEW s \in Seq(Units), NEW u \in Units
      PROVE  /\ Spent(b, s) \in Nat
             /\ Spent(b, Append(s, u)) = Spent(b, s) + EstimateTokens(b.length[u])
  <2>1. Append(s, u) \in Seq(Units)
    OBVIOUS
  <2>2. Spent(b, s) \in Nat /\ Spent(b, Append(s, u)) = step[<<Spent(b, s), u>>]
    BY <1>3, <1>4, <2>1 DEF GoesByElement
  <2>. QED
    BY <1>2, <2>2
<1>. QED
  BY <1>5, <1>6

\* What RemoveRedundant computes, as a fold by a function step.
LEMMA RemoveRedundantIsAFold ==
  ASSUME NEW b, NEW s \in Seq(Units)
  PROVE  RemoveRedundant(b, s) = Folded([p \in Seq(Units) \X Units |-> KeepIfNew(b, p[1], p[2])], <<>>, s)
<1>. DEFINE step == [p \in Seq(Units) \X Units |-> KeepIfNew(b, p[1], p[2])]
<1>1. step \in StepOf(Seq(Units), Units) /\ <<>> \in Seq(Units)
  BY DEF StepOf, KeepIfNew
<1>2. \A x \in Seq(Units), e \in Units : step[<<x, e>>] = KeepIfNew(b, x, e)
  OBVIOUS
<1>. HIDE DEF step
<1>3. PICK g \in [SUBSET DOMAIN s -> Seq(Units)] : ComputesFold(g, step, <<>>, s)
  BY <1>1, FoldExists
<1>4. g = [t \in SUBSET DOMAIN s |->
            IF t = {} THEN <<>> ELSE KeepIfNew(b, g[t \ {Max(t)}], s[Max(t)])]
  <2>1. ASSUME NEW t \in SUBSET DOMAIN s, t # {}
        PROVE  step[<<g[t \ {Max(t)}], s[Max(t)]>>] = KeepIfNew(b, g[t \ {Max(t)}], s[Max(t)])
    <3>1. s[Max(t)] \in Units /\ g[t \ {Max(t)}] \in Seq(Units)
      BY <2>1, MaxIsAnIndex
    <3>. HIDE DEF Max
    <3>. QED
      BY <1>2, <3>1
  <2>. QED
    BY <1>3, <2>1 DEF ComputesFold
<1>5. PICK it : /\ it = [t \in SUBSET DOMAIN s |->
                        IF t = {} THEN <<>> ELSE KeepIfNew(b, it[t \ {Max(t)}], s[Max(t)])]
                /\ RemoveRedundant(b, s) = it[DOMAIN s]
  BY <1>4 DEF RemoveRedundant, KeepIfNew, FoldLeft, MapThenFoldSet
<1>6. FollowsFold(it, Seq(Units), step, <<>>, s)
  <2>1. it[{}] = <<>>
    BY <1>5
  <2>2. ASSUME NEW m \in 1..Len(s), it[1..(m - 1)] \in Seq(Units)
        PROVE  it[1..m] = step[<<it[1..(m - 1)], s[m]>>]
    <3>1. /\ 1..m \in SUBSET DOMAIN s /\ 1..m # {}
          /\ Max(1..m) = m /\ (1..m) \ {m} = 1..(m - 1) /\ s[m] \in Units
      BY PrefixOfIndexes
    <3>2. it[1..m] = KeepIfNew(b, it[1..(m - 1)], s[m])
      <4>. HIDE DEF Max
      <4>. QED
        BY <1>5, <3>1
    <3>. QED
      BY <1>2, <2>2, <3>1, <3>2
  <2>. QED
    BY <2>1, <2>2 DEF FollowsFold
<1>7. it[DOMAIN s] = Folded(step, <<>>, s) /\ it[DOMAIN s] \in Seq(Units)
  BY <1>1, <1>6, FoldIsUnique
<1>. QED
  BY <1>5, <1>7 DEF step

\* RemoveRedundant of the empty sequence, and with one more element.
LEMMA RemoveRedundantFacts ==
  ASSUME NEW b
  PROVE  /\ RemoveRedundant(b, <<>>) = <<>>
         /\ \A s \in Seq(Units), u \in Units :
              /\ RemoveRedundant(b, s) \in Seq(Units)
              /\ RemoveRedundant(b, Append(s, u)) = KeepIfNew(b, RemoveRedundant(b, s), u)
<1>. DEFINE step == [p \in Seq(Units) \X Units |-> KeepIfNew(b, p[1], p[2])]
<1>1. step \in StepOf(Seq(Units), Units) /\ <<>> \in Seq(Units)
  BY DEF StepOf, KeepIfNew
<1>2. \A x \in Seq(Units), u \in Units : step[<<x, u>>] = KeepIfNew(b, x, u)
  OBVIOUS
<1>3. \A s \in Seq(Units) : RemoveRedundant(b, s) = Folded(step, <<>>, s)
  BY RemoveRedundantIsAFold
<1>. HIDE DEF step
<1>4. GoesByElement(step, <<>>, Seq(Units), Units)
  BY <1>1, FoldGoesByElement
<1>5. RemoveRedundant(b, <<>>) = <<>>
  <2>1. <<>> \in Seq(Units)
    OBVIOUS
  <2>. QED
    BY <1>3, <1>4, <2>1 DEF GoesByElement
<1>6. ASSUME NEW s \in Seq(Units), NEW u \in Units
      PROVE  /\ RemoveRedundant(b, s) \in Seq(Units)
             /\ RemoveRedundant(b, Append(s, u)) = KeepIfNew(b, RemoveRedundant(b, s), u)
  <2>1. Append(s, u) \in Seq(Units)
    OBVIOUS
  <2>2. RemoveRedundant(b, s) \in Seq(Units) /\ RemoveRedundant(b, Append(s, u)) = step[<<RemoveRedundant(b, s), u>>]
    BY <1>3, <1>4, <2>1 DEF GoesByElement
  <2>. QED
    BY <1>2, <2>2
<1>. QED
  BY <1>5, <1>6

\* What FitToBudget computes, as a fold by a function step.
LEMMA FitToBudgetIsAFold ==
  ASSUME NEW b, NEW s \in Seq(Units)
  PROVE  FitToBudget(b, s) = Folded([p \in Seq(Units) \X Units |-> AddIfFits(b, p[1], p[2])], <<>>, s)
<1>. DEFINE step == [p \in Seq(Units) \X Units |-> AddIfFits(b, p[1], p[2])]
<1>1. step \in StepOf(Seq(Units), Units) /\ <<>> \in Seq(Units)
  BY DEF StepOf, AddIfFits
<1>2. \A x \in Seq(Units), e \in Units : step[<<x, e>>] = AddIfFits(b, x, e)
  OBVIOUS
<1>. HIDE DEF step
<1>3. PICK g \in [SUBSET DOMAIN s -> Seq(Units)] : ComputesFold(g, step, <<>>, s)
  BY <1>1, FoldExists
<1>4. g = [t \in SUBSET DOMAIN s |->
            IF t = {} THEN <<>> ELSE AddIfFits(b, g[t \ {Max(t)}], s[Max(t)])]
  <2>1. ASSUME NEW t \in SUBSET DOMAIN s, t # {}
        PROVE  step[<<g[t \ {Max(t)}], s[Max(t)]>>] = AddIfFits(b, g[t \ {Max(t)}], s[Max(t)])
    <3>1. s[Max(t)] \in Units /\ g[t \ {Max(t)}] \in Seq(Units)
      BY <2>1, MaxIsAnIndex
    <3>. HIDE DEF Max
    <3>. QED
      BY <1>2, <3>1
  <2>. QED
    BY <1>3, <2>1 DEF ComputesFold
<1>5. PICK it : /\ it = [t \in SUBSET DOMAIN s |->
                        IF t = {} THEN <<>> ELSE AddIfFits(b, it[t \ {Max(t)}], s[Max(t)])]
                /\ FitToBudget(b, s) = it[DOMAIN s]
  BY <1>4 DEF FitToBudget, AddIfFits, FoldLeft, MapThenFoldSet
<1>6. FollowsFold(it, Seq(Units), step, <<>>, s)
  <2>1. it[{}] = <<>>
    BY <1>5
  <2>2. ASSUME NEW m \in 1..Len(s), it[1..(m - 1)] \in Seq(Units)
        PROVE  it[1..m] = step[<<it[1..(m - 1)], s[m]>>]
    <3>1. /\ 1..m \in SUBSET DOMAIN s /\ 1..m # {}
          /\ Max(1..m) = m /\ (1..m) \ {m} = 1..(m - 1) /\ s[m] \in Units
      BY PrefixOfIndexes
    <3>2. it[1..m] = AddIfFits(b, it[1..(m - 1)], s[m])
      <4>. HIDE DEF Max
      <4>. QED
        BY <1>5, <3>1
    <3>. QED
      BY <1>2, <2>2, <3>1, <3>2
  <2>. QED
    BY <2>1, <2>2 DEF FollowsFold
<1>7. it[DOMAIN s] = Folded(step, <<>>, s) /\ it[DOMAIN s] \in Seq(Units)
  BY <1>1, <1>6, FoldIsUnique
<1>. QED
  BY <1>5, <1>7 DEF step

\* FitToBudget of the empty sequence, and with one more element.
LEMMA FitToBudgetFacts ==
  ASSUME NEW b
  PROVE  /\ FitToBudget(b, <<>>) = <<>>
         /\ \A s \in Seq(Units), u \in Units :
              /\ FitToBudget(b, s) \in Seq(Units)
              /\ FitToBudget(b, Append(s, u)) = AddIfFits(b, FitToBudget(b, s), u)
<1>. DEFINE step == [p \in Seq(Units) \X Units |-> AddIfFits(b, p[1], p[2])]
<1>1. step \in StepOf(Seq(Units), Units) /\ <<>> \in Seq(Units)
  BY DEF StepOf, AddIfFits
<1>2. \A x \in Seq(Units), u \in Units : step[<<x, u>>] = AddIfFits(b, x, u)
  OBVIOUS
<1>3. \A s \in Seq(Units) : FitToBudget(b, s) = Folded(step, <<>>, s)
  BY FitToBudgetIsAFold
<1>. HIDE DEF step
<1>4. GoesByElement(step, <<>>, Seq(Units), Units)
  BY <1>1, FoldGoesByElement
<1>5. FitToBudget(b, <<>>) = <<>>
  <2>1. <<>> \in Seq(Units)
    OBVIOUS
  <2>. QED
    BY <1>3, <1>4, <2>1 DEF GoesByElement
<1>6. ASSUME NEW s \in Seq(Units), NEW u \in Units
      PROVE  /\ FitToBudget(b, s) \in Seq(Units)
             /\ FitToBudget(b, Append(s, u)) = AddIfFits(b, FitToBudget(b, s), u)
  <2>1. Append(s, u) \in Seq(Units)
    OBVIOUS
  <2>2. FitToBudget(b, s) \in Seq(Units) /\ FitToBudget(b, Append(s, u)) = step[<<FitToBudget(b, s), u>>]
    BY <1>3, <1>4, <2>1 DEF GoesByElement
  <2>. QED
    BY <1>2, <2>2
<1>. QED
  BY <1>5, <1>6

\* What Flatten computes, as a fold by a function step.
LEMMA FlattenIsAFold ==
  ASSUME NEW b, b.groups \in Seq(EvidenceGroup)
  PROVE  FlattenInRankOrder(b) = Folded([p \in Seq(Units) \X EvidenceGroup |-> (Append(p[1], p[2].primary) \o p[2].supporting)], <<>>, b.groups)
<1>. DEFINE step == [p \in Seq(Units) \X EvidenceGroup |-> (Append(p[1], p[2].primary) \o p[2].supporting)]
<1>1. step \in StepOf(Seq(Units), EvidenceGroup) /\ <<>> \in Seq(Units)
  BY DEF EvidenceGroup, StepOf
<1>2. \A x \in Seq(Units), e \in EvidenceGroup : step[<<x, e>>] = (Append(x, e.primary) \o e.supporting)
  OBVIOUS
<1>. HIDE DEF step
<1>3. PICK g \in [SUBSET DOMAIN b.groups -> Seq(Units)] : ComputesFold(g, step, <<>>, b.groups)
  BY <1>1, FoldExists
<1>4. g = [t \in SUBSET DOMAIN b.groups |->
            IF t = {} THEN <<>> ELSE (Append(g[t \ {Max(t)}], b.groups[Max(t)].primary) \o b.groups[Max(t)].supporting)]
  <2>1. ASSUME NEW t \in SUBSET DOMAIN b.groups, t # {}
        PROVE  step[<<g[t \ {Max(t)}], b.groups[Max(t)]>>] = (Append(g[t \ {Max(t)}], b.groups[Max(t)].primary) \o b.groups[Max(t)].supporting)
    <3>1. b.groups[Max(t)] \in EvidenceGroup /\ g[t \ {Max(t)}] \in Seq(Units)
      BY <2>1, MaxIsAnIndex
    <3>. HIDE DEF Max
    <3>. QED
      BY <1>2, <3>1
  <2>. QED
    BY <1>3, <2>1 DEF ComputesFold
<1>5. PICK it : /\ it = [t \in SUBSET DOMAIN b.groups |->
                        IF t = {} THEN <<>> ELSE (Append(it[t \ {Max(t)}], b.groups[Max(t)].primary) \o b.groups[Max(t)].supporting)]
                /\ FlattenInRankOrder(b) = it[DOMAIN b.groups]
  BY <1>4 DEF FlattenInRankOrder, FoldLeft, MapThenFoldSet
<1>6. FollowsFold(it, Seq(Units), step, <<>>, b.groups)
  <2>1. it[{}] = <<>>
    BY <1>5
  <2>2. ASSUME NEW m \in 1..Len(b.groups), it[1..(m - 1)] \in Seq(Units)
        PROVE  it[1..m] = step[<<it[1..(m - 1)], b.groups[m]>>]
    <3>1. /\ 1..m \in SUBSET DOMAIN b.groups /\ 1..m # {}
          /\ Max(1..m) = m /\ (1..m) \ {m} = 1..(m - 1) /\ b.groups[m] \in EvidenceGroup
      BY PrefixOfIndexes
    <3>2. it[1..m] = (Append(it[1..(m - 1)], b.groups[m].primary) \o b.groups[m].supporting)
      <4>. HIDE DEF Max
      <4>. QED
        BY <1>5, <3>1
    <3>. QED
      BY <1>2, <2>2, <3>1, <3>2
  <2>. QED
    BY <2>1, <2>2 DEF FollowsFold
<1>7. it[DOMAIN b.groups] = Folded(step, <<>>, b.groups) /\ it[DOMAIN b.groups] \in Seq(Units)
  BY <1>1, <1>6, FoldIsUnique
<1>. QED
  BY <1>5, <1>7 DEF step

\* What retrieval hands over is a sequence of units.
LEMMA FlattenedIsTyped ==
  ASSUME NEW b \in Bundle
  PROVE  FlattenInRankOrder(b) \in Seq(Units)
<1>. DEFINE step == [p \in (Seq(Units)) \X EvidenceGroup |-> Append(p[1], p[2].primary) \o p[2].supporting]
<1>1. step \in StepOf(Seq(Units), EvidenceGroup) /\ <<>> \in Seq(Units)
  BY DEF EvidenceGroup, StepOf
<1>2. b.groups \in Seq(EvidenceGroup)
  BY DEF Bundle, EvidenceGroup
<1>3. FlattenInRankOrder(b) = Folded(step, <<>>, b.groups)
  BY <1>2, FlattenIsAFold
<1>. HIDE DEF step
<1>. QED
  BY <1>1, <1>2, <1>3, FoldedIsTyped

\* The elements of s are elements of t, in the order of t.
Subsequence(s, t) ==
  \E f \in [1..Len(s) -> 1..Len(t)] :
    /\ \A j, k \in 1..Len(s) : j < k => f[j] < f[k]
    /\ \A k \in 1..Len(s) : s[k] = t[f[k]]

\* With one more element, taken or left out.
LEMMA SubsequenceGrows ==
  ASSUME NEW E, NEW s \in Seq(E), NEW t \in Seq(E), NEW e \in E, Subsequence(s, t)
  PROVE  Subsequence(s, Append(t, e)) /\ Subsequence(Append(s, e), Append(t, e))
<1>1. PICK f \in [1..Len(s) -> 1..Len(t)] :
        /\ \A j, k \in 1..Len(s) : j < k => f[j] < f[k]
        /\ \A k \in 1..Len(s) : s[k] = t[f[k]]
  BY DEF Subsequence
<1>2. /\ Len(s) \in Nat /\ Len(t) \in Nat
      /\ Len(Append(s, e)) = Len(s) + 1 /\ Len(Append(t, e)) = Len(t) + 1
      /\ \A k \in 1..Len(s) : Append(s, e)[k] = s[k]
      /\ \A k \in 1..Len(t) : Append(t, e)[k] = t[k]
      /\ Append(s, e)[Len(s) + 1] = e /\ Append(t, e)[Len(t) + 1] = e
  OBVIOUS
<1>3. Subsequence(s, Append(t, e))
  <2>1. f \in [1..Len(s) -> 1..(Len(t) + 1)]
    BY <1>2
  <2>2. \A k \in 1..Len(s) : s[k] = Append(t, e)[f[k]]
    BY <1>1, <1>2
  <2>. QED
    BY <1>1, <1>2, <2>1, <2>2 DEF Subsequence
<1>4. Subsequence(Append(s, e), Append(t, e))
  <2>. DEFINE g == [k \in 1..(Len(s) + 1) |-> IF k = Len(s) + 1 THEN Len(t) + 1 ELSE f[k]]
  <2>1. g \in [1..(Len(s) + 1) -> 1..(Len(t) + 1)]
    BY <1>2
  <2>2. ASSUME NEW j \in 1..(Len(s) + 1), NEW k \in 1..(Len(s) + 1), j < k
        PROVE  g[j] < g[k]
    <3>1. j \in 1..Len(s) /\ f[j] \in 1..Len(t)
      BY <1>2, <2>2
    <3>2. k = Len(s) + 1 \/ k \in 1..Len(s)
      BY <1>2
    <3>. QED
      BY <1>1, <1>2, <2>2, <3>1, <3>2
  <2>3. \A k \in 1..(Len(s) + 1) : Append(s, e)[k] = Append(t, e)[g[k]]
    BY <1>1, <1>2
  <2>. HIDE DEF g
  <2>. QED
    BY <1>2, <2>1, <2>2, <2>3 DEF Subsequence
<1>. QED
  BY <1>3, <1>4

\* A selection from a selection.
LEMMA SubsequencesCompose ==
  ASSUME NEW E, NEW r \in Seq(E), NEW s \in Seq(E), NEW t \in Seq(E),
         Subsequence(r, s), Subsequence(s, t)
  PROVE  Subsequence(r, t)
<1>1. PICK f \in [1..Len(r) -> 1..Len(s)] :
        /\ \A j, k \in 1..Len(r) : j < k => f[j] < f[k]
        /\ \A k \in 1..Len(r) : r[k] = s[f[k]]
  BY DEF Subsequence
<1>2. PICK g \in [1..Len(s) -> 1..Len(t)] :
        /\ \A j, k \in 1..Len(s) : j < k => g[j] < g[k]
        /\ \A k \in 1..Len(s) : s[k] = t[g[k]]
  BY DEF Subsequence
<1>. DEFINE h == [k \in 1..Len(r) |-> g[f[k]]]
<1>3. h \in [1..Len(r) -> 1..Len(t)]
  OBVIOUS
<1>4. \A j, k \in 1..Len(r) : j < k => h[j] < h[k]
  BY <1>1, <1>2
<1>5. \A k \in 1..Len(r) : r[k] = t[h[k]]
  BY <1>1, <1>2
<1>. HIDE DEF h
<1>. QED
  BY <1>3, <1>4, <1>5 DEF Subsequence

-----------------------------------------------------------------------------

\* What RemoveRedundant promises of what it keeps of the members.
Irredundant(b, members, kept) ==
  /\ kept \in Seq(Units) /\ Subsequence(kept, members)
  /\ \A j, k \in DOMAIN kept : j < k => <<kept[k], kept[j]>> \notin b.within
  /\ \A k \in DOMAIN members :
       \/ \E i \in DOMAIN kept : kept[i] = members[k]
       \/ \E j \in 1..(k - 1) : <<members[k], members[j]>> \in b.within

\* What FitToBudget promises.
FilledUp(b, members, kept) ==
  /\ kept \in Seq(Units) /\ Subsequence(kept, members)
  /\ Spent(b, kept) <= EvidenceBudget
  /\ \A k \in DOMAIN members :
       \/ \E i \in DOMAIN kept : kept[i] = members[k]
       \/ Spent(b, kept) + EstimateTokens(b.length[members[k]]) > EvidenceBudget

\* Nothing is selected from nothing.
LEMMA EmptySubsequence == Subsequence(<<>>, <<>>)
<1>. DEFINE f == [k \in 1..0 |-> 0]
<1>1. Len(<<>>) = 0 /\ f \in [1..0 -> 1..0] /\ \A k \in 1..0 : FALSE
  OBVIOUS
<1>. HIDE DEF f
<1>. QED
  BY <1>1 DEF Subsequence

\* Of any members, nothing is kept whose text is part of an earlier one's, and
\* all the rest is.
LEMMA RedundantIsRemoved ==
  ASSUME NEW b
  PROVE  \A members \in Seq(Units) : Irredundant(b, members, RemoveRedundant(b, members))
<1>. DEFINE S == {m \in Seq(Units) : Irredundant(b, m, RemoveRedundant(b, m))}
<1>1. <<>> \in S
  <2>1. RemoveRedundant(b, <<>>) = <<>> /\ <<>> \in Seq(Units) /\ DOMAIN <<>> = {}
    BY RemoveRedundantFacts
  <2>. QED
    BY <2>1, EmptySubsequence DEF Irredundant
<1>2. ASSUME NEW m \in Seq(Units), NEW u \in Units, m \in S
      PROVE  Append(m, u) \in S
  <2>. DEFINE kept == RemoveRedundant(b, m)
              next == RemoveRedundant(b, Append(m, u))
              mu   == Append(m, u)
              ku   == Append(kept, u)
  <2>1. kept \in Seq(Units) /\ next = KeepIfNew(b, kept, u)
    BY RemoveRedundantFacts
  <2>2. Irredundant(b, m, kept)
    BY <1>2
  <2>. HIDE DEF kept, next
  <2>3. /\ Len(m) \in Nat /\ DOMAIN m = 1..Len(m) /\ DOMAIN mu = 1..(Len(m) + 1)
        /\ \A k \in 1..Len(m) : mu[k] = m[k]
        /\ mu[Len(m) + 1] = u /\ mu \in Seq(Units)
    OBVIOUS
  <2>4. /\ Len(kept) \in Nat /\ DOMAIN kept = 1..Len(kept) /\ DOMAIN ku = 1..(Len(kept) + 1)
        /\ \A k \in 1..Len(kept) : ku[k] = kept[k]
        /\ ku[Len(kept) + 1] = u /\ ku \in Seq(Units)
    BY <2>1
  <2>5. Subsequence(kept, mu) /\ Subsequence(ku, mu)
    BY <2>1, <2>2, SubsequenceGrows DEF Irredundant
  <2>6. next = IF \E k \in DOMAIN kept : <<u, kept[k]>> \in b.within THEN kept ELSE ku
    BY <2>1 DEF KeepIfNew
  <2>7. /\ \A j, k \in 1..Len(kept) : j < k => <<kept[k], kept[j]>> \notin b.within
        /\ \A k \in 1..Len(m) :
             \/ \E i \in 1..Len(kept) : kept[i] = m[k]
             \/ \E j \in 1..(k - 1) : <<m[k], m[j]>> \in b.within
    BY <2>2, <2>3, <2>4 DEF Irredundant
  <2>8. PICK f \in [1..Len(kept) -> 1..Len(m)] : \A k \in 1..Len(kept) : kept[k] = m[f[k]]
    BY <2>2 DEF Irredundant, Subsequence
  <2>. HIDE DEF mu, ku
  <2>9. \A k \in 1..(Len(m) + 1) : k = Len(m) + 1 \/ k \in 1..Len(m)
    BY <2>3
  <2>10. CASE \E k \in DOMAIN kept : <<u, kept[k]>> \in b.within
    <3>1. next = kept
      BY <2>6, <2>10
    <3>2. PICK e \in 1..Len(m) : <<u, m[e]>> \in b.within
      BY <2>4, <2>8, <2>10
    <3>3. ASSUME NEW k \in 1..(Len(m) + 1)
          PROVE  \/ \E i \in 1..Len(kept) : kept[i] = mu[k]
                 \/ \E j \in 1..(k - 1) : <<mu[k], mu[j]>> \in b.within
      <4>1. CASE k = Len(m) + 1
        <5>0. mu[k] = u /\ mu[e] = m[e]
          BY <2>3, <3>2, <4>1
        <5>1. e \in 1..(k - 1) /\ <<mu[k], mu[e]>> \in b.within
          <6>1. k - 1 = Len(m)
            BY <2>3, <4>1
          <6>. QED
            BY <3>2, <5>0, <6>1
        <5>. QED
          BY <5>1
      <4>2. CASE k \in 1..Len(m) /\ \E i \in 1..Len(kept) : kept[i] = m[k]
        BY <2>3, <4>2
      <4>3. CASE k \in 1..Len(m) /\ \E j \in 1..(k - 1) : <<m[k], m[j]>> \in b.within
        <5>1. PICK j \in 1..(k - 1) : <<m[k], m[j]>> \in b.within
          BY <4>3
        <5>2. j \in 1..Len(m)
          BY <2>3, <4>3
        <5>. QED
          BY <2>3, <4>3, <5>1, <5>2
      <4>. QED
        BY <2>7, <2>9, <4>1, <4>2, <4>3
    <3>4. Irredundant(b, mu, kept)
      BY <2>1, <2>3, <2>4, <2>5, <2>7, <3>3 DEF Irredundant
    <3>. QED
      BY <2>3, <3>1, <3>4 DEF next, mu
  <2>11. CASE ~\E k \in DOMAIN kept : <<u, kept[k]>> \in b.within
    <3>1. next = ku
      BY <2>6, <2>11
    <3>2. ASSUME NEW j \in 1..(Len(kept) + 1), NEW k \in 1..(Len(kept) + 1), j < k
          PROVE  <<ku[k], ku[j]>> \notin b.within
      <4>1. j \in 1..Len(kept) /\ ku[j] = kept[j]
        BY <2>4, <3>2
      <4>2. CASE k = Len(kept) + 1
        BY <2>4, <2>11, <4>1, <4>2
      <4>3. CASE k \in 1..Len(kept)
        BY <2>4, <2>7, <3>2, <4>1, <4>3
      <4>. QED
        BY <2>4, <4>2, <4>3
    <3>3. ASSUME NEW k \in 1..(Len(m) + 1)
          PROVE  \/ \E i \in 1..(Len(kept) + 1) : ku[i] = mu[k]
                 \/ \E j \in 1..(k - 1) : <<mu[k], mu[j]>> \in b.within
      <4>1. CASE k = Len(m) + 1
        <5>1. mu[k] = u /\ Len(kept) + 1 \in 1..(Len(kept) + 1)
          BY <2>3, <2>4, <4>1
        <5>. QED
          BY <2>4, <5>1
      <4>2. CASE k \in 1..Len(m) /\ \E i \in 1..Len(kept) : kept[i] = m[k]
        BY <2>3, <2>4, <4>2
      <4>3. CASE k \in 1..Len(m) /\ \E j \in 1..(k - 1) : <<m[k], m[j]>> \in b.within
        <5>1. PICK j \in 1..(k - 1) : <<m[k], m[j]>> \in b.within
          BY <4>3
        <5>2. j \in 1..Len(m)
          BY <2>3, <4>3
        <5>. QED
          BY <2>3, <4>3, <5>1, <5>2
      <4>. QED
        BY <2>7, <2>9, <4>1, <4>2, <4>3
    <3>4. Irredundant(b, mu, ku)
      BY <2>3, <2>4, <2>5, <3>2, <3>3 DEF Irredundant
    <3>. QED
      BY <2>3, <3>1, <3>4 DEF next, mu
  <2>. QED
    BY <2>10, <2>11
<1>3. Seq(Units) \subseteq S
  <2>. HIDE DEF S
  <2>. QED
    BY <1>1, <1>2, SequenceInduction
<1>. QED
  BY <1>3

\* Of any members, all that fits in the budget is shown, and nothing else.
LEMMA BudgetIsFilled ==
  ASSUME NEW b \in Bundle
  PROVE  \A members \in Seq(Units) : FilledUp(b, members, FitToBudget(b, members))
<1>. DEFINE S == {m \in Seq(Units) : FilledUp(b, m, FitToBudget(b, m))}
<1>0. /\ \A u \in Units : EstimateTokens(b.length[u]) \in Nat
      /\ EvidenceBudget \in Nat
  <2>1. \A u \in Units : b.length[u] \in Nat
    BY DEF Bundle
  <2>2. \A u \in Units : EstimateTokens(b.length[u]) \in Nat
    BY <2>1, EstimatesAreNatural
  <2>3. EvidenceBudget \in Nat
    BY TokensAreNatural DEF EvidenceBudget, Monus
  <2>. QED
    BY <2>2, <2>3
<1>1. <<>> \in S
  <2>1. FitToBudget(b, <<>>) = <<>> /\ <<>> \in Seq(Units) /\ DOMAIN <<>> = {}
    BY FitToBudgetFacts
  <2>2. Spent(b, <<>>) = 0
    BY SpentFacts
  <2>3. Spent(b, <<>>) <= EvidenceBudget
    BY <1>0, <2>2
  <2>4. FilledUp(b, <<>>, <<>>)
    BY <2>1, <2>3, EmptySubsequence, Zenon DEF FilledUp
  <2>. QED
    BY <2>1, <2>4
<1>2. ASSUME NEW m \in Seq(Units), NEW u \in Units, m \in S
      PROVE  Append(m, u) \in S
  <2>. DEFINE kept == FitToBudget(b, m)
              next == FitToBudget(b, Append(m, u))
              mu   == Append(m, u)
              ku   == Append(kept, u)
              cost(v) == EstimateTokens(b.length[v])
  <2>1. kept \in Seq(Units) /\ next = AddIfFits(b, kept, u)
    BY FitToBudgetFacts
  <2>2. FilledUp(b, m, kept)
    BY <1>2
  <2>. HIDE DEF kept, next
  <2>3. /\ Len(m) \in Nat /\ DOMAIN m = 1..Len(m) /\ DOMAIN mu = 1..(Len(m) + 1)
        /\ \A k \in 1..Len(m) : mu[k] = m[k] /\ m[k] \in Units
        /\ mu[Len(m) + 1] = u /\ mu \in Seq(Units)
    OBVIOUS
  <2>4. /\ Len(kept) \in Nat /\ DOMAIN kept = 1..Len(kept) /\ DOMAIN ku = 1..(Len(kept) + 1)
        /\ \A k \in 1..Len(kept) : ku[k] = kept[k]
        /\ ku[Len(kept) + 1] = u /\ ku \in Seq(Units)
    BY <2>1
  <2>5. Subsequence(kept, mu) /\ Subsequence(ku, mu)
    BY <2>1, <2>2, SubsequenceGrows DEF FilledUp
  <2>6. next = IF Spent(b, kept) + cost(u) > EvidenceBudget THEN kept ELSE ku
    BY <2>1 DEF AddIfFits
  <2>7. /\ Spent(b, kept) \in Nat /\ Spent(b, ku) = Spent(b, kept) + cost(u)
        /\ Spent(b, kept) <= EvidenceBudget
        /\ \A k \in 1..Len(m) :
             \/ \E i \in 1..Len(kept) : kept[i] = m[k]
             \/ Spent(b, kept) + cost(m[k]) > EvidenceBudget
    BY <2>1, <2>2, <2>3, <2>4, SpentFacts DEF FilledUp
  <2>8. cost(u) \in Nat /\ \A k \in 1..Len(m) : cost(m[k]) \in Nat
    BY <1>0, <2>3
  <2>. HIDE DEF mu, ku
  <2>9. \A k \in 1..(Len(m) + 1) : k = Len(m) + 1 \/ k \in 1..Len(m)
    BY <2>3
  <2>10. CASE Spent(b, kept) + cost(u) > EvidenceBudget
    <3>1. next = kept
      BY <2>6, <2>10
    <3>2. ASSUME NEW k \in 1..(Len(m) + 1)
          PROVE  \/ \E i \in 1..Len(kept) : kept[i] = mu[k]
                 \/ Spent(b, kept) + cost(mu[k]) > EvidenceBudget
      BY <2>3, <2>7, <2>9, <2>10
    <3>3. FilledUp(b, mu, kept)
      BY <2>1, <2>3, <2>4, <2>5, <2>7, <3>2 DEF FilledUp
    <3>. QED
      BY <2>3, <3>1, <3>3 DEF next, mu
  <2>11. CASE ~(Spent(b, kept) + cost(u) > EvidenceBudget)
    <3>1. next = ku /\ Spent(b, ku) <= EvidenceBudget
      BY <1>0, <2>6, <2>7, <2>8, <2>11
    <3>2. ASSUME NEW k \in 1..(Len(m) + 1)
          PROVE  \/ \E i \in 1..(Len(kept) + 1) : ku[i] = mu[k]
                 \/ Spent(b, ku) + cost(mu[k]) > EvidenceBudget
      <4>1. CASE k = Len(m) + 1
        <5>1. mu[k] = u /\ Len(kept) + 1 \in 1..(Len(kept) + 1)
          BY <2>3, <2>4, <4>1
        <5>. QED
          BY <2>4, <5>1
      <4>2. CASE k \in 1..Len(m) /\ \E i \in 1..Len(kept) : kept[i] = m[k]
        BY <2>3, <2>4, <4>2
      <4>3. CASE k \in 1..Len(m) /\ Spent(b, kept) + cost(m[k]) > EvidenceBudget
        <5>1. mu[k] = m[k] /\ cost(m[k]) \in Nat
          BY <2>3, <2>8, <4>3
        <5>. QED
          BY <1>0, <2>7, <2>8, <4>3, <5>1
      <4>. QED
        BY <2>7, <2>9, <4>1, <4>2, <4>3
    <3>3. FilledUp(b, mu, ku)
      BY <2>3, <2>4, <2>5, <3>1, <3>2 DEF FilledUp
    <3>. QED
      BY <2>3, <3>1, <3>3 DEF next, mu
  <2>. QED
    BY <2>10, <2>11
<1>3. Seq(Units) \subseteq S
  <2>. HIDE DEF S
  <2>. QED
    BY <1>1, <1>2, SequenceInduction
<1>. QED
  BY <1>3

\* What Optimize promises of the context it makes from a bundle.
Optimal(b, shown) ==
  LET members   == FlattenInRankOrder(b)
      ranked(u) == Position(members, u)
  IN  /\ shown \in Seq(Units) /\ IsInjective(shown)
      /\ {shown[k] : k \in DOMAIN shown} \subseteq {members[k] : k \in DOMAIN members}
      /\ \A j, k \in DOMAIN shown : j < k =>
           ranked(shown[j]) < ranked(shown[k]) /\ <<shown[k], shown[j]>> \notin b.within
      /\ Spent(b, shown) <= EvidenceBudget
      /\ \A k \in DOMAIN members :
           \/ members[k] \in {shown[i] : i \in DOMAIN shown}
           \/ \E j \in 1..k - 1 : <<members[k], members[j]>> \in b.within
           \/ Spent(b, shown) + EstimateTokens(b.length[members[k]]) > EvidenceBudget

\* It keeps it, for every bundle.
LEMMA OptimizeIsOptimal ==
  ASSUME NEW b \in Bundles
  PROVE  Optimal(b, Optimize(b))
<1>. DEFINE members == FlattenInRankOrder(b)
            kept    == RemoveRedundant(b, members)
            shown   == FitToBudget(b, kept)
<1>1. b \in Bundle /\ IsInjective(members)
  BY BundlesAreRetrieved
<1>2. members \in Seq(Units)
  BY <1>1, FlattenedIsTyped
<1>3. Irredundant(b, members, kept)
  BY <1>2, RedundantIsRemoved
<1>4. FilledUp(b, kept, shown)
  BY <1>1, <1>3, BudgetIsFilled DEF Irredundant
<1>5. shown = Optimize(b)
  BY DEF Optimize
<1>. HIDE DEF members, kept, shown
<1>6. kept \in Seq(Units) /\ shown \in Seq(Units) /\ Subsequence(shown, members)
  BY <1>2, <1>3, <1>4, SubsequencesCompose DEF Irredundant, FilledUp
<1>7. /\ Len(members) \in Nat /\ DOMAIN members = 1..Len(members)
      /\ Len(kept) \in Nat /\ DOMAIN kept = 1..Len(kept)
      /\ Len(shown) \in Nat /\ DOMAIN shown = 1..Len(shown)
  BY <1>2, <1>6
<1>8. PICK f \in [1..Len(shown) -> 1..Len(members)] :
        /\ \A j, k \in 1..Len(shown) : j < k => f[j] < f[k]
        /\ \A k \in 1..Len(shown) : shown[k] = members[f[k]]
  BY <1>6 DEF Subsequence
<1>9. \A k \in DOMAIN members : Position(members, members[k]) = k
  <2>. SUFFICES ASSUME NEW k \in DOMAIN members
                PROVE  Position(members, members[k]) = k
    OBVIOUS
  <2>1. \A i \in DOMAIN members : members[i] = members[k] <=> i = k
    BY <1>1 DEF IsInjective
  <2>. QED
    BY <2>1 DEF Position
<1>10. \A k \in 1..Len(shown) : Position(members, shown[k]) = f[k]
  BY <1>7, <1>8, <1>9
<1>11. IsInjective(shown)
  <2>. SUFFICES ASSUME NEW j \in 1..Len(shown), NEW k \in 1..Len(shown), shown[j] = shown[k]
                PROVE  j = k
    BY <1>7 DEF IsInjective
  <2>1. f[j] = f[k]
    BY <1>10
  <2>2. ~(j < k) /\ ~(k < j)
    BY <1>8, <2>1
  <2>. QED
    BY <1>7, <2>2
<1>12. {shown[k] : k \in DOMAIN shown} \subseteq {members[k] : k \in DOMAIN members}
  BY <1>7, <1>8
<1>13. ASSUME NEW j \in DOMAIN shown, NEW k \in DOMAIN shown, j < k
       PROVE  /\ Position(members, shown[j]) < Position(members, shown[k])
              /\ <<shown[k], shown[j]>> \notin b.within
  <2>1. Position(members, shown[j]) < Position(members, shown[k])
    BY <1>7, <1>8, <1>10, <1>13
  <2>2. PICK g \in [1..Len(shown) -> 1..Len(kept)] :
          /\ \A i, h \in 1..Len(shown) : i < h => g[i] < g[h]
          /\ \A i \in 1..Len(shown) : shown[i] = kept[g[i]]
    BY <1>4 DEF FilledUp, Subsequence
  <2>3. /\ g[j] \in DOMAIN kept /\ g[k] \in DOMAIN kept /\ g[j] < g[k]
        /\ shown[j] = kept[g[j]] /\ shown[k] = kept[g[k]]
    BY <1>7, <1>13, <2>2
  <2>. QED
    BY <1>3, <2>1, <2>3 DEF Irredundant
<1>14. Spent(b, shown) <= EvidenceBudget
  BY <1>4 DEF FilledUp
<1>15. ASSUME NEW k \in DOMAIN members
       PROVE  \/ members[k] \in {shown[i] : i \in DOMAIN shown}
              \/ \E j \in 1..k - 1 : <<members[k], members[j]>> \in b.within
              \/ Spent(b, shown) + EstimateTokens(b.length[members[k]]) > EvidenceBudget
  <2>1. CASE \E j \in 1..(k - 1) : <<members[k], members[j]>> \in b.within
    BY <2>1
  <2>2. CASE \E i \in DOMAIN kept : kept[i] = members[k]
    <3>1. PICK i \in DOMAIN kept : kept[i] = members[k]
      BY <2>2
    <3>2. \/ \E h \in DOMAIN shown : shown[h] = kept[i]
          \/ Spent(b, shown) + EstimateTokens(b.length[kept[i]]) > EvidenceBudget
      BY <1>4 DEF FilledUp
    <3>. QED
      BY <3>1, <3>2
  <2>. QED
    BY <1>3, <2>1, <2>2 DEF Irredundant
<1>. QED
  BY <1>5, <1>6, <1>11, <1>12, <1>13, <1>14, <1>15 DEF Optimal, members

\* The characters of a context are about four a token of what it spends.
LEMMA TotalIsBounded ==
  ASSUME NEW b \in Bundle
  PROVE  \A s \in Seq(Units) :
           /\ Total(b.length, s) \in Nat /\ Spent(b, s) \in Nat
           /\ Total(b.length, s)
                <= CharsPerToken * Spent(b, s) + (CharsPerToken - 1) * Len(s)
<1>. DEFINE P(s) == /\ Total(b.length, s) \in Nat /\ Spent(b, s) \in Nat
                    /\ Total(b.length, s) <= 4 * Spent(b, s) + 3 * Len(s)
            S == {s \in Seq(Units) : P(s)}
<1>0. b.length \in [Units -> Nat]
  BY DEF Bundle
<1>1. <<>> \in S
  BY <1>0, TotalFacts, SpentFacts
<1>2. ASSUME NEW s \in Seq(Units), NEW u \in Units, s \in S
      PROVE  Append(s, u) \in S
  <2>1. /\ Total(b.length, s) \in Nat
        /\ Total(b.length, Append(s, u)) = Total(b.length, s) + b.length[u]
    BY <1>0, TotalFacts
  <2>2. /\ Spent(b, s) \in Nat
        /\ Spent(b, Append(s, u)) = Spent(b, s) + EstimateTokens(b.length[u])
    BY SpentFacts
  <2>3. /\ b.length[u] \in Nat /\ EstimateTokens(b.length[u]) \in Nat
        /\ b.length[u] <= 4 * EstimateTokens(b.length[u]) + 3
    BY <1>0, EstimatesAreNatural DEF CharsPerToken
  <2>4. Len(Append(s, u)) = Len(s) + 1 /\ Append(s, u) \in Seq(Units) /\ Len(s) \in Nat
    OBVIOUS
  <2>5. Total(b.length, s) <= 4 * Spent(b, s) + 3 * Len(s)
    BY <1>2
  <2>6. Total(b.length, Append(s, u)) \in Nat /\ Spent(b, Append(s, u)) \in Nat
    BY <2>1, <2>2, <2>3
  <2>7. 4 * Spent(b, Append(s, u)) + 3 * Len(Append(s, u))
          = (4 * Spent(b, s) + 3 * Len(s)) + (4 * EstimateTokens(b.length[u]) + 3)
    BY <2>2, <2>3, <2>4
  <2>8. Total(b.length, Append(s, u))
          <= (4 * Spent(b, s) + 3 * Len(s)) + (4 * EstimateTokens(b.length[u]) + 3)
    <3>1. 4 * Spent(b, s) + 3 * Len(s) \in Int /\ 4 * EstimateTokens(b.length[u]) + 3 \in Int
      BY <2>2, <2>3, <2>4
    <3>. QED
      BY <2>1, <2>3, <2>5, <3>1
  <2>9. P(Append(s, u))
    BY <2>6, <2>7, <2>8
  <2>. QED
    BY <2>4, <2>9
<1>3. Seq(Units) \subseteq S
  <2>. HIDE DEF S
  <2>. QED
    BY <1>1, <1>2, SequenceInduction
<1>. QED
  BY <1>3 DEF CharsPerToken

\* A context within the budget, with an overhead within the reserve, makes a
\* prompt within the prompt's budget.
LEMMA FittedPromptFits ==
  ASSUME NEW b \in Bundle, NEW s \in Seq(Units), NEW overhead \in Nat,
         Spent(b, s) <= EvidenceBudget, EvidenceBudget + Reserved <= PromptBudget,
         overhead <= CharsPerToken * Reserved - (CharsPerToken - 1) * Len(s)
  PROVE  ~(EstimatePromptTokens(b.length, s, overhead) > PromptBudget)
<1>. DEFINE n == overhead + Total(b.length, s)
<1>1. /\ Total(b.length, s) \in Nat /\ Spent(b, s) \in Nat /\ Len(s) \in Nat
      /\ Total(b.length, s) <= 4 * Spent(b, s) + 3 * Len(s)
  BY TotalIsBounded DEF CharsPerToken
<1>2. /\ EvidenceBudget \in Nat /\ PromptBudget \in Int /\ Reserved \in Nat \ {0}
  BY TokensAreNatural DEF EvidenceBudget, PromptBudget, Monus
<1>3. n \in Nat /\ n <= 4 * PromptBudget /\ 1 <= PromptBudget
  BY <1>1, <1>2 DEF CharsPerToken
<1>. HIDE DEF n
<1>4. EstimateTokens(n) <= PromptBudget
  BY <1>2, <1>3 DEF EstimateTokens, CharsPerToken
<1>5. EstimateTokens(n) \in Nat
  BY <1>3, EstimatesAreNatural
<1>. QED
  BY <1>2, <1>4, <1>5 DEF EstimatePromptTokens, n

-----------------------------------------------------------------------------

\* Some type applies to every question, the last one at least.
LEMMA EveryQuestionHasAType ==
  ASSUME NEW b, NEW q
  PROVE  Classify(b, q) \in QuestionTypes
<1>. DEFINE tried == << <<"comparative", "comparative" \in q.markers>>,
                        <<"procedural", "procedural" \in q.markers>>,
                        <<"citation_centric", "citation" \in q.markers>>,
                        <<"figure_centric", "figure" \in q.markers \/ TopModality(b) = "figure">>,
                        <<"table_centric", "table" \in q.markers \/ TopModality(b) = "table">>,
                        <<"multi_hop", IsMultiHop(b)>>,
                        <<"descriptive", "descriptive" \in q.markers>>,
                        <<"factual", TRUE>> >>
            I == {i \in 1..Len(tried) : tried[i][2]}
<1>1. Len(tried) = 8 /\ tried[8][2] = TRUE
  OBVIOUS
<1>2. \A i \in 1..8 : tried[i][1] \in QuestionTypes
  BY DEF QuestionTypes
<1>3. Classify(b, q) = tried[IF I # {} THEN Min(I) ELSE 0][1]
  BY DEF Classify, SelectInSeq
<1>. HIDE DEF tried
<1>4. I \in SUBSET (1..8) /\ 8 \in I
  BY <1>1
<1>. HIDE DEF I
<1>5. Min(I) \in I
  BY <1>4, MinOfIndexes
<1>. QED
  BY <1>2, <1>3, <1>4, <1>5

\* Every variable keeps its type.
THEOREM GenerationIsTyped == Spec => []TypeOK
<1>1. Init => TypeOK
  BY DEF Init, TypeOK
<1>2. TypeOK /\ [Next]_vars => TypeOK'
  <2>. SUFFICES ASSUME TypeOK, [Next]_vars
                PROVE  TypeOK'
    OBVIOUS
  <2>. USE DEF TypeOK, Go, Fail
  <2>1. CASE Plan
    <3>1. Classify(bundle, question) \in QuestionTypes
      BY EveryQuestionHasAType
    <3>. QED
      BY <2>1, <3>1 DEF Plan, Failures
  <2>2. CASE OptimizeContext
    <3>1. Optimize(bundle) \in Seq(Units)
      BY OptimizeIsOptimal DEF Optimal
    <3>. QED
      BY <2>2, <3>1 DEF OptimizeContext, Failures
  <2>3. CASE AnalyzeFigures
    <3>1. DOMAIN visual' \subseteq FiguresShown
      BY <2>3 DEF AnalyzeFigures
    <3>2. FiguresShown \subseteq {u \in Units : bundle.modality[u] = "figure"}
      BY DEF FiguresShown
    <3>. QED
      BY <2>3, <3>1, <3>2 DEF AnalyzeFigures, Failures
  <2>4. CASE ValidatePrompt
    BY <2>4 DEF ValidatePrompt, Failures
  <2>5. CASE Ask
    BY <2>5 DEF Ask, Failures
  <2>6. CASE Judge
    BY <2>6 DEF Judge, Failures
  <2>7. CASE Format
    <3>1. AnswerStatus(bundle, type, context, answer)
            \in {"sufficient_evidence", "partially_sufficient_evidence", "unverified_answer",
                 "insufficient_evidence"}
      BY DEF AnswerStatus
    <3>2. SupportingEvidence \in SUBSET Units
      BY DEF SupportingEvidence, Resolved
    <3>3. {context[k] : k \in Resolved(answer, context)} \in SUBSET Units
      BY DEF Resolved
    <3>4. Limitations(bundle, type, context, answer)
            \in SUBSET {"groups", "figure", "table", "unverified"}
      BY DEF Limitations, RequiredModalities
    <3>5. Len(context) \in Nat
      OBVIOUS
    <3>6. response' \in Responses
      BY <2>7, <3>1, <3>2, <3>3, <3>4, <3>5 DEF Format, Responses
    <3>. QED
      BY <2>7, <3>6 DEF Format
  <2>8. CASE CheckAndSave
    BY <2>8 DEF CheckAndSave, Failures
  <2>9. CASE UNCHANGED vars
    BY <2>9 DEF vars
  <2>. QED
    BY <2>1, <2>2, <2>3, <2>4, <2>5, <2>6, <2>7, <2>8, <2>9 DEF Next
<1>. QED
  BY <1>1, <1>2, PTL DEF Spec

-----------------------------------------------------------------------------

\* The response as Format assembles it from what the other phases left.
ResponseIsAssembled ==
  /\ response.status      = AnswerStatus(bundle, type, context, answer)
  /\ response.cited       = {context[k] : k \in Resolved(answer, context)}
  /\ response.limitations = Limitations(bundle, type, context, answer)
  /\ response.evidence    = SupportingEvidence
  /\ response.sections    = Len(context)

\* What each phase can rely on: OptimizeContext leaves an optimal context,
\* ValidatePrompt refuses an empty one and a prompt that is too long, Judge an
\* answer without claims, and nothing is changed once it was used.
PhasesRelyOn ==
  /\ bundle \in Bundles
  /\ at # "plan" => type \in QuestionTypes
  /\ Fitted => Optimal(bundle, context)
  /\ at \in {"ask", "judge", "format", "check", "done"} => context # <<>>
  /\ at \in {"format", "check", "done"} => answer.claims # {}
  /\ at \in {"check", "done"} => ResponseIsAssembled
  /\ at # "failed" => failure = None
  /\ failure = "token_budget" => at = "failed" /\ PromptTokens(ShownLength) > PromptBudget
  /\ failure \notin {"duplicate_evidence", "statistics", "citation_consistency"}

\* The last check finds what Format left.
LEMMA AssembledPassesTheCheck ==
  ASSUME ResponseIsAssembled
  PROVE  /\ response.sections = Len(context)
         /\ response.cited # {} => response.evidence \subseteq response.cited
BY DEF ResponseIsAssembled, SupportingEvidence

\* Every phase leaves what the next ones rely on.
LEMMA PhasesKeepTheirPromises ==
  ASSUME PhasesRelyOn, [Next]_vars
  PROVE  PhasesRelyOn'
<1>. USE DEF PhasesRelyOn, Go, Fail, Fitted
<1>0. /\ None # "token_budget" /\ None # "duplicate_evidence" /\ None # "statistics"
      /\ None # "citation_consistency"
  BY NoneIsNothing DEF Failures
<1>1. CASE Plan
  <2>1. Classify(bundle, question) \in QuestionTypes
    BY EveryQuestionHasAType
  <2>. QED
    BY <1>0, <1>1, <2>1 DEF Plan
<1>2. CASE OptimizeContext
  <2>1. Optimal(bundle, Optimize(bundle))
    BY OptimizeIsOptimal
  <2>2. Optimal(bundle, context)'
    BY <1>2, <2>1 DEF OptimizeContext
  <2>. QED
    BY <1>0, <1>2, <2>2 DEF OptimizeContext
<1>3. CASE AnalyzeFigures
  BY <1>0, <1>3 DEF AnalyzeFigures
<1>4. CASE ValidatePrompt
  <2>1. Optimal(bundle, context) /\ UNCHANGED <<bundle, question, type, context, visual, answer, response>>
    BY <1>4 DEF ValidatePrompt
  <2>2. IsInjective(context)
    BY <2>1 DEF Optimal
  <2>3. (PromptTokens(ShownLength) > PromptBudget)' <=> PromptTokens(ShownLength) > PromptBudget
    BY <2>1 DEF PromptTokens, ShownLength
  <2>. QED
    BY <1>0, <1>4, <2>1, <2>2, <2>3 DEF ValidatePrompt
<1>5. CASE Ask
  BY <1>0, <1>5 DEF Ask
<1>6. CASE Judge
  BY <1>0, <1>6 DEF Judge
<1>7. CASE Format
  <2>1. /\ UNCHANGED <<bundle, type, context, answer>> /\ at = "format" /\ at' = "check"
        /\ response'.status = AnswerStatus(bundle, type, context, answer)
        /\ response'.cited = {context[k] : k \in Resolved(answer, context)}
        /\ response'.limitations = Limitations(bundle, type, context, answer)
        /\ response'.evidence = SupportingEvidence
        /\ response'.sections = Len(context)
    BY <1>7 DEF Format
  <2>2. ResponseIsAssembled'
    BY <2>1 DEF ResponseIsAssembled, SupportingEvidence
  <2>. QED
    BY <1>0, <1>7, <2>1, <2>2 DEF Format
<1>8. CASE CheckAndSave
  <2>1. /\ UNCHANGED <<bundle, question, type, context, visual, answer, response>> /\ at = "check"
        /\ ResponseIsAssembled
    BY <1>8 DEF CheckAndSave
  <2>2. ResponseIsAssembled'
    <3>. HIDE DEF PhasesRelyOn, Go, Fail, Fitted
    <3>. QED
      BY <2>1 DEF ResponseIsAssembled, SupportingEvidence
  <2>3. /\ at' \in {"done", "failed"} /\ failure' \in {failure, "storage"}
        /\ at' = "done" => failure' = failure
    BY <1>8, <2>1, AssembledPassesTheCheck DEF CheckAndSave
  <2>. QED
    BY <1>0, <2>1, <2>2, <2>3
<1>9. CASE UNCHANGED vars
  <2>1. UNCHANGED <<at, bundle, question, type, context, visual, answer, response, failure>>
    BY <1>9 DEF vars
  <2>2. ResponseIsAssembled' <=> ResponseIsAssembled
    BY <2>1 DEF ResponseIsAssembled, SupportingEvidence
  <2>3. (PromptTokens(ShownLength) > PromptBudget)' <=> PromptTokens(ShownLength) > PromptBudget
    BY <2>1 DEF PromptTokens, ShownLength
  <2>. QED
    BY <2>1, <2>2, <2>3
<1>. QED
  BY <1>1, <1>2, <1>3, <1>4, <1>5, <1>6, <1>7, <1>8, <1>9 DEF Next

\* Every phase can rely on it.
LEMMA PromisesAreKept == Spec => []PhasesRelyOn
<1>1. Init => PhasesRelyOn
  BY NoneIsNothing DEF Init, PhasesRelyOn, Fitted, Failures
<1>. QED
  BY <1>1, PhasesKeepTheirPromises, PTL DEF Spec

-----------------------------------------------------------------------------

\* What is shown to the model is evidence in rank order, none of it redundant,
\* within the budget, and nothing that could be added is left out.
THEOREM ContextsAreMaximal == Spec => []ContextIsMaximal
<1>1. PhasesRelyOn => ContextIsMaximal
  BY DEF PhasesRelyOn, Optimal, ContextIsMaximal, Shown
<1>. QED
  BY <1>1, PromisesAreKept, PTL

\* A context fitted by the optimizer's estimate passes the validator's, as long
\* as the rules and the question keep to the reserve and no figure was described.
THEOREM PromptsOfFittedContextsAreSent == Spec => []FittedPromptsAreSent
<1>1. PhasesRelyOn /\ TypeOK => FittedPromptsAreSent
  <2>. SUFFICES ASSUME PhasesRelyOn, TypeOK, at = "failed", failure = "token_budget"
                PROVE  FittedPromptsAreSent
    BY DEF FittedPromptsAreSent
  <2>. DEFINE overhead == RuleLength[type] + question.length
              limit    == CharsPerToken * Reserved - (CharsPerToken - 1) * Len(context)
  <2>1. /\ bundle \in Bundle /\ context \in Seq(Units) /\ type \in QuestionTypes
        /\ Spent(bundle, context) <= EvidenceBudget
        /\ PromptTokens(ShownLength) > PromptBudget
    BY BundlesAreRetrieved DEF PhasesRelyOn, Fitted, Optimal
  <2>2. /\ overhead \in Nat /\ Len(context) \in Nat
        /\ EvidenceBudget \in Nat /\ PromptBudget \in Int /\ Reserved \in Nat
    BY <2>1, SettingsAreMeaningful, TokensAreNatural
    DEF TypeOK, EvidenceBudget, PromptBudget, Monus
  <2>3. ASSUME DOMAIN visual = {}, EvidenceBudget + Reserved <= PromptBudget,
               overhead <= limit
        PROVE  FALSE
    <3>1. ShownLength = bundle.length
      BY <2>1, <2>3 DEF ShownLength, Bundle
    <3>. HIDE DEF overhead
    <3>2. ~(EstimatePromptTokens(bundle.length, context, overhead) > PromptBudget)
      BY <2>1, <2>2, <2>3, FittedPromptFits
    <3>. QED
      BY <2>1, <3>1, <3>2 DEF PromptTokens, overhead
  <2>4. limit \in Int
    BY <2>2 DEF CharsPerToken
  <2>5. DOMAIN visual # {} \/ overhead > limit \/ EvidenceBudget + Reserved > PromptBudget
    <3>. HIDE DEF overhead, limit
    <3>1. overhead > limit \/ overhead <= limit
      BY <2>2, <2>4
    <3>2. EvidenceBudget + Reserved > PromptBudget \/ EvidenceBudget + Reserved <= PromptBudget
      BY <2>2
    <3>. QED
      BY <2>3, <3>1, <3>2
  <2>. QED
    BY <2>5 DEF FittedPromptsAreSent
<1>. QED
  BY <1>1, GenerationIsTyped, PromisesAreKept, PTL

\* No check of the prompt or of the response finds what an earlier phase had to
\* prevent.
THEOREM FinalChecksPass == Spec => []ConsistencyChecksPass
<1>1. PhasesRelyOn => ConsistencyChecksPass
  BY DEF PhasesRelyOn, ConsistencyChecksPass
<1>. QED
  BY <1>1, PromisesAreKept, PTL

\* The assessor's rule for "sufficient" and the formatter's rules for what to
\* state as a limitation are complements of each other.
THEOREM StatusAndLimitationsAgree == Spec => []LimitationsAreStated
<1>1. PhasesRelyOn => LimitationsAreStated
  <2>. SUFFICES ASSUME PhasesRelyOn, at = "done"
                PROVE  response.limitations = {} <=> response.status = "sufficient_evidence"
    BY DEF LimitationsAreStated
  <2>. DEFINE grounded == Grounded(answer, context) = answer.claims
              enough   == Len(bundle.groups) >= RequiredGroups(type)
              covered  == RequiredModalities(type) \subseteq ModalitiesIn(bundle, context)
  <2>1. /\ context # <<>>
        /\ response.status = AnswerStatus(bundle, type, context, answer)
        /\ response.limitations = Limitations(bundle, type, context, answer)
    BY DEF PhasesRelyOn, ResponseIsAssembled
  <2>2. response.status = "sufficient_evidence" <=> grounded /\ enough /\ covered
    BY <2>1 DEF AnswerStatus, Complete
  <2>3. Len(bundle.groups) \in Nat /\ RequiredGroups(type) \in Nat
    <3>1. bundle \in Bundle
      BY BundlesAreRetrieved DEF PhasesRelyOn
    <3>. QED
      BY <3>1 DEF Bundle, RequiredGroups
  <2>4. response.limitations = {} <=> grounded /\ enough /\ covered
    <3>1. enough <=> ~(Len(bundle.groups) < RequiredGroups(type))
      BY <2>3
    <3>. QED
      BY <2>1, <3>1 DEF Limitations
  <2>. QED
    BY <2>2, <2>4
<1>. QED
  BY <1>1, PromisesAreKept, PTL

\* An answer that counts as sufficient, or in part, cites evidence, and only
\* evidence that was shown; in a sufficient one every claim does.
CitationsBackTheStatus ==
  at = "done" =>
    /\ response.status \in {"sufficient_evidence", "partially_sufficient_evidence"} =>
         response.cited # {} /\ response.cited \subseteq Shown
    /\ response.status = "sufficient_evidence" =>
         \A c \in answer.claims : c.labels # {} /\ c.labels \subseteq DOMAIN context

\* No answer is called sufficient, not even in part, on the word of the model.
THEOREM StatusIsBackedByCitations == Spec => []CitationsBackTheStatus
<1>1. PhasesRelyOn => CitationsBackTheStatus
  <2>. SUFFICES ASSUME PhasesRelyOn, at = "done"
                PROVE  CitationsBackTheStatus
    BY DEF CitationsBackTheStatus
  <2>1. /\ context # <<>> /\ answer.claims # {}
        /\ response.status = AnswerStatus(bundle, type, context, answer)
        /\ response.cited = {context[k] : k \in Resolved(answer, context)}
    BY DEF PhasesRelyOn, ResponseIsAssembled
  <2>2. \A c \in Grounded(answer, context) :
          c \in answer.claims /\ c.labels # {} /\ c.labels \subseteq DOMAIN context
    BY DEF Grounded, Verdict
  <2>3. response.status = "sufficient_evidence" => Grounded(answer, context) = answer.claims
    BY <2>1 DEF AnswerStatus
  <2>4. response.status \in {"sufficient_evidence", "partially_sufficient_evidence"} =>
          Grounded(answer, context) # {}
    BY <2>1 DEF AnswerStatus
  <2>5. response.cited \subseteq Shown
    BY <2>1 DEF Resolved, Shown
  <2>6. ASSUME NEW c \in Grounded(answer, context)
        PROVE  response.cited # {}
    <3>1. PICK k \in c.labels : k \in DOMAIN context
      BY <2>2
    <3>2. k \in Resolved(answer, context)
      BY <2>2, <3>1 DEF Resolved, LabelsUsed
    <3>. QED
      BY <2>1, <3>2
  <2>. QED
    BY <2>2, <2>3, <2>4, <2>5, <2>6 DEF CitationsBackTheStatus
<1>. QED
  BY <1>1, PromisesAreKept, PTL

\* What is shown with an answer was shown to the model, there is always some,
\* and an answer that counts as sufficient cites it.
THEOREM EvidenceBacksEveryStatus == Spec => []EvidenceBacksTheStatus
<1>1. PhasesRelyOn /\ CitationsBackTheStatus => EvidenceBacksTheStatus
  <2>. SUFFICES ASSUME PhasesRelyOn, CitationsBackTheStatus, at = "done"
                PROVE  response.evidence # {} /\ response.evidence \subseteq Shown
    BY DEF CitationsBackTheStatus, EvidenceBacksTheStatus
  <2>1. context # <<>> /\ context \in Seq(Units) /\ response.evidence = SupportingEvidence
    BY DEF PhasesRelyOn, ResponseIsAssembled, Fitted, Optimal
  <2>2. Shown # {}
    <3>1. 1 \in DOMAIN context
      BY <2>1
    <3>. QED
      BY <3>1 DEF Shown
  <2>. QED
    BY <2>1, <2>2 DEF SupportingEvidence, Resolved, Shown
<1>. QED
  BY <1>1, PromisesAreKept, StatusIsBackedByCitations, PTL

================================================================================
