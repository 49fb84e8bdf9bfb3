----------------------------- MODULE SequenceFolds -----------------------------
(***************************************************************************)
(* Induction over numbers and sequences, and what FoldLeft computes.  The  *)
(* predicate of an induction is given as a set, the operator of a fold as  *)
(* a function, so that the facts can be cited for any of them.             *)
(***************************************************************************)
EXTENDS SequencesExt, TLAPS, WellFoundedInduction, SequenceTheorems, FiniteSetTheorems

\* A set with 0 that is closed under successor holds every number.
THEOREM NumberInduction ==
  ASSUME NEW S, 0 \in S, \A n \in Nat : n \in S => n + 1 \in S
  PROVE  Nat \subseteq S
<1>. DEFINE T == Nat \ S
            R == OpToRel(<, Nat)
<1>. SUFFICES ASSUME T # {}
              PROVE  FALSE
  OBVIOUS
<1>1. IsWellFoundedOn(R, Nat)
  BY NatLessThanWellFounded
<1>2. \A m, n \in Nat : m < n => <<m, n>> \in R
  BY DEF OpToRel
<1>3. PICK n \in T : \A m \in T : <<m, n>> \notin R
  <2>1. T \subseteq Nat
    OBVIOUS
  <2>. HIDE DEF R, T
  <2>. QED
    BY <1>1, <2>1, WFMin
<1>. HIDE DEF R
<1>4. n - 1 \in T /\ n - 1 < n
  OBVIOUS
<1>. QED
  BY <1>2, <1>3, <1>4

\* A set with the empty sequence that is closed under Append holds every sequence.
THEOREM SequenceInduction ==
  ASSUME NEW E, NEW S, <<>> \in S,
         \A s \in Seq(E), e \in E : s \in S => Append(s, e) \in S
  PROVE  Seq(E) \subseteq S
<1>. DEFINE T == {n \in Nat : \A s \in Seq(E) : Len(s) = n => s \in S}
<1>1. 0 \in T
  OBVIOUS
<1>2. ASSUME NEW n \in Nat, n \in T
      PROVE  n + 1 \in T
  <2>1. ASSUME NEW s \in Seq(E), Len(s) = n + 1
        PROVE  s \in S
    <3>. DEFINE f == [k \in 1..n |-> s[k]]
    <3>1. f \in Seq(E) /\ Len(f) = n
      BY <2>1
    <3>2. s[n + 1] \in E
      BY <2>1
    <3>3. Append(f, s[n + 1]) = s
      BY <2>1, <3>1, <3>2
    <3>. QED
      BY <1>2, <3>1, <3>2, <3>3
  <2>. QED
    BY <2>1
<1>3. Nat \subseteq T
  <2>. HIDE DEF T
  <2>. QED
    BY <1>1, <1>2, NumberInduction
<1>. QED
  BY <1>3

-----------------------------------------------------------------------------

\* A non-empty set of indexes has a largest.
LEMMA MaxOfIndexes ==
  ASSUME NEW n \in Nat, NEW t \in SUBSET (1..n), t # {}
  PROVE  Max(t) \in t /\ \A k \in t : k <= Max(t)
<1>. DEFINE S == {m \in Nat : \A u \in SUBSET (1..m) : u # {} => \E x \in u : \A y \in u : x >= y}
<1>1. 0 \in S
  <2>1. \A u \in SUBSET (1..0) : u = {}
    OBVIOUS
  <2>. QED
    BY <2>1
<1>2. ASSUME NEW m \in Nat, m \in S
      PROVE  m + 1 \in S
  <2>1. ASSUME NEW u \in SUBSET (1..(m + 1)), u # {}
        PROVE  \E x \in u : \A y \in u : x >= y
    <3>1. CASE m + 1 \in u
      BY <3>1
    <3>2. CASE m + 1 \notin u
      <4>1. u \in SUBSET (1..m)
        BY <3>2
      <4>. QED
        BY <1>2, <2>1, <4>1
    <3>. QED
      BY <3>1, <3>2
  <2>. QED
    BY <2>1
<1>3. Nat \subseteq S
  <2>. HIDE DEF S
  <2>. QED
    BY <1>1, <1>2, NumberInduction
<1>4. \E x \in t : \A y \in t : x >= y
  BY <1>3
<1>5. Max(t) \in t /\ \A k \in t : Max(t) >= k
  BY <1>4 DEF Max
<1>. QED
  BY <1>5

\* And a smallest.
LEMMA MinOfIndexes ==
  ASSUME NEW n \in Nat, NEW t \in SUBSET (1..n), t # {}
  PROVE  Min(t) \in t /\ \A k \in t : Min(t) <= k
<1>. DEFINE m == {(n + 1) - k : k \in t}
<1>1. m \in SUBSET (1..n) /\ m # {}
  <2>1. \A k \in t : (n + 1) - k \in 1..n
    OBVIOUS
  <2>2. PICK k \in t : TRUE
    OBVIOUS
  <2>3. (n + 1) - k \in m
    OBVIOUS
  <2>. QED
    BY <2>1, <2>3
<1>2. PICK x \in m : \A y \in m : y <= x
  <2>. HIDE DEF m
  <2>1. Max(m) \in m /\ \A y \in m : y <= Max(m)
    BY <1>1, MaxOfIndexes
  <2>. QED
    BY <2>1
<1>3. (n + 1) - x \in t /\ \A k \in t : (n + 1) - x <= k
  <2>1. PICK k \in t : x = (n + 1) - k
    OBVIOUS
  <2>2. ASSUME NEW j \in t
        PROVE  (n + 1) - x <= j
    <3>1. (n + 1) - j <= x
      BY <1>2
    <3>. QED
      BY <2>1, <3>1
  <2>. QED
    BY <2>1, <2>2
<1>. QED
  BY <1>3 DEF Min

\* The functions a fold can take as its step.
StepOf(X, E) == [X \X E -> X]

\* g computes the fold of every selection of elements of s.
ComputesFold(g, step, base, s) ==
  g = [t \in SUBSET DOMAIN s |->
         IF t = {} THEN base ELSE step[<<g[t \ {Max(t)}], s[Max(t)]>>]]

\* There is such a function.
LEMMA FoldExists ==
  ASSUME NEW E, NEW X, NEW s \in Seq(E), NEW base \in X, NEW step \in StepOf(X, E)
  PROVE  \E g \in [SUBSET DOMAIN s -> X] : ComputesFold(g, step, base, s)
<1>. DEFINE Upto(g, m) ==
              g = [t \in SUBSET (1..m) |->
                     IF t = {} THEN base ELSE step[<<g[t \ {Max(t)}], s[Max(t)]>>]]
            Found(m) == m <= Len(s) => \E g \in [SUBSET (1..m) -> X] : Upto(g, m)
            S == {m \in Nat : Found(m)}
<1>1. Found(0)
  <2>. DEFINE f == [t \in SUBSET (1..0) |-> base]
  <2>1. \A t \in SUBSET (1..0) : t = {}
    OBVIOUS
  <2>2. f \in [SUBSET (1..0) -> X]
    OBVIOUS
  <2>3. Upto(f, 0)
    BY <2>1
  <2>. HIDE DEF f, Upto
  <2>. QED
    BY <2>2, <2>3
<1>2. ASSUME NEW m \in Nat, Found(m), m + 1 <= Len(s)
      PROVE  \E g \in [SUBSET (1..(m + 1)) -> X] : Upto(g, m + 1)
  <2>0. Len(s) \in Nat /\ m <= Len(s) /\ m + 1 \in 1..Len(s)
    BY <1>2
  <2>1. PICK f \in [SUBSET (1..m) -> X] : Upto(f, m)
    <3>. HIDE DEF Upto
    <3>. QED
      BY <1>2, <2>0
  <2>2. s[m + 1] \in E
    BY <2>0
  <2>. DEFINE g == [t \in SUBSET (1..(m + 1)) |->
                      IF m + 1 \in t THEN step[<<f[t \ {m + 1}], s[m + 1]>>] ELSE f[t]]
  <2>3. \A t \in SUBSET (1..(m + 1)) : t \ {m + 1} \in SUBSET (1..m)
    OBVIOUS
  <2>4. g \in [SUBSET (1..(m + 1)) -> X]
    BY <2>2, <2>3 DEF StepOf
  <2>5. \A t \in SUBSET (1..m) : g[t] = f[t] /\ t \in SUBSET (1..(m + 1))
    OBVIOUS
  <2>6. ASSUME NEW t \in SUBSET (1..(m + 1))
        PROVE  g[t] = IF t = {} THEN base ELSE step[<<g[t \ {Max(t)}], s[Max(t)]>>]
    <3>1. CASE m + 1 \in t
      <4>a. m + 1 \in Nat /\ t # {}
        BY <3>1
      <4>b. Max(t) \in t /\ \A k \in t : k <= Max(t)
        BY <4>a, MaxOfIndexes
      <4>c. Max(t) \in 1..(m + 1) /\ m + 1 <= Max(t)
        BY <3>1, <4>b
      <4>1. Max(t) = m + 1
        <5>. HIDE DEF Max
        <5>. QED
          BY <4>c
      <4>2. g[t] = step[<<f[t \ {m + 1}], s[m + 1]>>]
        BY <3>1
      <4>3. g[t \ {m + 1}] = f[t \ {m + 1}]
        BY <2>3, <2>5
      <4>. QED
        BY <3>1, <4>1, <4>2, <4>3
    <3>2. CASE m + 1 \notin t
      <4>1. t \in SUBSET (1..m)
        BY <3>2
      <4>2. g[t] = IF t = {} THEN base ELSE step[<<f[t \ {Max(t)}], s[Max(t)]>>]
        BY <2>1, <2>5, <4>1
      <4>3. t \ {Max(t)} \in SUBSET (1..m)
        BY <4>1
      <4>. QED
        BY <2>5, <4>2, <4>3
    <3>. QED
      BY <3>1, <3>2
  <2>7. Upto(g, m + 1)
    <3>. HIDE DEF g
    <3>1. g = [t \in SUBSET (1..(m + 1)) |-> g[t]]
      BY <2>4
    <3>. QED
      BY <2>6, <3>1
  <2>. QED
    BY <2>4, <2>7
<1>3. Nat \subseteq S
  <2>1. \A m \in Nat : Found(m) => Found(m + 1)
    <3>. HIDE DEF Upto
    <3>. QED
      BY <1>2
  <2>. HIDE DEF Found
  <2>2. 0 \in S /\ \A m \in Nat : m \in S => m + 1 \in S
    BY <1>1, <2>1
  <2>. HIDE DEF S
  <2>. QED
    BY <2>2, NumberInduction
<1>4. DOMAIN s = 1..Len(s) /\ Len(s) \in Nat
  OBVIOUS
<1>5. \E g \in [SUBSET (1..Len(s)) -> X] : Upto(g, Len(s))
  <2>1. Found(Len(s))
    <3>. HIDE DEF Found
    <3>. QED
      BY <1>3, <1>4
  <2>2. Len(s) <= Len(s)
    BY <1>4
  <2>. HIDE DEF Upto
  <2>. QED
    BY <2>1, <2>2, Zenon
<1>. QED
  BY <1>4, <1>5 DEF ComputesFold

\* What the fold of s from base by the function step gives.
Folded(step, base, s) == (CHOOSE g : ComputesFold(g, step, base, s))[DOMAIN s]

\* The prefixes of s as sets of indexes.
LEMMA PrefixOfIndexes ==
  ASSUME NEW E, NEW s \in Seq(E), NEW m \in 1..Len(s)
  PROVE  /\ 1..m \in SUBSET DOMAIN s /\ 1..m # {}
         /\ Max(1..m) = m /\ (1..m) \ {m} = 1..(m - 1) /\ s[m] \in E
<1>0. m \in Nat /\ m \in 1..m
  OBVIOUS
<1>1. 1..m \in SUBSET DOMAIN s /\ 1..m # {}
  <2>1. DOMAIN s = 1..Len(s) /\ Len(s) \in Nat
    OBVIOUS
  <2>2. 1..m \subseteq 1..Len(s)
    BY <1>0, <2>1
  <2>. QED
    BY <1>0, <2>1, <2>2
<1>2. Max(1..m) \in 1..m /\ m <= Max(1..m)
  BY <1>0, <1>1, MaxOfIndexes
<1>3. Max(1..m) = m
  <2>. HIDE DEF Max
  <2>. QED
    BY <1>0, <1>2
<1>4. (1..m) \ {m} = 1..(m - 1)
  BY <1>0
<1>. QED
  BY <1>1, <1>3, <1>4

\* The last of some elements of s is an element of s.
LEMMA MaxIsAnIndex ==
  ASSUME NEW E, NEW s \in Seq(E), NEW t \in SUBSET DOMAIN s, t # {}
  PROVE  s[Max(t)] \in E
<1>1. Len(s) \in Nat /\ DOMAIN s = 1..Len(s)
  OBVIOUS
<1>2. Max(t) \in t
  BY <1>1, MaxOfIndexes
<1>. HIDE DEF Max
<1>. QED
  BY <1>2

\* A function that computes the fold, on a prefix of s.
LEMMA FoldOfPrefix ==
  ASSUME NEW E, NEW s \in Seq(E), NEW base, NEW step, NEW g,
         ComputesFold(g, step, base, s), NEW m \in 1..Len(s)
  PROVE  g[1..m] = step[<<g[1..(m - 1)], s[m]>>]
<1>1. /\ 1..m \in SUBSET DOMAIN s /\ 1..m # {}
      /\ Max(1..m) = m /\ (1..m) \ {m} = 1..(m - 1)
  BY PrefixOfIndexes
<1>2. \A t \in SUBSET DOMAIN s :
        g[t] = IF t = {} THEN base ELSE step[<<g[t \ {Max(t)}], s[Max(t)]>>]
  <2>. HIDE DEF Max
  <2>. QED
    BY DEF ComputesFold
<1>. QED
  BY <1>1, <1>2

\* On the prefixes of s, it takes the steps of the fold as long as it stays in X.
FollowsFold(it, X, step, base, s) ==
  /\ it[{}] = base
  /\ \A m \in 1..Len(s) :
       it[1..(m - 1)] \in X => it[1..m] = step[<<it[1..(m - 1)], s[m]>>]

\* The result of a fold is settled by its values on the prefixes of s.
LEMMA FoldIsUnique ==
  ASSUME NEW E, NEW X, NEW s \in Seq(E), NEW base \in X, NEW step \in StepOf(X, E),
         NEW it, FollowsFold(it, X, step, base, s)
  PROVE  it[DOMAIN s] = Folded(step, base, s) /\ it[DOMAIN s] \in X
<1>1. Len(s) \in Nat /\ DOMAIN s = 1..Len(s)
  OBVIOUS
<1>. DEFINE g == CHOOSE g : ComputesFold(g, step, base, s)
<1>2. ComputesFold(g, step, base, s)
  BY FoldExists
<1>. HIDE DEF g
<1>3. g[{}] = base
  BY <1>2 DEF ComputesFold
<1>4. \A m \in 1..Len(s) : g[1..m] = step[<<g[1..(m - 1)], s[m]>>]
  BY <1>2, FoldOfPrefix
<1>. DEFINE Same(m) == m <= Len(s) => it[1..m] = g[1..m] /\ it[1..m] \in X
            S == {m \in Nat : Same(m)}
<1>5. Same(0)
  <2>1. 1..0 = {}
    OBVIOUS
  <2>. QED
    BY <1>3, <2>1 DEF FollowsFold
<1>6. ASSUME NEW m \in Nat, Same(m)
      PROVE  Same(m + 1)
  <2>. SUFFICES ASSUME m + 1 <= Len(s)
                PROVE  it[1..(m + 1)] = g[1..(m + 1)] /\ it[1..(m + 1)] \in X
    OBVIOUS
  <2>1. m <= Len(s) /\ m + 1 \in 1..Len(s) /\ (m + 1) - 1 = m
    BY <1>1
  <2>2. it[1..m] = g[1..m] /\ it[1..m] \in X /\ s[m + 1] \in E
    BY <1>6, <2>1
  <2>3. it[1..(m + 1)] = step[<<it[1..m], s[m + 1]>>]
    BY <2>1, <2>2 DEF FollowsFold
  <2>4. g[1..(m + 1)] = step[<<g[1..m], s[m + 1]>>]
    BY <1>4, <2>1
  <2>. QED
    BY <2>2, <2>3, <2>4 DEF StepOf
<1>7. Same(Len(s))
  <2>. HIDE DEF Same
  <2>1. 0 \in S /\ \A m \in Nat : m \in S => m + 1 \in S
    BY <1>5, <1>6
  <2>2. Nat \subseteq S
    <3>. HIDE DEF S
    <3>. QED
      BY <2>1, NumberInduction
  <2>. QED
    BY <1>1, <2>2
<1>. QED
  BY <1>1, <1>7 DEF g, Folded

\* It stays in X.
LEMMA FoldedIsTyped ==
  ASSUME NEW E, NEW X, NEW s \in Seq(E), NEW base \in X, NEW step \in StepOf(X, E)
  PROVE  Folded(step, base, s) \in X
<1>. DEFINE g == CHOOSE g : ComputesFold(g, step, base, s)
<1>1. ComputesFold(g, step, base, s)
  BY FoldExists
<1>. HIDE DEF g
<1>2. g[{}] = base
  BY <1>1 DEF ComputesFold
<1>3. FollowsFold(g, X, step, base, s)
  BY <1>1, <1>2, FoldOfPrefix DEF FollowsFold
<1>4. g[DOMAIN s] \in X
  BY <1>3, FoldIsUnique
<1>. QED
  BY <1>4 DEF g, Folded

\* Of nothing, it is the base.
LEMMA FoldedEmpty ==
  ASSUME NEW X, NEW base \in X, NEW step
  PROVE  Folded(step, base, <<>>) = base
<1>. DEFINE g == CHOOSE g : ComputesFold(g, step, base, <<>>)
            h == [t \in {{}} |-> base]
<1>1. DOMAIN <<>> = {} /\ SUBSET {} = {{}}
  OBVIOUS
<1>2. ComputesFold(h, step, base, <<>>)
  BY <1>1 DEF ComputesFold
<1>3. ComputesFold(g, step, base, <<>>)
  BY <1>2
<1>. HIDE DEF g
<1>4. g[{}] = base
  BY <1>1, <1>3 DEF ComputesFold
<1>. QED
  BY <1>1, <1>4 DEF g, Folded

\* One more element is one more step.
LEMMA FoldedAppend ==
  ASSUME NEW E, NEW X, NEW s \in Seq(E), NEW e \in E, NEW base \in X,
         NEW step \in StepOf(X, E)
  PROVE  /\ Folded(step, base, s) \in X
         /\ Folded(step, base, Append(s, e)) = step[<<Folded(step, base, s), e>>]
<1>. DEFINE r == Append(s, e)
            g == CHOOSE g : ComputesFold(g, step, base, r)
<1>1. /\ r \in Seq(E) /\ Len(r) = Len(s) + 1 /\ r[Len(s) + 1] = e
      /\ Len(s) \in Nat /\ DOMAIN s = 1..Len(s) /\ DOMAIN r = 1..(Len(s) + 1)
      /\ \A m \in 1..Len(s) : r[m] = s[m]
  OBVIOUS
<1>. HIDE DEF r
<1>2. ComputesFold(g, step, base, r)
  BY <1>1, FoldExists
<1>. HIDE DEF g
<1>3. g[{}] = base
  BY <1>2 DEF ComputesFold
<1>4. \A m \in 1..Len(r) : g[1..m] = step[<<g[1..(m - 1)], r[m]>>]
  BY <1>1, <1>2, FoldOfPrefix
<1>5. FollowsFold(g, X, step, base, s)
  BY <1>1, <1>3, <1>4 DEF FollowsFold
<1>6. g[DOMAIN s] = Folded(step, base, s) /\ g[DOMAIN s] \in X
  BY <1>5, FoldIsUnique, Zenon
<1>7. g[DOMAIN r] = step[<<g[DOMAIN s], e>>]
  <2>1. Len(s) + 1 \in 1..Len(r) /\ (Len(s) + 1) - 1 = Len(s)
    BY <1>1
  <2>. QED
    BY <1>1, <1>4, <2>1
<1>8. Folded(step, base, r) = g[DOMAIN r]
  BY DEF g, Folded
<1>. QED
  BY <1>6, <1>7, <1>8 DEF r

\* The fold from its start, one element at a time.
GoesByElement(step, base, X, E) ==
  /\ Folded(step, base, <<>>) = base
  /\ \A s \in Seq(E), e \in E :
       /\ Folded(step, base, s) \in X
       /\ Folded(step, base, Append(s, e)) = step[<<Folded(step, base, s), e>>]

\* A fold does.
LEMMA FoldGoesByElement ==
  ASSUME NEW E, NEW X, NEW base \in X, NEW step \in StepOf(X, E)
  PROVE  GoesByElement(step, base, X, E)
<1>1. Folded(step, base, <<>>) = base
  BY FoldedEmpty
<1>2. ASSUME NEW s \in Seq(E), NEW e \in E
      PROVE  /\ Folded(step, base, s) \in X
             /\ Folded(step, base, Append(s, e)) = step[<<Folded(step, base, s), e>>]
  BY FoldedAppend, SMT
<1>. QED
  BY <1>1, <1>2 DEF GoesByElement

-----------------------------------------------------------------------------

\* Any number of steps from a base.
LEMMA IterationExists ==
  ASSUME NEW X, NEW base \in X, NEW step \in [X -> X]
  PROVE  \E g \in [Nat -> X] : g[0] = base /\ \A n \in Nat : g[n + 1] = step[g[n]]
<1>. DEFINE Upto(f, m) == /\ f \in [0..m -> X] /\ f[0] = base
                          /\ \A k \in 0..m : k + 1 \in 0..m => f[k + 1] = step[f[k]]
            S == {m \in Nat : \E f : Upto(f, m)}
            g == [n \in Nat |-> (CHOOSE f : Upto(f, n))[n]]
<1>1. Upto([k \in 0..0 |-> base], 0)
  OBVIOUS
<1>2. ASSUME NEW m \in Nat, NEW f, Upto(f, m)
      PROVE  \E h : Upto(h, m + 1)
  <2>. DEFINE h == [k \in 0..(m + 1) |-> IF k = m + 1 THEN step[f[m]] ELSE f[k]]
  <2>1. m \in 0..m /\ f[m] \in X /\ step[f[m]] \in X
    BY <1>2
  <2>2. h \in [0..(m + 1) -> X]
    BY <1>2, <2>1
  <2>3. h[0] = base
    BY <1>2
  <2>4. ASSUME NEW k \in 0..(m + 1), k + 1 \in 0..(m + 1)
        PROVE  h[k + 1] = step[h[k]]
    <3>1. CASE k = m
      BY <2>1, <3>1
    <3>2. CASE k # m
      <4>1. k \in 0..m /\ k + 1 \in 0..m
        BY <2>4, <3>2
      <4>. QED
        BY <1>2, <4>1
    <3>. QED
      BY <3>1, <3>2
  <2>5. Upto(h, m + 1)
    <3>. HIDE DEF h
    <3>. QED
      BY <2>2, <2>3, <2>4
  <2>. QED
    BY <2>5
<1>3. \A m \in Nat : \E f : Upto(f, m)
  <2>. HIDE DEF Upto
  <2>1. 0 \in S /\ \A m \in Nat : m \in S => m + 1 \in S
    BY <1>1, <1>2
  <2>2. Nat \subseteq S
    <3>. HIDE DEF S
    <3>. QED
      BY <2>1, NumberInduction
  <2>. QED
    BY <2>2
<1>. DEFINE F(n) == CHOOSE f : Upto(f, n)
<1>4. \A n \in Nat : Upto(F(n), n)
  BY <1>3
<1>. HIDE DEF F
<1>5. \A n \in Nat : F(n)[n] \in X
  BY <1>4
<1>6. ASSUME NEW n \in Nat
      PROVE  F(n + 1)[n] = F(n)[n]
  <2>. DEFINE A == {k \in Nat : k <= n => F(n + 1)[k] = F(n)[k]}
  <2>0. Upto(F(n), n) /\ Upto(F(n + 1), n + 1)
    BY <1>4
  <2>1. 0 \in A
    BY <2>0
  <2>2. ASSUME NEW k \in Nat, k \in A
        PROVE  k + 1 \in A
    <3>. SUFFICES ASSUME k + 1 <= n
                  PROVE  F(n + 1)[k + 1] = F(n)[k + 1]
      OBVIOUS
    <3>1. k \in 0..n /\ k + 1 \in 0..n /\ k \in 0..(n + 1) /\ k + 1 \in 0..(n + 1)
      OBVIOUS
    <3>2. F(n + 1)[k] = F(n)[k]
      BY <2>2, <3>1
    <3>. QED
      BY <2>0, <3>1, <3>2
  <2>3. Nat \subseteq A
    <3>. HIDE DEF A
    <3>. QED
      BY <2>1, <2>2, NumberInduction
  <2>. QED
    BY <2>3
<1>7. ASSUME NEW n \in Nat
      PROVE  F(n + 1)[n + 1] = step[F(n)[n]]
  <2>1. n \in 0..(n + 1) /\ n + 1 \in 0..(n + 1) /\ Upto(F(n + 1), n + 1)
    BY <1>4
  <2>. QED
    BY <1>6, <2>1
<1>8. F(0)[0] = base
  BY <1>4
<1>9. g = [n \in Nat |-> F(n)[n]]
  BY DEF F
<1>. HIDE DEF g, Upto
<1>. QED
  BY <1>5, <1>7, <1>8, <1>9

-----------------------------------------------------------------------------
(* Sorting: the n-th of a set is the one that n - 1 others come before.    *)

\* R is an order of S, smaller to greater.
Orders(R, S) ==
  /\ \A x \in S : <<x, x>> \notin R
  /\ \A x, y \in S : x # y => <<x, y>> \in R \/ <<y, x>> \in R
  /\ \A x, y, z \in S : <<x, y>> \in R /\ <<y, z>> \in R => <<x, z>> \in R

\* The elements of S that come before x.
Below(R, S, x) == {y \in S : <<y, x>> \in R}

\* Less elements are fewer.
LEMMA SmallerSet ==
  ASSUME NEW S, IsFiniteSet(S), NEW T, T \subseteq S, NEW x \in S, x \notin T
  PROVE  IsFiniteSet(T) /\ Cardinality(T) < Cardinality(S)
<1>1. T \in SUBSET S /\ T # S
  OBVIOUS
<1>2. IsFiniteSet(T) /\ Cardinality(T) <= Cardinality(S) /\ Cardinality(S) # Cardinality(T)
  BY <1>1, FS_Subset
<1>3. Cardinality(T) \in Nat /\ Cardinality(S) \in Nat
  BY <1>2, FS_CardinalityType
<1>. QED
  BY <1>2, <1>3

\* One element less is one fewer.
LEMMA OneFewer ==
  ASSUME NEW S, IsFiniteSet(S), NEW m \in Nat, Cardinality(S) = m + 1, NEW x \in S
  PROVE  IsFiniteSet(S \ {x}) /\ Cardinality(S \ {x}) = m
<1>1. IsFiniteSet(S \ {x}) /\ Cardinality(S \ {x}) = Cardinality(S) - 1
  BY FS_RemoveElement
<1>. QED
  BY <1>1

\* The elements below another are counted.
LEMMA BelowIsCounted ==
  ASSUME NEW S, IsFiniteSet(S), NEW R, Orders(R, S), NEW x \in S
  PROVE  /\ IsFiniteSet(Below(R, S, x)) /\ Cardinality(Below(R, S, x)) \in Nat
         /\ Cardinality(Below(R, S, x)) < Cardinality(S) /\ Cardinality(S) \in Nat
         /\ \A y \in S : <<y, x>> \in R => Cardinality(Below(R, S, y)) < Cardinality(Below(R, S, x))
<1>1. Below(R, S, x) \subseteq S /\ x \notin Below(R, S, x)
  BY DEF Below, Orders
<1>0. Cardinality(S) \in Nat
  BY FS_CardinalityType
<1>2. IsFiniteSet(Below(R, S, x)) /\ Cardinality(Below(R, S, x)) < Cardinality(S)
  BY <1>1, SmallerSet
<1>3. ASSUME NEW y \in S, <<y, x>> \in R
      PROVE  Cardinality(Below(R, S, y)) < Cardinality(Below(R, S, x))
  <2>1. Below(R, S, y) \subseteq Below(R, S, x)
    BY <1>3 DEF Below, Orders
  <2>2. y \in Below(R, S, x) /\ y \notin Below(R, S, y)
    BY <1>3 DEF Below, Orders
  <2>. QED
    BY <1>2, <2>1, <2>2, SmallerSet
<1>. QED
  BY <1>0, <1>2, <1>3, FS_CardinalityType

\* There is an n-th element.
LEMMA NthExists ==
  ASSUME NEW U, NEW R, Orders(R, U),
         NEW S \in SUBSET U, IsFiniteSet(S), NEW n \in 1..Cardinality(S)
  PROVE  \E x \in S : Cardinality(Below(R, S, x)) = n - 1
<1>. DEFINE Nth(T) == \A k \in 1..Cardinality(T) : \E x \in T : Cardinality(Below(R, T, x)) = k - 1
            A == {m \in Nat : \A T \in SUBSET U : IsFiniteSet(T) /\ Cardinality(T) = m => Nth(T)}
<1>1. 0 \in A
  <2>1. \A T : Cardinality(T) = 0 => Nth(T)
    OBVIOUS
  <2>. HIDE DEF Nth
  <2>. QED
    BY <2>1
<1>2. ASSUME NEW m \in Nat, m \in A
      PROVE  m + 1 \in A
  <2>1. ASSUME NEW T \in SUBSET U, IsFiniteSet(T), Cardinality(T) = m + 1
        PROVE  Nth(T)
    <3>0. Orders(R, T)
      BY DEF Orders
    \* There is a greatest.
    <3>1. \E z \in T : \A y \in T : y # z => <<y, z>> \in R
      <4>1. PICK a \in T : TRUE
        BY <2>1, FS_EmptySet
      <4>2. IsFiniteSet(T \ {a}) /\ Cardinality(T \ {a}) = m /\ T \ {a} \in SUBSET U
        BY <2>1, OneFewer
      <4>3. CASE m = 0
        <5>1. T \ {a} = {}
          BY <4>2, <4>3, FS_EmptySet
        <5>. QED
          BY <5>1
      <4>4. CASE m # 0
        <5>1. Nth(T \ {a})
          <6>. HIDE DEF Nth
          <6>. QED
            BY <1>2, <4>2
        <5>2. m \in 1..Cardinality(T \ {a})
          BY <4>2, <4>4
        <5>3. PICK x \in T \ {a} : Cardinality(Below(R, T \ {a}, x)) = m - 1
          BY <5>1, <5>2
        <5>4. IsFiniteSet((T \ {a}) \ {x}) /\ Cardinality((T \ {a}) \ {x}) = m - 1
          BY <4>2, <5>3, FS_RemoveElement
        <5>5. Below(R, T \ {a}, x) \subseteq (T \ {a}) \ {x}
          BY <3>0 DEF Below, Orders
        <5>6. Below(R, T \ {a}, x) = (T \ {a}) \ {x}
          BY <5>3, <5>4, <5>5, FS_Subset
        <5>7. \A y \in T : y # x /\ y # a => <<y, x>> \in R
          BY <5>6 DEF Below
        <5>8. <<a, x>> \in R \/ <<x, a>> \in R
          BY <3>0, <5>3 DEF Orders
        <5>9. CASE <<a, x>> \in R
          BY <5>7, <5>9
        <5>10. CASE <<x, a>> \in R
          <6>1. \A y \in T : y # a => <<y, a>> \in R
            BY <3>0, <5>3, <5>7, <5>10 DEF Orders
          <6>. QED
            BY <6>1
        <5>. QED
          BY <5>8, <5>9, <5>10
      <4>. QED
        BY <4>3, <4>4
    <3>2. PICK z \in T : \A y \in T : y # z => <<y, z>> \in R
      BY <3>1
    <3>3. IsFiniteSet(T \ {z}) /\ Cardinality(T \ {z}) = m /\ T \ {z} \in SUBSET U
      BY <2>1, OneFewer
    <3>4. ASSUME NEW k \in 1..Cardinality(T)
          PROVE  \E x \in T : Cardinality(Below(R, T, x)) = k - 1
      <4>1. CASE k = m + 1
        <5>1. Below(R, T, z) = T \ {z}
          BY <3>0, <3>2 DEF Below, Orders
        <5>2. k - 1 = m
          BY <4>1
        <5>. QED
          BY <3>3, <5>1, <5>2
      <4>2. CASE k # m + 1
        <5>1. k \in 1..Cardinality(T \ {z})
          BY <2>1, <3>3, <4>2
        <5>2. Nth(T \ {z})
          <6>. HIDE DEF Nth
          <6>. QED
            BY <1>2, <3>3
        <5>3. PICK x \in T \ {z} : Cardinality(Below(R, T \ {z}, x)) = k - 1
          BY <5>1, <5>2
        <5>4. <<z, x>> \notin R
          BY <3>0, <3>2, <5>3 DEF Orders
        <5>5. Below(R, T, x) = Below(R, T \ {z}, x)
          BY <5>4 DEF Below
        <5>. QED
          BY <5>3, <5>5
      <4>. QED
        BY <4>1, <4>2
    <3>. QED
      BY <3>4
  <2>. HIDE DEF Nth
  <2>. QED
    BY <2>1
<1>3. Nat \subseteq A
  <2>. HIDE DEF A
  <2>. QED
    BY <1>1, <1>2, NumberInduction
<1>4. Nth(S)
  <2>. HIDE DEF Nth
  <2>1. Cardinality(S) \in Nat
    BY FS_CardinalityType
  <2>. QED
    BY <1>3, <2>1
<1>. QED
  BY <1>4

\* f has the n-th of S, in the order R, at its n-th place.
Sorts(f, R, S) ==
  /\ f \in [1..Cardinality(S) -> S]
  /\ \A n \in 1..Cardinality(S) : Cardinality(Below(R, S, f[n])) = n - 1

\* f lists the elements of S once each, the smaller before the greater.
Lists(f, R, S) ==
  /\ f \in Seq(S) /\ f \in [1..Cardinality(S) -> S] /\ Len(f) = Cardinality(S)
  /\ Cardinality(S) \in Nat
  /\ \A j, k \in 1..Cardinality(S) : j < k => <<f[j], f[k]>> \in R
  /\ \A x \in S : \E n \in 1..Cardinality(S) : f[n] = x
  /\ \A j, k \in 1..Cardinality(S) : f[j] = f[k] => j = k

\* What sorts a set lists it in order.
LEMMA SortedIsInOrder ==
  ASSUME NEW S, IsFiniteSet(S), NEW R, Orders(R, S), NEW f, Sorts(f, R, S)
  PROVE  Lists(f, R, S)
<1>1. Cardinality(S) \in Nat
  BY FS_CardinalityType
<1>2. \A n \in 1..Cardinality(S) : f[n] \in S /\ Cardinality(Below(R, S, f[n])) = n - 1
  BY DEF Sorts
<1>3. f \in [1..Cardinality(S) -> S]
  BY DEF Sorts
<1>4. f \in Seq(S) /\ Len(f) = Cardinality(S)
  <2>1. f \in Seq(S)
    BY <1>1, <1>3, SeqDef
  <2>. QED
    BY <1>1, <1>3, <2>1, LenProperties
<1>5. ASSUME NEW j \in 1..Cardinality(S), NEW k \in 1..Cardinality(S), f[j] = f[k]
      PROVE  j = k
  BY <1>1, <1>2, <1>5
<1>6. ASSUME NEW j \in 1..Cardinality(S), NEW k \in 1..Cardinality(S), j < k
      PROVE  <<f[j], f[k]>> \in R
  <2>1. f[j] # f[k]
    BY <1>1, <1>5, <1>6
  <2>2. CASE <<f[k], f[j]>> \in R
    <3>1. Cardinality(Below(R, S, f[k])) < Cardinality(Below(R, S, f[j]))
      BY <1>2, <2>2, BelowIsCounted
    <3>. QED
      BY <1>1, <1>2, <1>6, <3>1
  <2>. QED
    BY <1>2, <2>1, <2>2 DEF Orders
<1>7. ASSUME NEW x \in S
      PROVE  \E n \in 1..Cardinality(S) : f[n] = x
  <2>. DEFINE n == Cardinality(Below(R, S, x)) + 1
  <2>1. n \in 1..Cardinality(S) /\ n - 1 = Cardinality(Below(R, S, x))
    BY <1>1, BelowIsCounted
  <2>2. f[n] \in S /\ Cardinality(Below(R, S, f[n])) = Cardinality(Below(R, S, x))
    <3>. HIDE DEF n
    <3>. QED
      BY <1>2, <2>1
  <2>. HIDE DEF n
  <2>3. ~(<<f[n], x>> \in R) /\ ~(<<x, f[n]>> \in R)
    BY <2>2, BelowIsCounted
  <2>4. f[n] = x
    BY <2>2, <2>3 DEF Orders
  <2>. QED
    BY <2>1, <2>4
<1>. QED
  BY <1>1, <1>3, <1>4, <1>5, <1>6, <1>7 DEF Lists

-----------------------------------------------------------------------------
(* Flattening.                                                             *)

\* flat has the flattening of every prefix of ss.
Flattens(flat, ss) ==
  flat = [i \in 1..Len(ss) |-> IF i = 1 THEN ss[i] ELSE flat[i - 1] \o ss[i]]

\* Every sequence of sequences has prefixes to flatten it by.
LEMMA FlattenExists ==
  ASSUME NEW S, NEW ss \in Seq(Seq(S))
  PROVE  \E flat \in [1..Len(ss) -> Seq(S)] : Flattens(flat, ss)
<1>. DEFINE Upto(f, m) == f = [i \in 1..m |-> IF i = 1 THEN ss[i] ELSE f[i - 1] \o ss[i]]
            A == {m \in Nat : m <= Len(ss) => \E f \in [1..m -> Seq(S)] : Upto(f, m)}
<1>1. 0 \in A
  <2>1. [i \in 1..0 |-> <<>>] \in [1..0 -> Seq(S)] /\ Upto([i \in 1..0 |-> <<>>], 0)
    OBVIOUS
  <2>. HIDE DEF Upto
  <2>. QED
    BY <2>1
<1>2. ASSUME NEW m \in Nat, m \in A
      PROVE  m + 1 \in A
  <2>1. SUFFICES ASSUME m + 1 <= Len(ss)
                 PROVE  \E f \in [1..(m + 1) -> Seq(S)] : Upto(f, m + 1)
    <3>. HIDE DEF Upto
    <3>. QED
      OBVIOUS
  <2>2. PICK f \in [1..m -> Seq(S)] : Upto(f, m)
    <3>. HIDE DEF Upto
    <3>. QED
      BY <1>2, <2>1
  <2>3. ss[m + 1] \in Seq(S)
    BY <2>1
  <2>. DEFINE g == [i \in 1..(m + 1) |-> IF i = m + 1 THEN (IF m = 0 THEN ss[1] ELSE f[m] \o ss[m + 1])
                                         ELSE f[i]]
  <2>4. g \in [1..(m + 1) -> Seq(S)]
    <3>1. m # 0 => f[m] \o ss[m + 1] \in Seq(S)
      BY <2>3, ConcatProperties
    <3>2. m = 0 => ss[1] \in Seq(S)
      BY <2>3
    <3>. QED
      BY <3>1, <3>2
  <2>5. ASSUME NEW i \in 1..(m + 1)
        PROVE  g[i] = IF i = 1 THEN ss[i] ELSE g[i - 1] \o ss[i]
    <3>1. CASE i = m + 1
      <4>1. m # 0 => g[m] = f[m]
        OBVIOUS
      <4>. QED
        BY <3>1, <4>1
    <3>2. CASE i # m + 1
      <4>1. i \in 1..m /\ g[i] = f[i]
        BY <3>2
      <4>2. f[i] = IF i = 1 THEN ss[i] ELSE f[i - 1] \o ss[i]
        BY <2>2, <4>1
      <4>3. i # 1 => g[i - 1] = f[i - 1]
        BY <4>1
      <4>. QED
        BY <4>1, <4>2, <4>3
    <3>. QED
      BY <3>1, <3>2
  <2>. HIDE DEF g
  <2>6. Upto(g, m + 1)
    BY <2>4, <2>5
  <2>. QED
    BY <2>4, <2>6
<1>3. Len(ss) \in A
  <2>1. Len(ss) \in Nat
    OBVIOUS
  <2>. HIDE DEF A
  <2>. QED
    BY <1>1, <1>2, <2>1, NumberInduction
<1>4. \E f \in [1..Len(ss) -> Seq(S)] : Upto(f, Len(ss))
  <2>1. Len(ss) <= Len(ss)
    OBVIOUS
  <2>. HIDE DEF Upto
  <2>. QED
    BY <1>3, <2>1
<1>. QED
  BY <1>4 DEF Flattens

\* The prefixes it is flattened by end with the flattening.
LEMMA FlattenPrefixes ==
  ASSUME NEW S, NEW ss \in Seq(Seq(S))
  PROVE  \E flat \in [1..Len(ss) -> Seq(S)] :
           /\ \A i \in 1..Len(ss) : flat[i] = IF i = 1 THEN ss[i] ELSE flat[i - 1] \o ss[i]
           /\ FlattenSeq(ss) = IF Len(ss) = 0 THEN ss ELSE flat[Len(ss)]
<1>1. PICK f \in [1..Len(ss) -> Seq(S)] : Flattens(f, ss)
  BY FlattenExists
<1>2. f = [i \in 1..Len(ss) |-> IF i = 1 THEN ss[i] ELSE f[i - 1] \o ss[i]]
  BY <1>1 DEF Flattens
<1>3. PICK g : /\ g = [i \in 1..Len(ss) |-> IF i = 1 THEN ss[i] ELSE g[i - 1] \o ss[i]]
               /\ FlattenSeq(ss) = IF Len(ss) = 0 THEN ss ELSE g[Len(ss)]
  <2>. DEFINE good(g) == g = [i \in 1..Len(ss) |-> IF i = 1 THEN ss[i] ELSE g[i - 1] \o ss[i]]
              chosen  == CHOOSE g : good(g)
  <2>1. FlattenSeq(ss) = IF Len(ss) = 0 THEN ss ELSE chosen[Len(ss)]
    BY DEF FlattenSeq
  <2>2. good(chosen)
    <3>1. good(f)
      BY <1>2
    <3>. HIDE DEF good
    <3>. QED
      BY <3>1
  <2>. HIDE DEF chosen
  <2>. QED
    BY <2>1, <2>2
<1>. DEFINE A == {m \in Nat : \A i \in 1..Len(ss) : i <= m => g[i] = f[i]}
<1>4. 0 \in A
  OBVIOUS
<1>5. ASSUME NEW m \in Nat, m \in A
      PROVE  m + 1 \in A
  <2>1. ASSUME NEW i \in 1..Len(ss), i <= m + 1
        PROVE  g[i] = f[i]
    <3>0. /\ g[i] = IF i = 1 THEN ss[i] ELSE g[i - 1] \o ss[i]
          /\ f[i] = IF i = 1 THEN ss[i] ELSE f[i - 1] \o ss[i]
      BY <1>2, <1>3
    <3>1. i # 1 => i - 1 \in 1..Len(ss) /\ i - 1 <= m
      BY <2>1
    <3>2. i # 1 => g[i - 1] = f[i - 1]
      BY <1>5, <3>1
    <3>. QED
      BY <3>0, <3>2
  <2>. QED
    BY <2>1
<1>6. Nat \subseteq A
  <2>. HIDE DEF A
  <2>. QED
    BY <1>4, <1>5, NumberInduction
<1>7. Len(ss) \in Nat
  OBVIOUS
<1>8. Len(ss) # 0 => g[Len(ss)] = f[Len(ss)]
  <2>1. Len(ss) \in A
    BY <1>6, <1>7
  <2>2. Len(ss) # 0 => Len(ss) \in 1..Len(ss) /\ Len(ss) <= Len(ss)
    BY <1>7
  <2>. QED
    BY <2>1, <2>2
<1>9. \A i \in 1..Len(ss) : f[i] = IF i = 1 THEN ss[i] ELSE f[i - 1] \o ss[i]
  BY <1>2
<1>10. FlattenSeq(ss) = IF Len(ss) = 0 THEN ss ELSE f[Len(ss)]
  BY <1>3, <1>8
<1>. QED
  BY <1>9, <1>10

\* Nothing flattened is nothing.
LEMMA FlattenNothing == FlattenSeq(<<>>) = <<>>
  BY DEF FlattenSeq

\* The flattening of sequences is a sequence; one part more is appended.
LEMMA FlattenByPart ==
  ASSUME NEW S, NEW ss \in Seq(Seq(S)), NEW s \in Seq(S)
  PROVE  /\ FlattenSeq(ss) \in Seq(S)
         /\ FlattenSeq(Append(ss, s)) = FlattenSeq(ss) \o s
<1>. DEFINE n == Len(ss)
            tt == Append(ss, s)
<1>1. /\ n \in Nat /\ tt \in Seq(Seq(S)) /\ Len(tt) = n + 1 /\ tt[n + 1] = s
      /\ \A i \in 1..n : tt[i] = ss[i]
  OBVIOUS
<1>2. PICK f \in [1..n -> Seq(S)] :
           /\ \A i \in 1..n : f[i] = IF i = 1 THEN ss[i] ELSE f[i - 1] \o ss[i]
           /\ FlattenSeq(ss) = IF n = 0 THEN ss ELSE f[n]
  BY FlattenPrefixes
<1>. HIDE DEF tt
<1>3. PICK g \in [1..Len(tt) -> Seq(S)] :
           /\ \A i \in 1..Len(tt) : g[i] = IF i = 1 THEN tt[i] ELSE g[i - 1] \o tt[i]
           /\ FlattenSeq(tt) = IF Len(tt) = 0 THEN tt ELSE g[Len(tt)]
  BY <1>1, FlattenPrefixes
<1>4. FlattenSeq(ss) \in Seq(S)
  <2>1. n = 0 => ss = <<>>
    OBVIOUS
  <2>2. n # 0 => f[n] \in Seq(S)
    <3>1. n # 0 => n \in 1..n
      BY <1>1
    <3>. QED
      BY <3>1
  <2>. QED
    BY <1>2, <2>1, <2>2
<1>. DEFINE A == {m \in Nat : \A i \in 1..n : i <= m => g[i] = f[i]}
<1>5. 0 \in A
  OBVIOUS
<1>6. ASSUME NEW m \in Nat, m \in A
      PROVE  m + 1 \in A
  <2>1. ASSUME NEW i \in 1..n, i <= m + 1
        PROVE  g[i] = f[i]
    <3>1. i \in 1..Len(tt) /\ tt[i] = ss[i]
      BY <1>1
    <3>2. /\ f[i] = IF i = 1 THEN ss[i] ELSE f[i - 1] \o ss[i]
          /\ g[i] = IF i = 1 THEN ss[i] ELSE g[i - 1] \o ss[i]
      BY <1>2, <1>3, <3>1
    <3>3. i # 1 => i - 1 \in 1..n /\ i - 1 <= m
      BY <1>1, <2>1
    <3>4. i # 1 => g[i - 1] = f[i - 1]
      BY <1>6, <3>3
    <3>. QED
      BY <3>2, <3>4
  <2>. QED
    BY <2>1
<1>7. Nat \subseteq A
  <2>. HIDE DEF A
  <2>. QED
    BY <1>5, <1>6, NumberInduction
<1>8. g[n + 1] = IF n = 0 THEN s ELSE g[n] \o s
  <2>1. n + 1 \in 1..Len(tt) /\ (n + 1) - 1 = n /\ (n + 1 = 1 <=> n = 0)
    BY <1>1
  <2>2. g[n + 1] = IF n + 1 = 1 THEN tt[n + 1] ELSE g[(n + 1) - 1] \o tt[n + 1]
    BY <1>3, <2>1
  <2>. HIDE DEF n
  <2>. QED
    BY <1>1, <2>1, <2>2
<1>9. n # 0 => g[n] = f[n]
  <2>1. n \in A
    BY <1>1, <1>7
  <2>2. n # 0 => n \in 1..n /\ n <= n
    BY <1>1
  <2>. QED
    BY <2>1, <2>2
<1>10. n = 0 => FlattenSeq(ss) \o s = s
  <2>1. n = 0 => ss = <<>>
    OBVIOUS
  <2>2. <<>> \o s = s
    BY ConcatEmptySeq
  <2>. QED
    BY <1>2, <2>1, <2>2
<1>11. FlattenSeq(tt) = g[n + 1]
  BY <1>1, <1>3
<1>. QED
  BY <1>2, <1>4, <1>8, <1>9, <1>10, <1>11 DEF tt

\* The flattening of sequences over S is one.
LEMMA FlattenIsSeq ==
  ASSUME NEW S, NEW ss \in Seq(Seq(S))
  PROVE  FlattenSeq(ss) \in Seq(S)
<1>1. <<>> \in Seq(S)
  OBVIOUS
<1>. QED
  BY <1>1, FlattenByPart

\* What it consists of stands in a part.
LEMMA FlattenIsOfParts ==
  ASSUME NEW S, NEW ss \in Seq(Seq(S))
  PROVE  /\ FlattenSeq(ss) \in Seq(S)
         /\ \A n \in DOMAIN FlattenSeq(ss) :
              \E k \in DOMAIN ss : \E j \in DOMAIN ss[k] : FlattenSeq(ss)[n] = ss[k][j]
<1>. DEFINE U == UNION {{ss[k][j] : j \in DOMAIN ss[k]} : k \in DOMAIN ss}
<1>1. ASSUME NEW k \in 1..Len(ss)
      PROVE  ss[k] \in Seq(U)
  <2>1. ss[k] \in Seq(S) /\ k \in DOMAIN ss
    OBVIOUS
  <2>2. DOMAIN ss[k] = 1..Len(ss[k]) /\ Len(ss[k]) \in Nat /\ ss[k] = [j \in 1..Len(ss[k]) |-> ss[k][j]]
    BY <2>1
  <2>3. \A j \in 1..Len(ss[k]) : ss[k][j] \in U
    BY <2>1, <2>2
  <2>. HIDE DEF U
  <2>4. [j \in 1..Len(ss[k]) |-> ss[k][j]] \in [1..Len(ss[k]) -> U]
    BY <2>3
  <2>5. ss[k] \in [1..Len(ss[k]) -> U]
    BY <2>2, <2>4
  <2>. QED
    BY <2>2, <2>5, SeqDef
<1>2. ss \in Seq(Seq(U))
  <2>1. Len(ss) \in Nat /\ ss = [k \in 1..Len(ss) |-> ss[k]]
    OBVIOUS
  <2>. HIDE DEF U
  <2>. QED
    BY <1>1, <2>1
<1>3. FlattenSeq(ss) \in Seq(U)
  <2>. HIDE DEF U
  <2>. QED
    BY <1>2, FlattenIsSeq
<1>4. \A n \in DOMAIN FlattenSeq(ss) : FlattenSeq(ss)[n] \in U
  <2>. HIDE DEF U
  <2>. QED
    BY <1>3
<1>5. FlattenSeq(ss) \in Seq(S)
  BY FlattenIsSeq
<1>. QED
  BY <1>4, <1>5

\* Every element once.
Distinct(s) == \A j, k \in DOMAIN s : s[j] = s[k] => j = k

\* Distinct elements followed by other distinct ones are distinct.
LEMMA ConcatIsDistinct ==
  ASSUME NEW S, NEW s \in Seq(S), NEW t \in Seq(S), Distinct(s), Distinct(t),
         \A j \in DOMAIN s, k \in DOMAIN t : s[j] # t[k]
  PROVE  s \o t \in Seq(S) /\ Distinct(s \o t)
<1>. DEFINE r == s \o t
<1>1. /\ r \in Seq(S) /\ Len(r) = Len(s) + Len(t) /\ Len(s) \in Nat /\ Len(t) \in Nat
      /\ DOMAIN r = 1..(Len(s) + Len(t)) /\ DOMAIN s = 1..Len(s) /\ DOMAIN t = 1..Len(t)
      /\ \A i \in 1..(Len(s) + Len(t)) : r[i] = IF i <= Len(s) THEN s[i] ELSE t[i - Len(s)]
  BY ConcatProperties, LenProperties
<1>. HIDE DEF r
<1>2. ASSUME NEW j \in DOMAIN r, NEW k \in DOMAIN r, r[j] = r[k], j < k
      PROVE  FALSE
  <2>1. CASE k <= Len(s)
    <3>1. j \in DOMAIN s /\ k \in DOMAIN s /\ s[j] = s[k]
      BY <1>1, <1>2, <2>1
    <3>2. j = k
      BY <3>1 DEF Distinct
    <3>. QED
      BY <1>1, <1>2, <3>2
  <2>2. CASE Len(s) < j
    <3>1. /\ j - Len(s) \in DOMAIN t /\ k - Len(s) \in DOMAIN t /\ ~(j <= Len(s)) /\ ~(k <= Len(s))
      BY <1>1, <1>2, <2>2
    <3>2. t[j - Len(s)] = t[k - Len(s)]
      BY <1>1, <1>2, <3>1
    <3>3. j - Len(s) = k - Len(s)
      BY <3>1, <3>2 DEF Distinct
    <3>. QED
      BY <1>1, <1>2, <3>3
  <2>3. CASE j <= Len(s) /\ Len(s) < k
    <3>1. j \in DOMAIN s /\ k - Len(s) \in DOMAIN t /\ ~(k <= Len(s))
      BY <1>1, <1>2, <2>3
    <3>2. s[j] = t[k - Len(s)]
      BY <1>1, <1>2, <2>3, <3>1
    <3>. QED
      BY <3>1, <3>2
  <2>. QED
    BY <1>1, <2>1, <2>2, <2>3
<1>3. Distinct(r)
  <2>1. ASSUME NEW j \in DOMAIN r, NEW k \in DOMAIN r, r[j] = r[k]
        PROVE  j = k
    <3>1. j < k \/ k < j \/ j = k
      BY <1>1
    <3>. QED
      BY <1>2, <2>1, <3>1
  <2>. QED
    BY <2>1 DEF Distinct
<1>. QED
  BY <1>1, <1>3 DEF r

\* Parts of which no two share an element.
Apart(ss) ==
  /\ \A k \in DOMAIN ss : Distinct(ss[k])
  /\ \A k, l \in DOMAIN ss : k # l => \A i \in DOMAIN ss[k], j \in DOMAIN ss[l] : ss[k][i] # ss[l][j]

\* Their flattening has every element once.
LEMMA FlattenIsDistinct ==
  ASSUME NEW S, NEW ss \in Seq(Seq(S)), Apart(ss)
  PROVE  Distinct(FlattenSeq(ss))
<1>. DEFINE A == {rr \in Seq(Seq(S)) : Apart(rr) => Distinct(FlattenSeq(rr))}
            E == Seq(S)
<1>1. <<>> \in A
  <2>1. Distinct(<<>>)
    BY DEF Distinct
  <2>. QED
    BY <2>1, FlattenNothing
<1>2. ASSUME NEW rr \in Seq(Seq(S)), NEW r \in Seq(S), rr \in A
      PROVE  Append(rr, r) \in A
  <2>. DEFINE tt == Append(rr, r)
  <2>1. /\ tt \in Seq(Seq(S)) /\ DOMAIN tt = 1..(Len(rr) + 1) /\ Len(rr) \in Nat
        /\ tt[Len(rr) + 1] = r /\ DOMAIN rr = 1..Len(rr)
        /\ \A k \in 1..Len(rr) : tt[k] = rr[k]
    OBVIOUS
  <2>. HIDE DEF tt
  <2>2. SUFFICES ASSUME Apart(tt)
                 PROVE  Distinct(FlattenSeq(tt))
    BY <2>1 DEF tt
  <2>3. \A k \in DOMAIN rr : k \in DOMAIN tt /\ rr[k] = tt[k] /\ k # Len(rr) + 1
    BY <2>1
  <2>4. Apart(rr)
    BY <2>2, <2>3 DEF Apart
  <2>5. Len(rr) + 1 \in DOMAIN tt
    BY <2>1
  <2>6. Distinct(r)
    BY <2>1, <2>2, <2>5 DEF Apart
  <2>7. Distinct(FlattenSeq(rr))
    BY <1>2, <2>4
  <2>8. /\ FlattenSeq(rr) \in Seq(S)
        /\ \A n \in DOMAIN FlattenSeq(rr) :
              \E k \in DOMAIN rr : \E j \in DOMAIN rr[k] : FlattenSeq(rr)[n] = rr[k][j]
    BY FlattenIsOfParts
  <2>9. ASSUME NEW n \in DOMAIN FlattenSeq(rr), NEW i \in DOMAIN r
        PROVE  FlattenSeq(rr)[n] # r[i]
    <3>1. PICK k \in DOMAIN rr : \E j \in DOMAIN rr[k] : FlattenSeq(rr)[n] = rr[k][j]
      BY <2>8
    <3>2. PICK j \in DOMAIN rr[k] : FlattenSeq(rr)[n] = rr[k][j]
      BY <3>1
    <3>3. k \in DOMAIN tt /\ rr[k] = tt[k] /\ k # Len(rr) + 1
      BY <2>3
    <3>4. tt[k][j] # tt[Len(rr) + 1][i]
      <4>1. i \in DOMAIN tt[Len(rr) + 1] /\ j \in DOMAIN tt[k]
        BY <2>1, <3>3
      <4>. QED
        BY <2>2, <2>5, <3>3, <4>1 DEF Apart
    <3>. QED
      BY <2>1, <3>2, <3>3, <3>4
  <2>10. Distinct(FlattenSeq(rr) \o r)
    BY <2>6, <2>7, <2>8, <2>9, ConcatIsDistinct
  <2>11. FlattenSeq(tt) = FlattenSeq(rr) \o r
    BY FlattenByPart DEF tt
  <2>. QED
    BY <2>10, <2>11
<1>3. Seq(E) \subseteq A
  <2>1. \A rr \in Seq(E), r \in E : rr \in A => Append(rr, r) \in A
    BY <1>2
  <2>. HIDE DEF A, E
  <2>. QED
    BY <1>1, <2>1, SequenceInduction
<1>. QED
  BY <1>3

\* A sequence that has every element once has as many as it is long.
LEMMA DistinctAreCounted ==
  ASSUME NEW S, NEW s \in Seq(S), Distinct(s)
  PROVE  Cardinality(Range(s)) = Len(s)
<1>1. Len(s) \in Nat /\ DOMAIN s = 1..Len(s)
  OBVIOUS
<1>2. IsFiniteSet(1..Len(s)) /\ Cardinality(1..Len(s)) = Len(s)
  <2>1. Cardinality(1..Len(s)) = IF 1 > Len(s) THEN 0 ELSE Len(s) - 1 + 1
    BY <1>1, FS_Interval
  <2>2. IsFiniteSet(1..Len(s))
    BY <1>1, FS_Interval
  <2>. QED
    BY <1>1, <2>1, <2>2
<1>3. s \in Bijection(1..Len(s), Range(s))
  <2>1. s \in [1..Len(s) -> Range(s)]
    BY <1>1 DEF Range
  <2>2. \A j, k \in 1..Len(s) : s[j] = s[k] => j = k
    BY <1>1 DEF Distinct
  <2>3. \A x \in Range(s) : \E k \in 1..Len(s) : s[k] = x
    BY <1>1 DEF Range
  <2>. QED
    BY <2>1, <2>2, <2>3 DEF Bijection, Injection, Surjection, IsInjective
<1>. QED
  BY <1>2, <1>3, FS_Bijection DEF ExistsBijection

-----------------------------------------------------------------------------
(* The flattening of sequences of sequences.                               *)

\* The flattening of what follows follows the flattening.
LEMMA FlattenConcat ==
  ASSUME NEW S, NEW ss \in Seq(Seq(S)), NEW tt \in Seq(Seq(S))
  PROVE  FlattenSeq(ss \o tt) = FlattenSeq(ss) \o FlattenSeq(tt)
<1>. DEFINE A == {rr \in Seq(Seq(S)) : FlattenSeq(ss \o rr) = FlattenSeq(ss) \o FlattenSeq(rr)}
<1>1. <<>> \in A
  <2>1. ss \o <<>> = ss
    BY ConcatEmptySeq
  <2>2. FlattenSeq(ss) \in Seq(S)
    BY FlattenIsSeq
  <2>3. FlattenSeq(ss) \o <<>> = FlattenSeq(ss)
    BY <2>2, ConcatEmptySeq
  <2>4. <<>> \in Seq(Seq(S))
    OBVIOUS
  <2>5. FlattenSeq(ss \o <<>>) = FlattenSeq(ss) \o FlattenSeq(<<>>)
    BY <2>1, <2>3, FlattenNothing
  <2>. QED
    BY <2>4, <2>5
<1>2. ASSUME NEW rr \in Seq(Seq(S)), NEW r \in Seq(S), rr \in A
      PROVE  Append(rr, r) \in A
  <2>1. ss \o Append(rr, r) = Append(ss \o rr, r) /\ ss \o rr \in Seq(Seq(S)) /\ Append(rr, r) \in Seq(Seq(S))
    BY AppendProperties, ConcatProperties
  <2>2. FlattenSeq(Append(ss \o rr, r)) = FlattenSeq(ss \o rr) \o r
    BY <2>1, FlattenByPart
  <2>3. FlattenSeq(Append(rr, r)) = FlattenSeq(rr) \o r
    BY FlattenByPart
  <2>4. FlattenSeq(ss \o rr) = FlattenSeq(ss) \o FlattenSeq(rr)
    BY <1>2
  <2>5. FlattenSeq(ss) \in Seq(S) /\ FlattenSeq(rr) \in Seq(S)
    BY FlattenIsSeq
  <2>6. (FlattenSeq(ss) \o FlattenSeq(rr)) \o r = FlattenSeq(ss) \o (FlattenSeq(rr) \o r)
    <3>. DEFINE x == FlattenSeq(ss)
                y == FlattenSeq(rr)
    <3>1. x \in Seq(S) /\ y \in Seq(S)
      BY <2>5
    <3>. HIDE DEF x, y
    <3>2. (x \o y) \o r = x \o (y \o r)
      BY <3>1, ConcatAssociative, SMTT(20)
    <3>. QED
      BY <3>2 DEF x, y
  <2>. QED
    BY <2>1, <2>2, <2>3, <2>4, <2>6
<1>3. Seq(Seq(S)) \subseteq A
  <2>. HIDE DEF A
  <2>. QED
    BY <1>1, <1>2, SequenceInduction
<1>. QED
  BY <1>3

\* The flattening of one sequence.
LEMMA FlattenOne ==
  ASSUME NEW S, NEW s \in Seq(S)
  PROVE  FlattenSeq(<<s>>) = s
<1>1. <<>> \in Seq(Seq(S)) /\ <<s>> = Append(<<>>, s)
  OBVIOUS
<1>2. FlattenSeq(Append(<<>>, s)) = FlattenSeq(<<>>) \o s
  BY <1>1, FlattenByPart
<1>3. <<>> \o s = s
  BY ConcatEmptySeq
<1>. QED
  BY <1>1, <1>2, <1>3, FlattenNothing

\* The flattening begins with the first sequence.
LEMMA FlattenFromHead ==
  ASSUME NEW S, NEW ss \in Seq(Seq(S)), ss # <<>>
  PROVE  /\ Head(ss) \in Seq(S) /\ Tail(ss) \in Seq(Seq(S))
         /\ FlattenSeq(ss) = Head(ss) \o FlattenSeq(Tail(ss))
<1>1. /\ Head(ss) \in Seq(S) /\ Tail(ss) \in Seq(Seq(S)) /\ Len(Tail(ss)) = Len(ss) - 1
      /\ \A i \in 1..Len(Tail(ss)) : Tail(ss)[i] = ss[i + 1]
      /\ Head(ss) = ss[1]
  BY HeadTailProperties
<1>2. ss = <<Head(ss)>> \o Tail(ss)
  <2>1. <<Head(ss)>> \in Seq(Seq(S)) /\ Len(<<Head(ss)>>) = 1 /\ <<Head(ss)>>[1] = Head(ss)
    BY <1>1
  <2>2. /\ <<Head(ss)>> \o Tail(ss) \in Seq(Seq(S))
        /\ Len(<<Head(ss)>> \o Tail(ss)) = 1 + Len(Tail(ss))
        /\ \A i \in 1..(1 + Len(Tail(ss))) :
             (<<Head(ss)>> \o Tail(ss))[i] = IF i <= 1 THEN <<Head(ss)>>[i] ELSE Tail(ss)[i - 1]
    BY <1>1, <2>1, ConcatProperties
  <2>3. Len(ss) \in Nat /\ Len(ss) = 1 + Len(Tail(ss))
    BY <1>1
  <2>4. \A i \in 1..Len(ss) : (<<Head(ss)>> \o Tail(ss))[i] = ss[i]
    <3>. SUFFICES ASSUME NEW i \in 1..Len(ss)
                  PROVE  (<<Head(ss)>> \o Tail(ss))[i] = ss[i]
      OBVIOUS
    <3>1. CASE i = 1
      BY <1>1, <2>1, <2>2, <2>3, <3>1
    <3>2. CASE i # 1
      <4>1. i - 1 \in 1..Len(Tail(ss)) /\ ~(i <= 1) /\ (i - 1) + 1 = i
        BY <2>3, <3>2
      <4>. QED
        BY <1>1, <2>2, <2>3, <4>1
    <3>. QED
      BY <3>1, <3>2
  <2>. QED
    BY <2>2, <2>3, <2>4, SeqEqual
<1>3. FlattenSeq(<<Head(ss)>> \o Tail(ss)) = FlattenSeq(<<Head(ss)>>) \o FlattenSeq(Tail(ss))
  <2>1. <<Head(ss)>> \in Seq(Seq(S))
    BY <1>1
  <2>. QED
    BY <1>1, <2>1, FlattenConcat
<1>4. FlattenSeq(<<Head(ss)>>) = Head(ss)
  BY <1>1, FlattenOne
<1>. QED
  BY <1>1, <1>2, <1>3, <1>4

\* What f makes of the elements of s.
Mapped(f, s) == [k \in DOMAIN s |-> f[s[k]]]

\* The function f takes P to S.
Maps(f, P, S) == f \in [P -> S]

\* It is as long as s.
LEMMA MappedIsSeq ==
  ASSUME NEW P, NEW S, NEW s \in Seq(P), NEW f, Maps(f, P, S)
  PROVE  /\ Mapped(f, s) \in Seq(S) /\ Len(Mapped(f, s)) = Len(s)
         /\ DOMAIN Mapped(f, s) = 1..Len(s) /\ Len(s) \in Nat
         /\ \A k \in 1..Len(s) : Mapped(f, s)[k] = f[s[k]]
<1>1. Len(s) \in Nat /\ DOMAIN s = 1..Len(s) /\ \A k \in 1..Len(s) : s[k] \in P
  OBVIOUS
<1>2. Mapped(f, s) \in [1..Len(s) -> S]
  BY <1>1 DEF Mapped, Maps
<1>3. Mapped(f, s) \in Seq(S) /\ Len(Mapped(f, s)) = Len(s)
  BY <1>1, <1>2, SeqDef, LenProperties
<1>4. \A k \in 1..Len(s) : Mapped(f, s)[k] = f[s[k]]
  BY <1>1 DEF Mapped
<1>. QED
  BY <1>1, <1>2, <1>3, <1>4

\* Concatenated before or after.
LEMMA MappedConcat ==
  ASSUME NEW P, NEW S, NEW f, Maps(f, P, S)
  PROVE  \A s, t \in Seq(P) : Mapped(f, s \o t) = Mapped(f, s) \o Mapped(f, t)
<1>. TAKE s \in Seq(P), t \in Seq(P)
<1>. DEFINE a == Mapped(f, s)
            b == Mapped(f, t)
            c == Mapped(f, s \o t)
<1>1. /\ s \o t \in Seq(P) /\ Len(s \o t) = Len(s) + Len(t)
      /\ \A k \in 1..(Len(s) + Len(t)) : (s \o t)[k] = IF k <= Len(s) THEN s[k] ELSE t[k - Len(s)]
  BY ConcatProperties
<1>0. \A x \in Seq(P) : /\ Mapped(f, x) \in Seq(S) /\ Len(Mapped(f, x)) = Len(x) /\ Len(x) \in Nat
                       /\ \A k \in 1..Len(x) : Mapped(f, x)[k] = f[x[k]]
  BY MappedIsSeq
<1>2. /\ a \in Seq(S) /\ Len(a) = Len(s) /\ Len(s) \in Nat /\ \A k \in 1..Len(s) : a[k] = f[s[k]]
  BY <1>0
<1>3. /\ b \in Seq(S) /\ Len(b) = Len(t) /\ Len(t) \in Nat /\ \A k \in 1..Len(t) : b[k] = f[t[k]]
  BY <1>0
<1>4. /\ c \in Seq(S) /\ Len(c) = Len(s) + Len(t)
      /\ \A k \in 1..(Len(s) + Len(t)) : c[k] = f[(s \o t)[k]]
  <2>. DEFINE r == s \o t
  <2>1. r \in Seq(P) /\ Len(r) = Len(s) + Len(t)
    BY <1>1
  <2>. HIDE DEF r
  <2>2. /\ Mapped(f, r) \in Seq(S) /\ Len(Mapped(f, r)) = Len(r)
        /\ \A k \in 1..Len(r) : Mapped(f, r)[k] = f[r[k]]
    BY <1>0, <2>1
  <2>. QED
    BY <2>1, <2>2 DEF r
<1>. HIDE DEF a, b, c
<1>5. /\ a \o b \in Seq(S) /\ Len(a \o b) = Len(s) + Len(t)
      /\ \A k \in 1..(Len(s) + Len(t)) : (a \o b)[k] = IF k <= Len(s) THEN a[k] ELSE b[k - Len(s)]
  <2>1. /\ a \o b \in Seq(S) /\ Len(a \o b) = Len(a) + Len(b)
        /\ \A k \in 1..(Len(a) + Len(b)) : (a \o b)[k] = IF k <= Len(a) THEN a[k] ELSE b[k - Len(a)]
    <3>1. \A x, y \in Seq(S) :
            /\ x \o y \in Seq(S) /\ Len(x \o y) = Len(x) + Len(y)
            /\ \A k \in 1..(Len(x) + Len(y)) : (x \o y)[k] = IF k <= Len(x) THEN x[k] ELSE y[k - Len(x)]
      BY ConcatProperties
    <3>2. a \in Seq(S) /\ b \in Seq(S)
      BY <1>2, <1>3
    <3>. QED
      BY <3>1, <3>2
  <2>. QED
    BY <1>2, <1>3, <2>1
<1>6. ASSUME NEW k \in 1..(Len(s) + Len(t))
      PROVE  c[k] = (a \o b)[k]
  <2>1. CASE k <= Len(s)
    <3>1. k \in 1..Len(s)
      BY <1>2, <2>1
    <3>. QED
      BY <1>1, <1>2, <1>4, <1>5, <2>1, <3>1
  <2>2. CASE ~(k <= Len(s))
    <3>1. k - Len(s) \in 1..Len(t)
      BY <1>2, <1>3, <2>2
    <3>. QED
      BY <1>1, <1>3, <1>4, <1>5, <2>2, <3>1
  <2>. QED
    BY <2>1, <2>2
<1>7. c = a \o b
  BY <1>4, <1>5, <1>6, SeqEqual
<1>. QED
  BY <1>7 DEF a, b, c

\* One element, and nothing.
LEMMA MappedOne ==
  ASSUME NEW f, NEW x
  PROVE  Mapped(f, <<x>>) = <<f[x]>>
  BY DEF Mapped

\* There is nothing to map in the empty sequence.
LEMMA MappedNothing == \A f : Mapped(f, <<>>) = <<>>
  BY DEF Mapped

\* Mapped before or after what is mapped is flattened.
LEMMA FlattenMapped ==
  ASSUME NEW P, NEW S, NEW pp \in Seq(Seq(P)), NEW f, Maps(f, P, Seq(S)),
         NEW g, \A p \in Seq(P) : g[p] = FlattenSeq(Mapped(f, p))
  PROVE  FlattenSeq(Mapped(f, FlattenSeq(pp))) = FlattenSeq(Mapped(g, pp))
<1>. DEFINE h == [p \in Seq(P) |-> FlattenSeq(Mapped(f, p))]
            A == {qq \in Seq(Seq(P)) : FlattenSeq(Mapped(f, FlattenSeq(qq))) = FlattenSeq(Mapped(h, qq))}
<1>1. \A p \in Seq(P) : Mapped(f, p) \in Seq(Seq(S)) /\ FlattenSeq(Mapped(f, p)) \in Seq(S)
  BY MappedIsSeq, FlattenIsSeq
<1>2. Maps(h, Seq(P), Seq(S)) /\ \A p \in Seq(P) : h[p] = FlattenSeq(Mapped(f, p))
  BY <1>1 DEF Maps
<1>. HIDE DEF h
<1>3. <<>> \in A
  <2>1. <<>> \in Seq(Seq(P))
    OBVIOUS
  <2>2. FlattenSeq(Mapped(f, FlattenSeq(<<>>))) = FlattenSeq(Mapped(h, <<>>))
    BY FlattenNothing, MappedNothing
  <2>. QED
    BY <2>1, <2>2
<1>4. ASSUME NEW qq \in Seq(Seq(P)), NEW q \in Seq(P), qq \in A
      PROVE  Append(qq, q) \in A
  <2>1. FlattenSeq(qq) \in Seq(P) /\ FlattenSeq(Append(qq, q)) = FlattenSeq(qq) \o q
    BY FlattenByPart
  <2>2. Mapped(f, FlattenSeq(qq) \o q) = Mapped(f, FlattenSeq(qq)) \o Mapped(f, q)
    <3>1. \A s, t \in Seq(P) : Mapped(f, s \o t) = Mapped(f, s) \o Mapped(f, t)
      BY MappedConcat
    <3>. QED
      BY <2>1, <3>1
  <2>3. FlattenSeq(Mapped(f, FlattenSeq(qq)) \o Mapped(f, q))
          = FlattenSeq(Mapped(f, FlattenSeq(qq))) \o FlattenSeq(Mapped(f, q))
    BY <1>1, <2>1, FlattenConcat
  <2>4. FlattenSeq(Mapped(f, FlattenSeq(qq))) = FlattenSeq(Mapped(h, qq))
    BY <1>4
  <2>5. Mapped(h, Append(qq, q)) = Append(Mapped(h, qq), h[q])
    <3>1. Append(qq, q) = qq \o <<q>> /\ <<q>> \in Seq(Seq(P))
      BY AppendIsConcat
    <3>2. Mapped(h, qq \o <<q>>) = Mapped(h, qq) \o Mapped(h, <<q>>)
      <4>1. \A s, t \in Seq(Seq(P)) : Mapped(h, s \o t) = Mapped(h, s) \o Mapped(h, t)
        <5>. DEFINE Q == Seq(P)
                    T == Seq(S)
        <5>1. Maps(h, Q, T)
          BY <1>2
        <5>. HIDE DEF Q, T, h
        <5>2. \A s, t \in Seq(Q) : Mapped(h, s \o t) = Mapped(h, s) \o Mapped(h, t)
          BY <5>1, MappedConcat
        <5>. QED
          BY <5>2 DEF Q
      <4>. QED
        BY <3>1, <4>1
    <3>3. Mapped(h, <<q>>) = <<h[q]>>
      BY <1>2, MappedOne
    <3>4. Mapped(h, qq) \in Seq(Seq(S)) /\ h[q] \in Seq(S)
      BY <1>1, <1>2, MappedIsSeq
    <3>5. Append(Mapped(h, qq), h[q]) = Mapped(h, qq) \o <<h[q]>>
      BY <3>4, AppendIsConcat
    <3>. QED
      BY <3>1, <3>2, <3>3, <3>5
  <2>6. FlattenSeq(Append(Mapped(h, qq), h[q])) = FlattenSeq(Mapped(h, qq)) \o h[q]
    <3>1. Mapped(h, qq) \in Seq(Seq(S)) /\ h[q] \in Seq(S)
      BY <1>1, <1>2, MappedIsSeq
    <3>. QED
      BY <3>1, FlattenByPart
  <2>7. FlattenSeq(Mapped(f, FlattenSeq(Append(qq, q)))) = FlattenSeq(Mapped(h, Append(qq, q)))
    BY <1>2, <2>1, <2>2, <2>3, <2>4, <2>5, <2>6
  <2>8. Append(qq, q) \in Seq(Seq(P))
    OBVIOUS
  <2>. QED
    BY <2>7, <2>8
<1>5. Seq(Seq(P)) \subseteq A
  <2>. HIDE DEF A
  <2>. QED
    BY <1>3, <1>4, SequenceInduction
<1>6. Mapped(h, pp) = Mapped(g, pp)
  <2>1. \A k \in DOMAIN pp : h[pp[k]] = g[pp[k]]
    BY <1>2
  <2>. QED
    BY <2>1 DEF Mapped
<1>. QED
  BY <1>5, <1>6

\* Every element of a flattening stands in one of its rows, and the next of the
\* row, if there is one, right after it; every element of a row is there.
InRows(flat, ss) ==
  /\ \A k \in DOMAIN ss : \A j \in DOMAIN ss[k] : \E n \in DOMAIN flat : flat[n] = ss[k][j]
  /\ \A n \in DOMAIN flat : \E k \in DOMAIN ss : \E j \in DOMAIN ss[k] :
       /\ flat[n] = ss[k][j]
       /\ j < Len(ss[k]) => n < Len(flat) /\ flat[n + 1] = ss[k][j + 1]

\* This holds of every flattening.
LEMMA FlattenIsInRows ==
  ASSUME NEW S, NEW ss \in Seq(Seq(S))
  PROVE  InRows(FlattenSeq(ss), ss)
<1>. DEFINE A == {rr \in Seq(Seq(S)) : InRows(FlattenSeq(rr), rr)}
<1>1. <<>> \in A
  <2>1. <<>> \in Seq(Seq(S)) /\ DOMAIN <<>> = {}
    OBVIOUS
  <2>2. InRows(<<>>, <<>>)
    BY <2>1 DEF InRows
  <2>. QED
    BY <2>1, <2>2, FlattenNothing
<1>2. ASSUME NEW rr \in Seq(Seq(S)), NEW r \in Seq(S), rr \in A
      PROVE  Append(rr, r) \in A
  <2>. DEFINE f == FlattenSeq(rr)
              tt == Append(rr, r)
              g == f \o r
  <2>1. f \in Seq(S) /\ FlattenSeq(tt) = g
    BY FlattenByPart
  <2>2. InRows(f, rr)
    BY <1>2
  <2>3. /\ tt \in Seq(Seq(S)) /\ Len(rr) \in Nat /\ DOMAIN rr = 1..Len(rr)
        /\ DOMAIN tt = 1..(Len(rr) + 1) /\ tt[Len(rr) + 1] = r
        /\ \A k \in 1..Len(rr) : tt[k] = rr[k]
    BY AppendProperties
  <2>. HIDE DEF f, tt
  <2>4. /\ g \in Seq(S) /\ Len(g) = Len(f) + Len(r) /\ DOMAIN g = 1..(Len(f) + Len(r))
        /\ Len(f) \in Nat /\ Len(r) \in Nat /\ DOMAIN f = 1..Len(f) /\ DOMAIN r = 1..Len(r)
        /\ \A n \in 1..Len(f) : g[n] = f[n]
        /\ \A j \in 1..Len(r) : g[Len(f) + j] = r[j]
    <3>1. /\ g \in Seq(S) /\ Len(g) = Len(f) + Len(r)
          /\ \A n \in 1..(Len(f) + Len(r)) : g[n] = IF n <= Len(f) THEN f[n] ELSE r[n - Len(f)]
          /\ Len(f) \in Nat /\ Len(r) \in Nat /\ DOMAIN f = 1..Len(f) /\ DOMAIN r = 1..Len(r)
      BY <2>1, ConcatProperties
    <3>2. DOMAIN g = 1..(Len(f) + Len(r))
      BY <3>1
    <3>. HIDE DEF g
    <3>3. \A j \in 1..Len(r) : Len(f) + j \in 1..(Len(f) + Len(r)) /\ ~(Len(f) + j <= Len(f))
                               /\ (Len(f) + j) - Len(f) = j
      BY <3>1
    <3>4. \A n \in 1..Len(f) : n \in 1..(Len(f) + Len(r)) /\ n <= Len(f)
      BY <3>1
    <3>. QED
      BY <3>1, <3>2, <3>3, <3>4
  <2>. HIDE DEF g
  <2>5. ASSUME NEW k \in DOMAIN tt, NEW j \in DOMAIN tt[k]
        PROVE  \E n \in DOMAIN g : g[n] = tt[k][j]
    <3>1. CASE k \in 1..Len(rr)
      <4>1. PICK n \in DOMAIN f : f[n] = rr[k][j]
        BY <2>2, <2>3, <3>1 DEF InRows
      <4>2. n \in DOMAIN g /\ g[n] = f[n]
        BY <2>4, <4>1
      <4>. QED
        BY <2>3, <3>1, <4>1, <4>2
    <3>2. CASE k = Len(rr) + 1
      <4>1. j \in 1..Len(r) /\ tt[k][j] = r[j]
        BY <2>3, <2>4, <3>2
      <4>2. Len(f) + j \in DOMAIN g /\ g[Len(f) + j] = r[j]
        BY <2>4, <4>1
      <4>. QED
        BY <4>1, <4>2
    <3>. QED
      BY <2>3, <3>1, <3>2
  <2>6. ASSUME NEW n \in DOMAIN g
        PROVE  \E k \in DOMAIN tt : \E j \in DOMAIN tt[k] :
                 /\ g[n] = tt[k][j]
                 /\ j < Len(tt[k]) => n < Len(g) /\ g[n + 1] = tt[k][j + 1]
    <3>1. CASE n \in 1..Len(f)
      <4>0. PICK k \in DOMAIN rr : \E j \in DOMAIN rr[k] :
              /\ f[n] = rr[k][j]
              /\ j < Len(rr[k]) => n < Len(f) /\ f[n + 1] = rr[k][j + 1]
        BY <2>2, <2>4, <3>1 DEF InRows
      <4>1. PICK j \in DOMAIN rr[k] :
              /\ f[n] = rr[k][j]
              /\ j < Len(rr[k]) => n < Len(f) /\ f[n + 1] = rr[k][j + 1]
        BY <4>0
      <4>2. k \in DOMAIN tt /\ tt[k] = rr[k]
        BY <2>3, <4>1
      <4>3. g[n] = rr[k][j]
        BY <2>4, <3>1, <4>1
      <4>4. ASSUME j < Len(rr[k])
            PROVE  n < Len(g) /\ g[n + 1] = rr[k][j + 1]
        <5>1. n < Len(f) /\ f[n + 1] = rr[k][j + 1]
          BY <4>1, <4>4
        <5>2. n + 1 \in 1..Len(f)
          BY <2>4, <3>1, <5>1
        <5>. QED
          BY <2>4, <3>1, <5>1, <5>2
      <4>. QED
        BY <4>2, <4>3, <4>4
    <3>2. CASE n \notin 1..Len(f)
      <4>. DEFINE j == n - Len(f)
                  k == Len(rr) + 1
      <4>1. j \in 1..Len(r) /\ n = Len(f) + j
        BY <2>4, <3>2
      <4>2. k \in DOMAIN tt /\ tt[k] = r
        BY <2>3
      <4>. HIDE DEF j, k
      <4>3. g[n] = r[j] /\ j \in DOMAIN r
        BY <2>4, <4>1
      <4>4. ASSUME j < Len(r)
            PROVE  n < Len(g) /\ g[n + 1] = r[j + 1]
        <5>1. j + 1 \in 1..Len(r) /\ n + 1 = Len(f) + (j + 1)
          BY <2>4, <4>1, <4>4
        <5>. QED
          BY <2>4, <4>1, <4>4, <5>1
      <4>. QED
        BY <4>2, <4>3, <4>4
    <3>. QED
      BY <3>1, <3>2
  <2>7. InRows(g, tt)
    BY <2>5, <2>6 DEF InRows
  <2>8. InRows(FlattenSeq(tt), tt)
    BY <2>1, <2>7
  <2>. QED
    BY <2>3, <2>8 DEF tt
<1>3. Seq(Seq(S)) \subseteq A
  <2>. HIDE DEF A
  <2>. QED
    BY <1>1, <1>2, SequenceInduction
<1>. QED
  BY <1>3

-----------------------------------------------------------------------------
(* Order.                                                                  *)

\* R holds between an element and every later one.
InOrder(s, R) == \A j, k \in DOMAIN s : j < k => <<s[j], s[k]>> \in R

\* Two sequences in order are in order together if each element of the first comes before each of the second.
LEMMA ConcatIsInOrder ==
  ASSUME NEW S, NEW s \in Seq(S), NEW t \in Seq(S), NEW R, InOrder(s, R), InOrder(t, R),
         \A j \in DOMAIN s, k \in DOMAIN t : <<s[j], t[k]>> \in R
  PROVE  InOrder(s \o t, R)
<1>. DEFINE r == s \o t
<1>1. /\ r \in Seq(S) /\ Len(r) = Len(s) + Len(t) /\ Len(s) \in Nat /\ Len(t) \in Nat
      /\ DOMAIN r = 1..(Len(s) + Len(t)) /\ DOMAIN s = 1..Len(s) /\ DOMAIN t = 1..Len(t)
      /\ \A i \in 1..(Len(s) + Len(t)) : r[i] = IF i <= Len(s) THEN s[i] ELSE t[i - Len(s)]
  BY ConcatProperties, LenProperties
<1>. HIDE DEF r
<1>2. ASSUME NEW j \in DOMAIN r, NEW k \in DOMAIN r, j < k
      PROVE  <<r[j], r[k]>> \in R
  <2>1. CASE k <= Len(s)
    <3>1. j \in DOMAIN s /\ k \in DOMAIN s /\ r[j] = s[j] /\ r[k] = s[k]
      BY <1>1, <1>2, <2>1
    <3>. QED
      BY <1>2, <3>1 DEF InOrder
  <2>2. CASE Len(s) < j
    <3>1. /\ j - Len(s) \in DOMAIN t /\ k - Len(s) \in DOMAIN t /\ ~(j <= Len(s)) /\ ~(k <= Len(s))
          /\ j - Len(s) < k - Len(s)
      BY <1>1, <1>2, <2>2
    <3>2. <<t[j - Len(s)], t[k - Len(s)]>> \in R
      BY <3>1 DEF InOrder
    <3>3. r[j] = t[j - Len(s)] /\ r[k] = t[k - Len(s)]
      BY <1>1, <3>1
    <3>. QED
      BY <3>2, <3>3
  <2>3. CASE j <= Len(s) /\ Len(s) < k
    <3>1. j \in DOMAIN s /\ k - Len(s) \in DOMAIN t /\ ~(k <= Len(s))
      BY <1>1, <1>2, <2>3
    <3>2. r[j] = s[j] /\ r[k] = t[k - Len(s)]
      BY <1>1, <1>2, <2>3, <3>1
    <3>. QED
      BY <3>1, <3>2
  <2>. QED
    BY <1>1, <2>1, <2>2, <2>3
<1>. QED
  BY <1>2 DEF InOrder, r

\* Parts in order, each in order.
AllInOrder(ss, R) ==
  /\ \A k \in DOMAIN ss : InOrder(ss[k], R)
  /\ \A k, l \in DOMAIN ss : k < l => \A i \in DOMAIN ss[k], j \in DOMAIN ss[l] : <<ss[k][i], ss[l][j]>> \in R

\* Their flattening is in order.
LEMMA FlattenIsInOrder ==
  ASSUME NEW S, NEW ss \in Seq(Seq(S)), NEW R, AllInOrder(ss, R)
  PROVE  InOrder(FlattenSeq(ss), R)
<1>. DEFINE A == {rr \in Seq(Seq(S)) : AllInOrder(rr, R) => InOrder(FlattenSeq(rr), R)}
            E == Seq(S)
<1>1. <<>> \in A
  <2>1. InOrder(<<>>, R)
    BY DEF InOrder
  <2>. QED
    BY <2>1, FlattenNothing
<1>2. ASSUME NEW rr \in Seq(Seq(S)), NEW r \in Seq(S), rr \in A
      PROVE  Append(rr, r) \in A
  <2>. DEFINE tt == Append(rr, r)
  <2>1. /\ tt \in Seq(Seq(S)) /\ DOMAIN tt = 1..(Len(rr) + 1) /\ Len(rr) \in Nat
        /\ tt[Len(rr) + 1] = r /\ DOMAIN rr = 1..Len(rr)
        /\ \A k \in 1..Len(rr) : tt[k] = rr[k]
    OBVIOUS
  <2>. HIDE DEF tt
  <2>2. SUFFICES ASSUME AllInOrder(tt, R)
                 PROVE  InOrder(FlattenSeq(tt), R)
    BY <2>1 DEF tt
  <2>3. \A k \in DOMAIN rr : k \in DOMAIN tt /\ rr[k] = tt[k] /\ k < Len(rr) + 1
    BY <2>1
  <2>4. AllInOrder(rr, R)
    BY <2>2, <2>3 DEF AllInOrder
  <2>5. Len(rr) + 1 \in DOMAIN tt
    BY <2>1
  <2>6. InOrder(r, R)
    BY <2>1, <2>2, <2>5 DEF AllInOrder
  <2>7. InOrder(FlattenSeq(rr), R)
    BY <1>2, <2>4
  <2>8. /\ FlattenSeq(rr) \in Seq(S)
        /\ \A n \in DOMAIN FlattenSeq(rr) :
              \E k \in DOMAIN rr : \E j \in DOMAIN rr[k] : FlattenSeq(rr)[n] = rr[k][j]
    BY FlattenIsOfParts
  <2>9. ASSUME NEW n \in DOMAIN FlattenSeq(rr), NEW i \in DOMAIN r
        PROVE  <<FlattenSeq(rr)[n], r[i]>> \in R
    <3>1. PICK k \in DOMAIN rr : \E j \in DOMAIN rr[k] : FlattenSeq(rr)[n] = rr[k][j]
      BY <2>8
    <3>2. PICK j \in DOMAIN rr[k] : FlattenSeq(rr)[n] = rr[k][j]
      BY <3>1
    <3>3. k \in DOMAIN tt /\ rr[k] = tt[k] /\ k < Len(rr) + 1
      BY <2>3
    <3>4. <<tt[k][j], tt[Len(rr) + 1][i]>> \in R
      <4>1. i \in DOMAIN tt[Len(rr) + 1] /\ j \in DOMAIN tt[k]
        BY <2>1, <3>3
      <4>. QED
        BY <2>2, <2>5, <3>3, <4>1 DEF AllInOrder
    <3>. QED
      BY <2>1, <3>2, <3>3, <3>4
  <2>10. InOrder(FlattenSeq(rr) \o r, R)
    BY <2>6, <2>7, <2>8, <2>9, ConcatIsInOrder
  <2>11. FlattenSeq(tt) = FlattenSeq(rr) \o r
    BY FlattenByPart DEF tt
  <2>. QED
    BY <2>10, <2>11
<1>3. Seq(E) \subseteq A
  <2>1. \A rr \in Seq(E), r \in E : rr \in A => Append(rr, r) \in A
    BY <1>2
  <2>. HIDE DEF A, E
  <2>. QED
    BY <1>1, <2>1, SequenceInduction
<1>. QED
  BY <1>3

\* A sequence is its front and its last element.
LEMMA FrontAndLast ==
  ASSUME NEW S, NEW s \in Seq(S), s # <<>>
  PROVE  /\ Front(s) \in Seq(S) /\ Last(s) \in S /\ s = Append(Front(s), Last(s))
         /\ Len(s) \in Nat \ {0} /\ Len(Front(s)) = Len(s) - 1 /\ DOMAIN Front(s) = 1..(Len(s) - 1)
         /\ \A k \in 1..(Len(s) - 1) : Front(s)[k] = s[k]
         /\ Last(s) = s[Len(s)]
<1>1. Len(s) \in Nat /\ Len(s) # 0 /\ Len(s) \in 1..Len(s) /\ DOMAIN s = 1..Len(s)
  BY EmptySeq
<1>2. Last(s) = s[Len(s)] /\ Last(s) \in S
  BY <1>1 DEF Last
<1>. DEFINE f == SubSeq(s, 1, Len(s) - 1)
            r == Append(f, Last(s))
<1>3. /\ f \in Seq(S) /\ Len(f) = Len(s) - 1 /\ DOMAIN f = 1..(Len(s) - 1)
      /\ \A k \in 1..(Len(s) - 1) : f[k] = s[k]
  BY <1>1
<1>4. Front(s) = f
  BY DEF Front
<1>. HIDE DEF f
<1>5. /\ r \in Seq(S) /\ Len(r) = Len(s) /\ r[Len(s)] = Last(s)
      /\ \A k \in 1..(Len(s) - 1) : r[k] = f[k]
  <2>1. /\ r \in Seq(S) /\ Len(r) = Len(f) + 1 /\ r[Len(f) + 1] = Last(s)
        /\ \A k \in 1..Len(f) : r[k] = f[k]
    BY <1>2, <1>3, AppendProperties
  <2>2. (Len(s) - 1) + 1 = Len(s)
    BY <1>1
  <2>. HIDE DEF r
  <2>. QED
    BY <1>3, <2>1, <2>2
<1>. HIDE DEF r
<1>6. ASSUME NEW k \in 1..Len(s)
      PROVE  r[k] = s[k]
  <2>1. CASE k = Len(s)
    BY <1>2, <1>5, <2>1
  <2>2. CASE k # Len(s)
    <3>1. k \in 1..(Len(s) - 1)
      <4>1. \A n \in Nat : \A i \in 1..n : i # n => i \in 1..(n - 1)
        OBVIOUS
      <4>. QED
        BY <1>1, <2>2, <4>1
    <3>. QED
      BY <1>3, <1>5, <3>1
  <2>. QED
    BY <2>1, <2>2
<1>7. r = s
  BY <1>5, <1>6, SeqEqual
<1>. QED
  BY <1>1, <1>2, <1>3, <1>4, <1>7 DEF r

\* What follows a beginning is settled by the whole.
LEMMA CancelLeft ==
  ASSUME NEW S, NEW c \in Seq(S), NEW x \in Seq(S), NEW y \in Seq(S), c \o x = c \o y
  PROVE  x = y
<1>1. /\ Len(c) \in Nat /\ Len(x) \in Nat /\ Len(y) \in Nat
      /\ Len(c \o x) = Len(c) + Len(x) /\ Len(c \o y) = Len(c) + Len(y)
  BY ConcatProperties
<1>2. Len(x) = Len(y)
  BY <1>1
<1>3. ASSUME NEW i \in 1..Len(x)
      PROVE  x[i] = y[i]
  <2>. DEFINE j == Len(c) + i
  <2>1. j \in 1..(Len(c) + Len(x)) /\ ~(j <= Len(c)) /\ j - Len(c) = i
    BY <1>1
  <2>. HIDE DEF j
  <2>2. (c \o x)[j] = x[i]
    BY <2>1, ConcatProperties
  <2>3. (c \o y)[j] = y[i]
    BY <1>2, <2>1, ConcatProperties
  <2>. QED
    BY <2>2, <2>3
<1>. QED
  BY <1>2, <1>3, SeqEqual

\* r has the elements of s and t and no other.
HasBoth(r, s, t) ==
  /\ \A k \in DOMAIN r : (\E j \in DOMAIN s : r[k] = s[j]) \/ (\E j \in DOMAIN t : r[k] = t[j])
  /\ \A j \in DOMAIN s : \E k \in DOMAIN r : r[k] = s[j]
  /\ \A j \in DOMAIN t : \E k \in DOMAIN r : r[k] = t[j]

\* So has a concatenation.
LEMMA ConcatHasBoth ==
  ASSUME NEW S, NEW s \in Seq(S), NEW t \in Seq(S)
  PROVE  HasBoth(s \o t, s, t) /\ Range(s \o t) = Range(s) \cup Range(t)
<1>. DEFINE r == s \o t
            m == Len(s)
            n == Len(t)
<1>1. /\ Len(r) = m + n /\ r \in Seq(S)
      /\ \A i \in 1..(m + n) : r[i] = IF i <= m THEN s[i] ELSE t[i - m]
  BY ConcatProperties
<1>2. m \in Nat /\ n \in Nat /\ DOMAIN s = 1..m /\ DOMAIN t = 1..n
  OBVIOUS
<1>. HIDE DEF r, m, n
<1>3. DOMAIN r = 1..(m + n)
  BY <1>1, <1>2
<1>4. \A i \in 1..(m + n) : (i <= m => i \in 1..m) /\ (~(i <= m) => i - m \in 1..n)
  BY <1>2
<1>5. \A j \in 1..m : j \in 1..(m + n) /\ j <= m
  BY <1>2
<1>6. \A j \in 1..n : m + j \in 1..(m + n) /\ ~(m + j <= m) /\ (m + j) - m = j
  BY <1>2
<1>7. \A k \in DOMAIN r : (\E j \in DOMAIN s : r[k] = s[j]) \/ (\E j \in DOMAIN t : r[k] = t[j])
  BY <1>1, <1>2, <1>3, <1>4
<1>8. \A j \in DOMAIN s : \E k \in DOMAIN r : r[k] = s[j]
  BY <1>1, <1>2, <1>3, <1>5
<1>9. \A j \in DOMAIN t : \E k \in DOMAIN r : r[k] = t[j]
  <2>. SUFFICES ASSUME NEW j \in DOMAIN t
                PROVE  \E k \in DOMAIN r : r[k] = t[j]
    OBVIOUS
  <2>. DEFINE k == m + j
  <2>1. k \in 1..(m + n) /\ ~(k <= m) /\ k - m = j
    BY <1>2, <1>6
  <2>. HIDE DEF k
  <2>2. r[k] = t[j]
    BY <1>1, <2>1
  <2>. QED
    BY <1>3, <2>1, <2>2
<1>10. Range(r) = Range(s) \cup Range(t)
  BY <1>7, <1>8, <1>9 DEF Range
<1>. QED
  BY <1>7, <1>8, <1>9, <1>10 DEF r, HasBoth

\* Lists of distinct elements that have none in common make a list of distinct elements.
LEMMA ApartIsDistinct ==
  ASSUME NEW S, NEW s \in Seq(S), NEW t \in Seq(S), Distinct(s), Distinct(t), Range(s) \cap Range(t) = {}
  PROVE  s \o t \in Seq(S) /\ Distinct(s \o t) /\ Range(s \o t) = Range(s) \cup Range(t)
<1>1. \A j \in DOMAIN s, k \in DOMAIN t : s[j] # t[k]
  <2>1. \A j \in DOMAIN s : s[j] \in Range(s)
    BY DEF Range
  <2>2. \A k \in DOMAIN t : t[k] \in Range(t)
    BY DEF Range
  <2>. QED
    BY <2>1, <2>2
<1>. QED
  BY <1>1, ConcatIsDistinct, ConcatHasBoth

\* Without its first element a list of distinct elements has the others.
LEMMA TailIsDistinct ==
  ASSUME NEW S, NEW s \in Seq(S), s # <<>>, Distinct(s)
  PROVE  /\ Head(s) \in S /\ Tail(s) \in Seq(S) /\ Distinct(Tail(s))
         /\ Range(s) = Range(Tail(s)) \cup {Head(s)} /\ Head(s) \notin Range(Tail(s))
<1>. DEFINE t == Tail(s)
            n == Len(s)
<1>1. /\ Head(s) \in S /\ Head(s) = s[1] /\ t \in Seq(S) /\ Len(t) = n - 1 /\ n \in Nat /\ DOMAIN s = 1..n
      /\ \A k \in 1..Len(t) : t[k] = s[k + 1]
  BY HeadTailProperties
<1>2. n # 0
  BY EmptySeq
<1>. HIDE DEF t, n
<1>3. DOMAIN t = 1..(n - 1) /\ \A k \in 1..(n - 1) : t[k] = s[k + 1]
  BY <1>1
<1>4. \A k \in 1..(n - 1) : k + 1 \in 1..n /\ k + 1 # 1
  BY <1>1
<1>5. 1 \in 1..n /\ \A k \in 1..n : k # 1 => k - 1 \in 1..(n - 1) /\ (k - 1) + 1 = k
  BY <1>1, <1>2
<1>6. Distinct(t)
  <2>. SUFFICES ASSUME NEW j \in 1..(n - 1), NEW k \in 1..(n - 1), t[j] = t[k]
                PROVE  j = k
    BY <1>3 DEF Distinct
  <2>1. s[j + 1] = s[k + 1] /\ j + 1 \in DOMAIN s /\ k + 1 \in DOMAIN s
    BY <1>1, <1>3, <1>4
  <2>2. j + 1 = k + 1
    BY <2>1 DEF Distinct
  <2>. QED
    BY <1>1, <2>2
<1>7. Head(s) \notin Range(t)
  <2>1. \A k \in 1..(n - 1) : t[k] # s[1]
    BY <1>1, <1>3, <1>4, <1>5 DEF Distinct
  <2>. QED
    BY <1>1, <1>3, <2>1 DEF Range
<1>8. Range(s) = Range(t) \cup {Head(s)}
  <2>1. \A k \in 1..n : s[k] = s[1] \/ \E j \in 1..(n - 1) : s[k] = t[j]
    BY <1>3, <1>5
  <2>2. \A j \in 1..(n - 1) : \E k \in 1..n : s[k] = t[j]
    BY <1>3, <1>4
  <2>3. /\ Range(s) = {s[k] : k \in 1..n} /\ Range(t) = {t[k] : k \in 1..(n - 1)}
        /\ Head(s) = s[1] /\ 1 \in 1..n
    BY <1>1, <1>3, <1>5 DEF Range
  <2>4. \A x \in Range(s) : x = Head(s) \/ x \in Range(t)
    BY <2>1, <2>3
  <2>5. \A x \in Range(t) : x \in Range(s)
    BY <2>2, <2>3
  <2>6. Head(s) \in Range(s)
    BY <2>3
  <2>. QED
    BY <2>4, <2>5, <2>6
<1>. QED
  BY <1>1, <1>6, <1>7, <1>8 DEF t

\* A sequence without its last element.
LEMMA FrontOfSeq ==
  ASSUME NEW S, NEW s \in Seq(S), s # <<>>
  PROVE  /\ Front(s) \in Seq(S)
         /\ Len(s) \in Nat \ {0} /\ Len(Front(s)) = Len(s) - 1
         /\ DOMAIN Front(s) = 1..(Len(s) - 1)
         /\ \A k \in 1..(Len(s) - 1) : Front(s)[k] = s[k]
<1>1. Len(s) \in Nat \ {0}
  BY LenProperties, EmptySeq
<1> DEFINE m == 1
           n == Len(s) - 1
<1>2. /\ m \in Int /\ n \in Int /\ n - m + 1 = Len(s) - 1
      /\ (m <= n) \/ Len(s) - 1 = 0
  <2>1. \A l \in Nat \ {0} : /\ 1 \in Int /\ l - 1 \in Int /\ (l - 1) - 1 + 1 = l - 1
                             /\ (1 <= l - 1) \/ l - 1 = 0
    OBVIOUS
  <2>. QED
    BY <1>1, <2>1
<1>3. \A i \in m..n : s[i] \in S
  BY <1>1, LenProperties
<1>4. /\ SubSeq(s, m, n) \in Seq(S)
      /\ Len(SubSeq(s, m, n)) = IF m <= n THEN n - m + 1 ELSE 0
      /\ \A i \in 1..(n - m + 1) : SubSeq(s, m, n)[i] = s[m + i - 1]
  <2>. HIDE DEF m, n
  <2>. QED
    BY <1>2, <1>3, SubSeqProperties
<1>5. Front(s) \in Seq(S) /\ Len(Front(s)) = Len(s) - 1
  BY <1>1, <1>2, <1>4 DEF Front
<1>6. \A k \in 1..(Len(s) - 1) : Front(s)[k] = s[k]
  <2>1. SUFFICES ASSUME NEW k \in 1..(Len(s) - 1)
                 PROVE  Front(s)[k] = s[k]
    OBVIOUS
  <2>2. k \in 1..(n - m + 1) /\ m + k - 1 = k
    BY <1>1
  <2>. QED
    BY <1>4, <2>2 DEF Front
<1>. QED
  BY <1>1, <1>5, <1>6, LenProperties

\* The converse: of two sequences that are in order together each is, and one before the other.
LEMMA ConcatWasInOrder ==
  ASSUME NEW S, NEW s \in Seq(S), NEW t \in Seq(S), NEW R, InOrder(s \o t, R)
  PROVE  /\ InOrder(s, R) /\ InOrder(t, R)
         /\ \A j \in DOMAIN s, k \in DOMAIN t : <<s[j], t[k]>> \in R
<1>. DEFINE r == s \o t
<1>1. /\ r \in Seq(S) /\ Len(r) = Len(s) + Len(t) /\ Len(s) \in Nat /\ Len(t) \in Nat
      /\ DOMAIN r = 1..(Len(s) + Len(t)) /\ DOMAIN s = 1..Len(s) /\ DOMAIN t = 1..Len(t)
      /\ \A i \in 1..(Len(s) + Len(t)) : r[i] = IF i <= Len(s) THEN s[i] ELSE t[i - Len(s)]
  BY ConcatProperties, LenProperties
<1>2. InOrder(r, R)
  OBVIOUS
<1>. HIDE DEF r
<1>3. \A j \in DOMAIN s : j \in DOMAIN r /\ r[j] = s[j] /\ j <= Len(s) /\ j \in Nat
  BY <1>1
<1>4. \A k \in DOMAIN t : Len(s) + k \in DOMAIN r /\ r[Len(s) + k] = t[k] /\ k \in Nat \ {0}
  <2>. SUFFICES ASSUME NEW k \in DOMAIN t
                PROVE  Len(s) + k \in DOMAIN r /\ r[Len(s) + k] = t[k] /\ k \in Nat \ {0}
    OBVIOUS
  <2>1. Len(s) + k \in 1..(Len(s) + Len(t)) /\ ~(Len(s) + k <= Len(s)) /\ (Len(s) + k) - Len(s) = k
    BY <1>1
  <2>. QED
    BY <1>1, <2>1
<1>5. InOrder(s, R)
  BY <1>2, <1>3 DEF InOrder
<1>6. InOrder(t, R)
  <2>. SUFFICES ASSUME NEW j \in DOMAIN t, NEW k \in DOMAIN t, j < k
                PROVE  <<t[j], t[k]>> \in R
    BY DEF InOrder
  <2>1. Len(s) + j < Len(s) + k
    BY <1>1, <1>4
  <2>2. <<r[Len(s) + j], r[Len(s) + k]>> \in R
    BY <1>2, <1>4, <2>1 DEF InOrder
  <2>. QED
    BY <1>4, <2>2
<1>7. ASSUME NEW j \in DOMAIN s, NEW k \in DOMAIN t
      PROVE  <<s[j], t[k]>> \in R
  <2>1. j < Len(s) + k
    BY <1>1, <1>3, <1>4
  <2>2. <<r[j], r[Len(s) + k]>> \in R
    BY <1>2, <1>3, <1>4, <2>1 DEF InOrder
  <2>. QED
    BY <1>3, <1>4, <2>2
<1>. QED
  BY <1>5, <1>6, <1>7

\* If a flattening is in order, so are the parts.
LEMMA FlattenWasInOrder ==
  ASSUME NEW S, NEW ss \in Seq(Seq(S)), NEW R, InOrder(FlattenSeq(ss), R)
  PROVE  AllInOrder(ss, R)
<1>. DEFINE A == {rr \in Seq(Seq(S)) : InOrder(FlattenSeq(rr), R) => AllInOrder(rr, R)}
            E == Seq(S)
<1>1. <<>> \in A
  <2>1. AllInOrder(<<>>, R)
    BY DEF AllInOrder
  <2>. QED
    BY <2>1
<1>2. ASSUME NEW rr \in Seq(Seq(S)), NEW r \in Seq(S), rr \in A
      PROVE  Append(rr, r) \in A
  <2>. DEFINE tt == Append(rr, r)
              f == FlattenSeq(rr)
  <2>1. /\ tt \in Seq(Seq(S)) /\ DOMAIN tt = 1..(Len(rr) + 1) /\ Len(rr) \in Nat
        /\ tt[Len(rr) + 1] = r /\ DOMAIN rr = 1..Len(rr)
        /\ \A k \in 1..Len(rr) : tt[k] = rr[k]
    OBVIOUS
  <2>2. f \in Seq(S) /\ FlattenSeq(tt) = f \o r
    BY FlattenByPart
  <2>3. InRows(f, rr)
    BY FlattenIsInRows
  <2>. HIDE DEF tt
  <2>4. SUFFICES ASSUME InOrder(FlattenSeq(tt), R)
                 PROVE  AllInOrder(tt, R)
    BY <2>1 DEF tt
  <2>5. InOrder(f \o r, R)
    BY <2>2, <2>4
  <2>6. rr \in A
    BY <1>2
  <2>. HIDE DEF f
  <2>7. /\ InOrder(f, R) /\ InOrder(r, R)
        /\ \A j \in DOMAIN f, k \in DOMAIN r : <<f[j], r[k]>> \in R
    BY <2>2, <2>5, ConcatWasInOrder
  <2>8. AllInOrder(rr, R)
    BY <2>6, <2>7 DEF f
  <2>9. \A k \in DOMAIN tt : InOrder(tt[k], R)
    <3>1. \A k \in DOMAIN tt : k \in DOMAIN rr \/ k = Len(rr) + 1
      BY <2>1
    <3>. QED
      BY <2>1, <2>7, <2>8, <3>1 DEF AllInOrder
  <2>10. ASSUME NEW k \in DOMAIN tt, NEW l \in DOMAIN tt, k < l, NEW i \in DOMAIN tt[k], NEW j \in DOMAIN tt[l]
         PROVE  <<tt[k][i], tt[l][j]>> \in R
    <3>1. k \in DOMAIN rr /\ tt[k] = rr[k]
      BY <2>1, <2>10
    <3>2. CASE l \in DOMAIN rr
      <4>1. tt[l] = rr[l]
        BY <2>1, <3>2
      <4>. QED
        BY <2>8, <2>10, <3>1, <3>2, <4>1 DEF AllInOrder
    <3>3. CASE l \notin DOMAIN rr
      <4>1. tt[l] = r
        BY <2>1, <3>3
      <4>2. PICK n \in DOMAIN f : f[n] = rr[k][i]
        BY <2>3, <3>1 DEF InRows
      <4>. QED
        BY <2>7, <3>1, <4>1, <4>2
    <3>. QED
      BY <3>2, <3>3
  <2>. QED
    BY <2>9, <2>10 DEF AllInOrder
<1>3. Seq(E) \subseteq A
  <2>1. \A rr \in Seq(E), r \in E : rr \in A => Append(rr, r) \in A
    BY <1>2
  <2>. HIDE DEF A, E
  <2>. QED
    BY <1>1, <2>1, SequenceInduction
<1>. QED
  BY <1>3

\* An element is one of F, or R holds between the one before and it.
Chained(s, F, R) == \A n \in DOMAIN s : s[n] \in F \/ (n > 1 /\ <<s[n - 1], s[n]>> \in R)

\* So it is of each of the sequences.
AllChained(ss, F, R) == \A k \in DOMAIN ss : Chained(ss[k], F, R)

\* So it is in a flattening if it is in each part.
LEMMA FlattenIsChained ==
  ASSUME NEW S, NEW ss \in Seq(Seq(S)), NEW F, NEW R, AllChained(ss, F, R)
  PROVE  Chained(FlattenSeq(ss), F, R)
<1>. DEFINE A == {rr \in Seq(Seq(S)) : AllChained(rr, F, R) => Chained(FlattenSeq(rr), F, R)}
            E == Seq(S)
<1>1. <<>> \in A
  <2>1. Chained(<<>>, F, R)
    BY DEF Chained
  <2>. QED
    BY <2>1, FlattenNothing
<1>2. ASSUME NEW rr \in Seq(Seq(S)), NEW r \in Seq(S), rr \in A
      PROVE  Append(rr, r) \in A
  <2>. DEFINE tt == Append(rr, r)
              f == FlattenSeq(rr)
              g == f \o r
  <2>1. /\ tt \in Seq(Seq(S)) /\ DOMAIN tt = 1..(Len(rr) + 1) /\ Len(rr) \in Nat
        /\ tt[Len(rr) + 1] = r /\ DOMAIN rr = 1..Len(rr)
        /\ \A k \in 1..Len(rr) : tt[k] = rr[k]
    OBVIOUS
  <2>2. f \in Seq(S) /\ FlattenSeq(tt) = g
    BY FlattenByPart
  <2>. HIDE DEF tt
  <2>3. SUFFICES ASSUME AllChained(tt, F, R)
                 PROVE  Chained(FlattenSeq(tt), F, R)
    BY <2>1 DEF tt
  <2>4. AllChained(rr, F, R) /\ Chained(r, F, R)
    <3>1. Len(rr) + 1 \in DOMAIN tt /\ \A k \in DOMAIN rr : k \in DOMAIN tt /\ tt[k] = rr[k]
      BY <2>1
    <3>. QED
      BY <2>1, <2>3, <3>1 DEF AllChained
  <2>5. Chained(f, F, R)
    BY <1>2, <2>4
  <2>. HIDE DEF f
  <2>6. /\ Len(f) \in Nat /\ Len(r) \in Nat /\ DOMAIN g = 1..(Len(f) + Len(r))
        /\ DOMAIN f = 1..Len(f) /\ DOMAIN r = 1..Len(r)
        /\ \A i \in 1..(Len(f) + Len(r)) : g[i] = IF i <= Len(f) THEN f[i] ELSE r[i - Len(f)]
    BY <2>2, ConcatProperties, LenProperties
  <2>. HIDE DEF g
  <2>7. ASSUME NEW n \in DOMAIN g
        PROVE  g[n] \in F \/ (n > 1 /\ <<g[n - 1], g[n]>> \in R)
    <3>1. CASE n <= Len(f)
      <4>1. n \in DOMAIN f /\ g[n] = f[n] /\ (n > 1 => n - 1 \in DOMAIN g /\ n - 1 <= Len(f))
        BY <2>6, <3>1
      <4>2. n > 1 => g[n - 1] = f[n - 1]
        BY <2>6, <4>1
      <4>. QED
        BY <2>5, <4>1, <4>2 DEF Chained
    <3>2. CASE ~(n <= Len(f))
      <4>. DEFINE j == n - Len(f)
      <4>1. /\ j \in DOMAIN r /\ g[n] = r[j] /\ j \in Nat
            /\ j > 1 => n > 1 /\ n - 1 \in DOMAIN g /\ ~(n - 1 <= Len(f)) /\ (n - 1) - Len(f) = j - 1
        BY <2>6, <3>2
      <4>2. j > 1 => g[n - 1] = r[j - 1]
        BY <2>6, <4>1
      <4>. HIDE DEF j
      <4>. QED
        BY <2>4, <4>1, <4>2 DEF Chained
    <3>. QED
      BY <3>1, <3>2
  <2>. QED
    BY <2>2, <2>7 DEF Chained
<1>3. Seq(E) \subseteq A
  <2>1. \A rr \in Seq(E), r \in E : rr \in A => Append(rr, r) \in A
    BY <1>2
  <2>. HIDE DEF A, E
  <2>. QED
    BY <1>1, <2>1, SequenceInduction
<1>. QED
  BY <1>3

\* A sequence that is not empty is its first element and the rest.
LEMMA HeadAndTail ==
  ASSUME NEW S, NEW s \in Seq(S), s # <<>>
  PROVE  Head(s) \in S /\ Tail(s) \in Seq(S) /\ s = <<Head(s)>> \o Tail(s)
<1>1. /\ Head(s) \in S /\ Tail(s) \in Seq(S) /\ Len(Tail(s)) = Len(s) - 1
      /\ \A i \in 1..Len(Tail(s)) : Tail(s)[i] = s[i + 1]
      /\ Head(s) = s[1] /\ Len(s) \in Nat
  BY HeadTailProperties
<1>. DEFINE h == <<Head(s)>>
            t == Tail(s)
            r == h \o t
<1>2. h \in Seq(S) /\ Len(h) = 1 /\ h[1] = Head(s) /\ t \in Seq(S)
  BY <1>1
<1>. HIDE DEF h
<1>3. /\ r \in Seq(S) /\ Len(r) = 1 + Len(t)
      /\ \A i \in 1..(1 + Len(t)) : r[i] = IF i <= 1 THEN h[i] ELSE t[i - 1]
  <2>. HIDE DEF t
  <2>1. /\ r \in Seq(S) /\ Len(r) = Len(h) + Len(t)
        /\ \A i \in 1..(Len(h) + Len(t)) : r[i] = IF i <= Len(h) THEN h[i] ELSE t[i - Len(h)]
    BY <1>2, ConcatProperties
  <2>. HIDE DEF r
  <2>. QED
    BY <1>2, <2>1
<1>. HIDE DEF r
<1>4. Len(s) = 1 + Len(t)
  BY <1>1
<1>5. ASSUME NEW i \in 1..Len(s)
      PROVE  r[i] = s[i]
  <2>1. CASE i = 1
    BY <1>1, <1>2, <1>3, <1>4, <2>1
  <2>2. CASE i # 1
    <3>1. i - 1 \in 1..Len(t) /\ ~(i <= 1) /\ (i - 1) + 1 = i
      BY <1>1, <1>4, <2>2
    <3>. QED
      BY <1>1, <1>3, <1>4, <3>1
  <2>. QED
    BY <2>1, <2>2
<1>6. r = s
  BY <1>3, <1>4, <1>5, SeqEqual
<1>. QED
  BY <1>1, <1>6 DEF r, h

-----------------------------------------------------------------------------
(* What FoldSet computes.  The step takes the element first.               *)

\* What holds of a finite set when it holds of the set without any one element holds of all.
THEOREM FiniteInduction ==
  ASSUME NEW E, NEW A, {} \in A,
         \A t \in SUBSET E : IsFiniteSet(t) /\ t # {} /\ (\A x \in t : t \ {x} \in A) => t \in A
  PROVE  \A t \in SUBSET E : IsFiniteSet(t) => t \in A
<1>. DEFINE S == {n \in Nat : \A t \in SUBSET E : IsFiniteSet(t) /\ Cardinality(t) = n => t \in A}
<1>1. 0 \in S
  BY FS_EmptySet
<1>2. ASSUME NEW n \in Nat, n \in S
      PROVE  n + 1 \in S
  <2>. SUFFICES ASSUME NEW t \in SUBSET E, IsFiniteSet(t), Cardinality(t) = n + 1
                PROVE  t \in A
    OBVIOUS
  <2>1. t # {}
    <3>1. n + 1 # 0
      OBVIOUS
    <3>. QED
      BY <3>1, FS_EmptySet
  <2>2. ASSUME NEW x \in t
        PROVE  t \ {x} \in A
    <3>1. IsFiniteSet(t \ {x}) /\ Cardinality(t \ {x}) = Cardinality(t) - 1
      BY FS_RemoveElement
    <3>2. (n + 1) - 1 = n
      OBVIOUS
    <3>. QED
      BY <1>2, <3>1, <3>2
  <2>. QED
    BY <2>1, <2>2
<1>3. Nat \subseteq S
  <2>. HIDE DEF S
  <2>. QED
    BY <1>1, <1>2, NumberInduction
<1>. QED
  <2>. SUFFICES ASSUME NEW t \in SUBSET E, IsFiniteSet(t)
                PROVE  t \in A
    OBVIOUS
  <2>1. Cardinality(t) \in Nat
    BY FS_CardinalityType
  <2>. QED
    BY <1>3, <2>1

\* The element that FoldSet takes first.
Pick(t) == CHOOSE x \in t : TRUE

\* It is in the set.
LEMMA PickIsIn ==
  ASSUME NEW t, t # {}
  PROVE  Pick(t) \in t
BY DEF Pick

\* The functions a fold over a set can take as its step.
SetStepOf(E, X) == [E \X X -> X]

\* g computes the fold of every part of S.
ComputesSetFold(g, step, base, S) ==
  g = [t \in SUBSET S |-> IF t = {} THEN base ELSE step[<<Pick(t), g[t \ {Pick(t)}]>>]]

\* The fold of S.
FoldedOver(step, base, S) == (CHOOSE g : ComputesSetFold(g, step, base, S))[S]

\* There is such a function.
LEMMA SetFoldExists ==
  ASSUME NEW E, NEW X, NEW S \in SUBSET E, IsFiniteSet(S), NEW base \in X, NEW step \in SetStepOf(E, X)
  PROVE  \E g \in [SUBSET S -> X] : ComputesSetFold(g, step, base, S)
<1>. DEFINE Upto(n) == {t \in SUBSET S : Cardinality(t) <= n}
            Rest(t) == t \ {Pick(t)}
            Computes(g, n) ==
              /\ g \in [Upto(n) -> X]
              /\ \A t \in Upto(n) : g[t] = IF t = {} THEN base ELSE step[<<Pick(t), g[Rest(t)]>>]
            N == {n \in Nat : \E g : Computes(g, n)}
<1>1. ASSUME NEW t \in SUBSET S
      PROVE  /\ IsFiniteSet(t) /\ Cardinality(t) \in Nat /\ Cardinality(t) <= Cardinality(S)
             /\ (Cardinality(t) = 0 <=> t = {})
             /\ t # {} => /\ Pick(t) \in S /\ Rest(t) \in SUBSET S
                          /\ Cardinality(Rest(t)) = Cardinality(t) - 1
  <2>1. IsFiniteSet(t) /\ Cardinality(t) <= Cardinality(S)
    BY FS_Subset
  <2>2. Cardinality(t) \in Nat /\ (Cardinality(t) = 0 <=> t = {})
    BY <2>1, FS_CardinalityType, FS_EmptySet
  <2>3. ASSUME t # {}
        PROVE  /\ Pick(t) \in S /\ Rest(t) \in SUBSET S
               /\ Cardinality(Rest(t)) = Cardinality(t) - 1
    <3>1. Pick(t) \in t
      BY <2>3, PickIsIn
    <3>2. Cardinality(Rest(t)) = Cardinality(t) - 1
      BY <2>1, <3>1, FS_RemoveElement
    <3>. QED
      BY <3>1, <3>2
  <2>. QED
    BY <2>1, <2>2, <2>3
<1>. HIDE DEF Rest
<1>2. 0 \in N
  <2>. DEFINE f == [t \in Upto(0) |-> base]
  <2>1. \A t \in Upto(0) : t = {}
    BY <1>1
  <2>2. Computes(f, 0)
    BY <2>1
  <2>. QED
    BY <2>2
<1>3. ASSUME NEW n \in Nat, n \in N
      PROVE  n + 1 \in N
  <2>1. PICK f : Computes(f, n)
    BY <1>3
  <2>. DEFINE g == [t \in Upto(n + 1) |-> IF Cardinality(t) <= n THEN f[t] ELSE step[<<Pick(t), f[Rest(t)]>>]]
  <2>2. ASSUME NEW t \in Upto(n + 1), t # {}
        PROVE  Rest(t) \in Upto(n) /\ Rest(t) \in Upto(n + 1) /\ Pick(t) \in E
    BY <1>1, <2>2
  <2>3. \A t \in Upto(n + 1) : Cardinality(t) <= n => t \in Upto(n)
    OBVIOUS
  <2>4. \A t \in Upto(n + 1) : ~(Cardinality(t) <= n) => t # {}
    BY <1>1
  <2>5. \A t \in Upto(n) : t \in Upto(n + 1) /\ Cardinality(t) <= n
    BY <1>1
  <2>6. f \in [Upto(n) -> X] /\ \A t \in Upto(n) : f[t] = IF t = {} THEN base ELSE step[<<Pick(t), f[Rest(t)]>>]
    BY <2>1
  <2>. HIDE DEF Upto
  <2>7. g \in [Upto(n + 1) -> X]
    BY <2>2, <2>3, <2>4, <2>6 DEF SetStepOf
  <2>8. \A t \in Upto(n) : g[t] = f[t]
    BY <2>5
  <2>9. ASSUME NEW t \in Upto(n + 1)
        PROVE  g[t] = IF t = {} THEN base ELSE step[<<Pick(t), g[Rest(t)]>>]
    <3>1. CASE Cardinality(t) <= n
      <4>1. g[t] = f[t] /\ t \in Upto(n)
        BY <2>3, <3>1
      <4>2. t # {} => g[Rest(t)] = f[Rest(t)]
        BY <2>2, <2>8
      <4>. QED
        BY <2>6, <4>1, <4>2
    <3>2. CASE ~(Cardinality(t) <= n)
      <4>1. g[t] = step[<<Pick(t), f[Rest(t)]>>] /\ t # {}
        BY <2>4, <3>2
      <4>2. g[Rest(t)] = f[Rest(t)]
        BY <2>2, <2>8, <4>1
      <4>. QED
        BY <4>1, <4>2
    <3>. QED
      BY <3>1, <3>2
  <2>. HIDE DEF g
  <2>10. Computes(g, n + 1)
    BY <2>7, <2>9
  <2>. QED
    BY <2>10
<1>4. Cardinality(S) \in N
  <2>. HIDE DEF N
  <2>1. Nat \subseteq N
    BY <1>2, <1>3, NumberInduction
  <2>. QED
    BY <2>1, FS_CardinalityType
<1>5. PICK g : Computes(g, Cardinality(S))
  BY <1>4
<1>6. Upto(Cardinality(S)) = SUBSET S
  BY <1>1
<1>7. g \in [SUBSET S -> X] /\ \A t \in SUBSET S : g[t] = IF t = {} THEN base ELSE step[<<Pick(t), g[Rest(t)]>>]
  BY <1>5, <1>6
<1>8. ComputesSetFold(g, step, base, S)
  BY <1>7 DEF ComputesSetFold, Rest
<1>. QED
  BY <1>7, <1>8

\* On the parts of S, it takes the steps of the fold as long as it stays in X.
FollowsSetFold(it, X, step, base, S) ==
  /\ it[{}] = base
  /\ \A t \in SUBSET S : t # {} /\ it[t \ {Pick(t)}] \in X => it[t] = step[<<Pick(t), it[t \ {Pick(t)}]>>]

\* Functions that do agree.
LEMMA SetFoldIsUnique ==
  ASSUME NEW E, NEW X, NEW S \in SUBSET E, IsFiniteSet(S), NEW base \in X, NEW step \in SetStepOf(E, X),
         NEW it, FollowsSetFold(it, X, step, base, S), NEW jt, FollowsSetFold(jt, X, step, base, S)
  PROVE  it[S] = jt[S] /\ it[S] \in X
<1>. DEFINE A == {t \in SUBSET S : it[t] = jt[t] /\ it[t] \in X}
<1>1. {} \in A
  BY DEF FollowsSetFold
<1>2. ASSUME NEW t \in SUBSET S, t # {}, \A x \in t : t \ {x} \in A
      PROVE  t \in A
  <2>. DEFINE r == t \ {Pick(t)}
  <2>1. Pick(t) \in t /\ Pick(t) \in E
    BY <1>2, PickIsIn
  <2>2. r \in A
    BY <1>2, <2>1
  <2>3. it[t] = step[<<Pick(t), it[r]>>] /\ jt[t] = step[<<Pick(t), jt[r]>>]
    BY <1>2, <2>2 DEF FollowsSetFold
  <2>. QED
    BY <2>1, <2>2, <2>3 DEF SetStepOf
<1>3. S \in A
  <2>. HIDE DEF A
  <2>. QED
    BY <1>1, <1>2, FiniteInduction
<1>. QED
  BY <1>3

\* The fold of S is what they compute.
LEMMA FoldedOverIs ==
  ASSUME NEW E, NEW X, NEW S \in SUBSET E, IsFiniteSet(S), NEW base \in X, NEW step \in SetStepOf(E, X),
         NEW it, FollowsSetFold(it, X, step, base, S)
  PROVE  it[S] = FoldedOver(step, base, S) /\ it[S] \in X
<1>. DEFINE g == CHOOSE g : ComputesSetFold(g, step, base, S)
<1>1. ComputesSetFold(g, step, base, S)
  BY SetFoldExists
<1>. HIDE DEF g
<1>2. FollowsSetFold(g, X, step, base, S)
  BY <1>1 DEF ComputesSetFold, FollowsSetFold
<1>3. it[S] = g[S] /\ it[S] \in X
  BY <1>2, SetFoldIsUnique
<1>. QED
  BY <1>3 DEF g, FoldedOver

\* The fold of nothing is the base; that of more is a step from the fold without the element taken first.
LEMMA FoldedOverTakes ==
  ASSUME NEW E, NEW X, NEW S \in SUBSET E, IsFiniteSet(S), NEW base \in X, NEW step \in SetStepOf(E, X)
  PROVE  /\ FoldedOver(step, base, S) \in X
         /\ S = {} => FoldedOver(step, base, S) = base
         /\ S # {} => FoldedOver(step, base, S) = step[<<Pick(S), FoldedOver(step, base, S \ {Pick(S)})>>]
<1>1. PICK g \in [SUBSET S -> X] : ComputesSetFold(g, step, base, S)
  BY SetFoldExists
<1>2. \A t \in SUBSET S : g[t] = IF t = {} THEN base ELSE step[<<Pick(t), g[t \ {Pick(t)}]>>]
  BY <1>1 DEF ComputesSetFold
<1>3. FollowsSetFold(g, X, step, base, S)
  BY <1>2 DEF FollowsSetFold
<1>4. g[S] = FoldedOver(step, base, S) /\ g[S] \in X
  BY <1>3, FoldedOverIs
<1>. DEFINE r == S \ {Pick(S)}
<1>5. FollowsSetFold(g, X, step, base, r)
  BY <1>2 DEF FollowsSetFold
<1>6. r \in SUBSET E /\ IsFiniteSet(r)
  BY FS_RemoveElement
<1>. HIDE DEF r
<1>7. g[r] = FoldedOver(step, base, r)
  BY <1>5, <1>6, FoldedOverIs
<1>. QED
  BY <1>2, <1>4, <1>7 DEF r

\* Two steps that can change places.
Commutes(step, E, X) ==
  \A x, y \in E : \A v \in X : step[<<x, step[<<y, v>>]>>] = step[<<y, step[<<x, v>>]>>]

\* With such steps any element can be the first.
LEMMA AnyCanBeFirst ==
  ASSUME NEW E, NEW X, NEW S \in SUBSET E, IsFiniteSet(S), NEW base \in X, NEW step \in SetStepOf(E, X),
         Commutes(step, E, X), NEW y \in S
  PROVE  FoldedOver(step, base, S) = step[<<y, FoldedOver(step, base, S \ {y})>>]
<1>0. \A t \in SUBSET E : IsFiniteSet(t) /\ t # {} =>
        FoldedOver(step, base, t) = step[<<Pick(t), FoldedOver(step, base, t \ {Pick(t)})>>]
  <2>. SUFFICES ASSUME NEW t \in SUBSET E, IsFiniteSet(t), t # {}
                PROVE  FoldedOver(step, base, t) = step[<<Pick(t), FoldedOver(step, base, t \ {Pick(t)})>>]
    OBVIOUS
  <2>1. /\ FoldedOver(step, base, t) \in X
        /\ t = {} => FoldedOver(step, base, t) = base
        /\ t # {} => FoldedOver(step, base, t) = step[<<Pick(t), FoldedOver(step, base, t \ {Pick(t)})>>]
    BY FoldedOverTakes
  <2>. QED
    BY <2>1
<1>. DEFINE F(t) == FoldedOver(step, base, t)
            A == {t \in SUBSET E : \A x \in t : F(t) = step[<<x, F(t \ {x})>>]}
<1>1. {} \in A
  OBVIOUS
<1>2. ASSUME NEW t \in SUBSET E, IsFiniteSet(t), t # {}, \A x \in t : t \ {x} \in A
      PROVE  t \in A
  <2>. SUFFICES ASSUME NEW x \in t
                PROVE  F(t) = step[<<x, F(t \ {x})>>]
    OBVIOUS
  <2>. DEFINE p == Pick(t)
  <2>1. p \in t /\ p \in E /\ x \in E
    BY PickIsIn
  <2>2. F(t) = step[<<p, F(t \ {p})>>]
    BY <1>0, <1>2
  <2>. HIDE DEF p
  <2>3. CASE x = p
    BY <2>2, <2>3
  <2>4. CASE x # p
    <3>1. t \ {p} \in A /\ t \ {x} \in A /\ x \in t \ {p} /\ p \in t \ {x}
      BY <1>2, <2>1, <2>4
    <3>2. (t \ {p}) \ {x} = (t \ {x}) \ {p}
      OBVIOUS
    <3>. DEFINE r == (t \ {x}) \ {p}
    <3>3. F(t \ {p}) = step[<<x, F(r)>>] /\ F(t \ {x}) = step[<<p, F(r)>>]
      <4>. HIDE DEF F
      <4>1. \A u \in A, e \in E : e \in u => F(u) = step[<<e, F(u \ {e})>>]
        OBVIOUS
      <4>. HIDE DEF A
      <4>2. F(t \ {p}) = step[<<x, F((t \ {p}) \ {x})>>]
        BY <2>1, <3>1, <4>1
      <4>3. F(t \ {x}) = step[<<p, F((t \ {x}) \ {p})>>]
        BY <2>1, <3>1, <4>1
      <4>. QED
        BY <3>2, <4>2, <4>3
    <3>4. F(r) \in X
      <4>1. r \in SUBSET E /\ IsFiniteSet(r)
        BY <1>2, FS_RemoveElement
      <4>. HIDE DEF r
      <4>. QED
        BY <4>1, FoldedOverTakes
    <3>. HIDE DEF F, r
    <3>. QED
      BY <2>1, <2>2, <3>3, <3>4 DEF Commutes
  <2>. QED
    BY <2>3, <2>4
<1>3. S \in A
  <2>. HIDE DEF A
  <2>. QED
    BY <1>1, <1>2, FiniteInduction
<1>. QED
  BY <1>3

\* What follows ends the whole.
LEMMA LastOfConcat ==
  ASSUME NEW S, NEW a \in Seq(S), NEW b \in Seq(S), b # <<>>
  PROVE  a \o b \in Seq(S) /\ a \o b # <<>> /\ Last(a \o b) = Last(b)
<1>. DEFINE c == a \o b
<1>1. /\ c \in Seq(S) /\ Len(c) = Len(a) + Len(b)
      /\ \A i \in 1..(Len(a) + Len(b)) : c[i] = IF i <= Len(a) THEN a[i] ELSE b[i - Len(a)]
  BY ConcatProperties
<1>2. Len(a) \in Nat /\ Len(b) \in Nat \ {0} /\ Last(b) = b[Len(b)]
  <2>1. Len(b) \in Nat \ {0} /\ Last(b) = b[Len(b)]
    BY FrontAndLast
  <2>. QED
    BY <2>1
<1>. HIDE DEF c
<1>3. c # <<>>
  BY <1>1, <1>2
<1>4. Last(c) = c[Len(c)]
  BY <1>1, <1>3, FrontAndLast
<1>5. /\ Len(a) + Len(b) \in 1..(Len(a) + Len(b)) /\ ~(Len(a) + Len(b) <= Len(a))
      /\ (Len(a) + Len(b)) - Len(a) = Len(b)
  BY <1>2
<1>6. c[Len(c)] = b[Len(b)]
  BY <1>1, <1>5
<1>. QED
  BY <1>1, <1>2, <1>3, <1>4, <1>6 DEF c

=============================================================================
