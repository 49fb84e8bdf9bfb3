--------------------------- MODULE EvaluationProofs ---------------------------
(***************************************************************************)
(* Proof that a readable pointer leads to a complete summary, that a       *)
(* complete summary accounts for every case, and that a report blames a    *)
(* run for nothing, and credits it with nothing, that its answers did not  *)
(* do: for every number of instances and of benchmarks, and whatever the   *)
(* datasets hold and the pipeline answers.                                 *)
(***************************************************************************)
EXTENDS Evaluation, SequenceFolds

\* Where an instance may be in a benchmark.
Steps == {"idle", "find_latest", "load_latest", "run", "save", "saving", "mark", "marking",
          "benchmark.md", "benchmark.html"}

\* What latest.json may hold.
Pointers == {Absent, Torn} \cup Runs

\* The values of the variables that the argument is about.
Types ==
  /\ pc \in [Instances -> Steps] /\ run \in [Instances -> 0..MaxRuns]
  /\ dataset \in [Instances -> {<<>>} \cup Datasets]
  /\ baseline \in [Instances -> 0..MaxRuns] /\ at \in [Instances -> Nat \ {0}]
  /\ DOMAIN results = Instances /\ DOMAIN failures = Instances
  /\ started \in 0..MaxRuns
  /\ DOMAIN summaries = Runs /\ latest \in Pointers

\* The instance runs a benchmark.
Busy(i) == pc[i] # "idle"

\* No two benchmarks that are under way have the same id.
RunsAreOwned ==
  /\ \A i \in Instances : Busy(i) => run[i] \in 1..started
  /\ \A i, j \in Instances : Busy(i) /\ Busy(j) /\ run[i] = run[j] => i = j

\* The cases an instance has looked at.
Seen(i) == {dataset[i][k] : k \in 1..(at[i] - 1)}

\* Every case an instance has looked at has one result or one failure.
AccountedSoFar(i) ==
  /\ dataset[i] \in Datasets /\ IsValid(dataset[i])
  /\ at[i] \in 1..(Len(dataset[i]) + 1)
  /\ IsFiniteSet(results[i]) /\ IsFiniteSet(failures[i])
  /\ results[i] \subseteq Range(dataset[i]) \X Answers /\ failures[i] \subseteq Range(dataset[i])
  /\ {r[1] : r \in results[i]} \cup failures[i] = Seen(i)
  /\ Cardinality(results[i]) + Cardinality(failures[i]) = at[i] - 1
  /\ pc[i] \in {"save", "saving"} => at[i] = Len(dataset[i]) + 1

\* No instance loses a case.
CasesAreAccounted == \A i \in Instances : Busy(i) => AccountedSoFar(i)

\* Where an instance has not begun to write the summary of its run.
Before == {"find_latest", "load_latest", "run", "save"}

\* A summary is there when its run has written it.
SummariesFollowRuns ==
  /\ \A r \in Runs : r > started => summaries[r] = Absent
  /\ \A i \in Instances :
       /\ pc[i] \in Before => summaries[run[i]] = Absent
       /\ pc[i] = "saving" => summaries[run[i]] = Torn
       /\ pc[i] \in {"mark", "marking"} => summaries[run[i]] \notin {Absent, Torn}
       /\ pc[i] = "load_latest" => baseline[i] \in Runs

\* The inductive invariant.
LatestInvariant ==
  Types /\ RunsAreOwned /\ CasesAreAccounted /\ SummariesFollowRuns /\ LatestIsComplete

-----------------------------------------------------------------------------
(* Types and run ids.                                                      *)

\* Every step keeps the types.
LEMMA StepsAreTyped ==
  ASSUME Types, RunsAreOwned, [Next]_vars
  PROVE  Types'
<1>. USE BoundIsPositive DEF Types, Steps, Goto, Runs, disk, local
<1>1. CASE UNCHANGED vars
  BY <1>1 DEF vars
<1>2. ASSUME NEW i \in Instances, LoadDataset(i)
      PROVE  Types'
  <2>1. /\ started' \in 0..MaxRuns /\ run' \in [Instances -> 0..MaxRuns]
        /\ UNCHANGED <<summaries, latest>>
    BY <1>2 DEF LoadDataset
  <2>2. /\ dataset' \in [Instances -> {<<>>} \cup Datasets] /\ baseline' \in [Instances -> 0..MaxRuns]
        /\ at' \in [Instances -> Nat \ {0}] /\ pc' \in [Instances -> Steps]
    BY <1>2 DEF LoadDataset
  <2>3. DOMAIN results' = Instances /\ DOMAIN failures' = Instances
    BY <1>2 DEF LoadDataset
  <2>. QED
    BY <2>1, <2>2, <2>3
<1>3. ASSUME NEW i \in Instances, FindLatest(i)
      PROVE  Types'
  <2>1. baseline' \in [Instances -> 0..MaxRuns]
    <3>1. baseline' = baseline \/ (latest \in 0..MaxRuns /\ baseline' = [baseline EXCEPT ![i] = latest])
      BY <1>3 DEF FindLatest
    <3>. QED
      BY <3>1
  <2>2. pc' \in [Instances -> Steps]
    BY <1>3 DEF FindLatest
  <2>. QED
    BY <1>3, <2>1, <2>2 DEF FindLatest
<1>4. ASSUME NEW i \in Instances, LoadLatest(i)
      PROVE  Types'
  BY <1>4 DEF LoadLatest
<1>5. ASSUME NEW i \in Instances, CompleteCase(i)
      PROVE  Types'
  <2>1. at' \in [Instances -> Nat \ {0}]
    BY <1>5 DEF CompleteCase
  <2>2. DOMAIN results' = Instances
    BY <1>5 DEF CompleteCase
  <2>. QED
    BY <1>5, <2>1, <2>2 DEF CompleteCase
<1>6. ASSUME NEW i \in Instances, FailCase(i)
      PROVE  Types'
  <2>1. at' \in [Instances -> Nat \ {0}]
    BY <1>6 DEF FailCase
  <2>2. DOMAIN failures' = Instances
    BY <1>6 DEF FailCase
  <2>. QED
    BY <1>6, <2>1, <2>2 DEF FailCase
<1>7. ASSUME NEW i \in Instances, Finish(i)
      PROVE  Types'
  BY <1>7 DEF Finish
<1>8. ASSUME NEW i \in Instances, SaveSummary(i)
      PROVE  Types'
  <2>1. run[i] \in Runs
    BY <1>8 DEF SaveSummary, RunsAreOwned, Busy
  <2>2. pc' \in [Instances -> Steps] /\ DOMAIN summaries' = Runs
    BY <1>8 DEF SaveSummary
  <2>3. latest' \in Pointers
    <3>1. Torn \in Pointers /\ run[i] \in Pointers
      BY <2>1, Zenon DEF Pointers
    <3>. QED
      BY <1>8, <3>1 DEF SaveSummary
  <2>. QED
    BY <1>8, <2>2, <2>3 DEF SaveSummary
<1>9. ASSUME NEW i \in Instances, SaveReport(i)
      PROVE  Types'
  BY <1>9 DEF SaveReport, Reports
<1>10. ASSUME NEW i \in Instances, End(i)
       PROVE  Types'
  BY <1>10 DEF End
<1>. QED
  BY <1>1, <1>2, <1>3, <1>4, <1>5, <1>6, <1>7, <1>8, <1>9, <1>10 DEF Next

\* A new id is greater than those given out before.
LEMMA RunsStayOwned ==
  ASSUME Types, RunsAreOwned, [Next]_vars
  PROVE  RunsAreOwned'
<1>. USE DEF Types, RunsAreOwned, Busy
<1>1. ASSUME NEW i \in Instances, LoadDataset(i)
      PROVE  RunsAreOwned'
  <2>1. /\ started' = started + 1 /\ started \in Nat /\ run'[i] = started'
        /\ \A j \in Instances \ {i} : run'[j] = run[j] /\ pc'[j] = pc[j] /\ run[j] \in Nat
    BY <1>1, BoundIsPositive DEF LoadDataset, Goto
  <2>2. ASSUME NEW j \in Instances, Busy(j)'
        PROVE  run'[j] \in 1..started'
    <3>1. CASE j = i
      BY <2>1, <3>1
    <3>2. CASE j # i
      <4>1. run'[j] \in 1..started
        BY <2>1, <2>2, <3>2
      <4>. QED
        BY <2>1, <4>1
    <3>. QED
      BY <3>1, <3>2
  <2>3. \A j \in Instances \ {i} : Busy(j)' => run'[j] # run'[i]
    BY <2>1
  <2>. QED
    BY <2>1, <2>2, <2>3
<1>2. ASSUME NEW i \in Instances, run' = run, started' = started, Busy(i),
             \A j \in Instances \ {i} : pc'[j] = pc[j]
      PROVE  RunsAreOwned'
  BY <1>2
<1>3. ASSUME NEW i \in Instances, ~LoadDataset(i),
             \/ FindLatest(i) \/ LoadLatest(i) \/ CompleteCase(i) \/ FailCase(i) \/ Finish(i)
             \/ SaveSummary(i) \/ SaveReport(i) \/ End(i)
      PROVE  RunsAreOwned'
  <2>1. run' = run /\ started' = started
    BY <1>3 DEF FindLatest, LoadLatest, CompleteCase, FailCase, Finish, SaveSummary, SaveReport, End,
       local
  <2>2. Busy(i)
    BY <1>3 DEF FindLatest, LoadLatest, CompleteCase, FailCase, Running, Finish, SaveSummary,
       SaveReport, Reports, End
  <2>3. \A j \in Instances \ {i} : pc'[j] = pc[j]
    BY <1>3 DEF FindLatest, LoadLatest, CompleteCase, FailCase, Finish, SaveSummary, SaveReport, End,
       Goto
  <2>. QED
    BY <1>2, <2>1, <2>2, <2>3
<1>4. CASE UNCHANGED vars
  BY <1>4 DEF vars, local
<1>. QED
  BY <1>1, <1>3, <1>4 DEF Next

-----------------------------------------------------------------------------
(* Cases.                                                                  *)

\* What an instance has counted stands while it looks at no case.
LEMMA CountedStands ==
  ASSUME NEW i \in Instances, AccountedSoFar(i),
         dataset'[i] = dataset[i], at'[i] = at[i],
         results'[i] = results[i], failures'[i] = failures[i],
         pc'[i] \in {"save", "saving"} => at[i] = Len(dataset[i]) + 1
  PROVE  AccountedSoFar(i)'
<1>1. Seen(i)' = Seen(i)
  BY DEF Seen
<1>2. {r[1] : r \in results'[i]} = {r[1] : r \in results[i]}
  OBVIOUS
<1>. QED
  BY <1>1, <1>2 DEF AccountedSoFar

\* Nothing has been counted when the dataset is loaded.
LEMMA CountBegins ==
  ASSUME Types, NEW i \in Instances, LoadDataset(i)
  PROVE  AccountedSoFar(i)'
<1>1. /\ dataset'[i] \in Datasets /\ IsValid(dataset'[i])
      /\ at'[i] = 1 /\ results'[i] = {} /\ failures'[i] = {} /\ pc'[i] = "find_latest"
  BY DEF LoadDataset, Goto, Types
<1>2. Len(dataset'[i]) \in Nat
  BY <1>1, DatasetsAreSequences, LenProperties
<1>3. Seen(i)' = {}
  BY <1>1 DEF Seen
<1>4. {r[1] : r \in results'[i]} = {}
  BY <1>1
<1>. QED
  BY <1>1, <1>2, <1>3, <1>4, FS_EmptySet DEF AccountedSoFar

\* The next case is not among those seen, as no case is in the dataset twice.
LEMMA NextCase ==
  ASSUME Types, NEW i \in Instances, AccountedSoFar(i), Running(i)
  PROVE  /\ at[i] \in DOMAIN dataset[i] /\ dataset[i][at[i]] \in Range(dataset[i])
         /\ dataset[i][at[i]] \notin Seen(i)
         /\ at[i] + 1 \in 1..(Len(dataset[i]) + 1)
         /\ {dataset[i][k] : k \in 1..at[i]} = Seen(i) \cup {dataset[i][at[i]]}
<1>1. /\ Len(dataset[i]) \in Nat /\ DOMAIN dataset[i] = 1..Len(dataset[i])
      /\ at[i] \in Nat \ {0} /\ at[i] <= Len(dataset[i])
  BY DatasetsAreSequences, LenProperties DEF AccountedSoFar, Running, Types
<1>2. at[i] \in DOMAIN dataset[i] /\ at[i] + 1 \in 1..(Len(dataset[i]) + 1)
  BY <1>1
<1>3. dataset[i][at[i]] \in Range(dataset[i])
  BY <1>2 DEF Range
<1>4. \A k \in 1..(at[i] - 1) : k \in DOMAIN dataset[i] /\ k # at[i]
  BY <1>1
<1>5. dataset[i][at[i]] \notin Seen(i)
  BY <1>2, <1>4 DEF Seen, AccountedSoFar, IsValid, IsInjective
<1>6. 1..at[i] = 1..(at[i] - 1) \cup {at[i]}
  BY <1>1
<1>7. {dataset[i][k] : k \in 1..at[i]} = Seen(i) \cup {dataset[i][at[i]]}
  BY <1>6, Zenon DEF Seen
<1>. QED
  BY <1>2, <1>3, <1>5, <1>7

\* A completed case adds one result.
LEMMA CompletedIsCounted ==
  ASSUME Types, NEW i \in Instances, AccountedSoFar(i), CompleteCase(i)
  PROVE  AccountedSoFar(i)'
<1> DEFINE c == dataset[i][at[i]]
<1>1. PICK a \in Answers : results' = [results EXCEPT ![i] = @ \cup {<<c, a>>}]
  BY DEF CompleteCase
<1>2. /\ Running(i) /\ at'[i] = at[i] + 1 /\ results'[i] = results[i] \cup {<<c, a>>}
      /\ dataset' = dataset /\ failures' = failures /\ pc' = pc /\ pc[i] = "run"
  BY <1>1 DEF CompleteCase, Types, Running
<1>3. /\ c \in Range(dataset[i]) /\ c \notin Seen(i) /\ at[i] + 1 \in 1..(Len(dataset[i]) + 1)
      /\ {dataset[i][k] : k \in 1..at[i]} = Seen(i) \cup {c}
  BY <1>2, NextCase
<1>4. Seen(i)' = Seen(i) \cup {c}
  <2>1. at'[i] - 1 = at[i] /\ dataset'[i] = dataset[i]
    BY <1>2 DEF Types
  <2>2. Seen(i)' = {dataset[i][k] : k \in 1..at[i]}
    BY <2>1, Zenon DEF Seen
  <2>. QED
    BY <1>3, <2>2
<1>5. <<c, a>> \notin results[i]
  <2>1. <<c, a>>[1] = c
    OBVIOUS
  <2>. QED
    BY <1>3, <2>1 DEF AccountedSoFar
<1>6. /\ IsFiniteSet(results'[i]) /\ Cardinality(results'[i]) = Cardinality(results[i]) + 1
      /\ Cardinality(results[i]) \in Nat /\ Cardinality(failures[i]) \in Nat
  <2>1. IsFiniteSet(results[i]) /\ IsFiniteSet(failures[i])
    BY DEF AccountedSoFar
  <2>. HIDE DEF c
  <2>. QED
    BY <1>2, <1>5, <2>1, FS_AddElement, FS_CardinalityType
<1>7. {r[1] : r \in results'[i]} = {r[1] : r \in results[i]} \cup {c}
  <2>1. <<c, a>>[1] = c
    OBVIOUS
  <2>. QED
    BY <1>2, <2>1, Zenon
<1>8. results'[i] \subseteq Range(dataset[i]) \X Answers
  BY <1>2, <1>3 DEF AccountedSoFar
<1>9. Cardinality(results'[i]) + Cardinality(failures[i]) = at'[i] - 1
  BY <1>2, <1>6 DEF AccountedSoFar, Types
<1>10. {r[1] : r \in results'[i]} \cup failures[i] = Seen(i) \cup {c}
  BY <1>7 DEF AccountedSoFar
<1>. HIDE DEF c
<1>. QED
  BY <1>2, <1>3, <1>4, <1>6, <1>8, <1>9, <1>10 DEF AccountedSoFar

\* A case that failed adds one failure.
LEMMA FailedIsCounted ==
  ASSUME Types, NEW i \in Instances, AccountedSoFar(i), FailCase(i)
  PROVE  AccountedSoFar(i)'
<1> DEFINE c == dataset[i][at[i]]
<1>2. /\ Running(i) /\ at'[i] = at[i] + 1 /\ failures'[i] = failures[i] \cup {c}
      /\ dataset' = dataset /\ results' = results /\ pc' = pc /\ pc[i] = "run"
  BY DEF FailCase, Types, Running
<1>3. /\ c \in Range(dataset[i]) /\ c \notin Seen(i) /\ at[i] + 1 \in 1..(Len(dataset[i]) + 1)
      /\ {dataset[i][k] : k \in 1..at[i]} = Seen(i) \cup {c}
  BY <1>2, NextCase
<1>4. Seen(i)' = Seen(i) \cup {c}
  <2>1. at'[i] - 1 = at[i] /\ dataset'[i] = dataset[i]
    BY <1>2 DEF Types
  <2>2. Seen(i)' = {dataset[i][k] : k \in 1..at[i]}
    BY <2>1, Zenon DEF Seen
  <2>. QED
    BY <1>3, <2>2
<1>5. c \notin failures[i]
  BY <1>3 DEF AccountedSoFar
<1>6. /\ IsFiniteSet(failures'[i]) /\ Cardinality(failures'[i]) = Cardinality(failures[i]) + 1
      /\ Cardinality(results[i]) \in Nat /\ Cardinality(failures[i]) \in Nat
  <2>1. IsFiniteSet(results[i]) /\ IsFiniteSet(failures[i])
    BY DEF AccountedSoFar
  <2>. HIDE DEF c
  <2>. QED
    BY <1>2, <1>5, <2>1, FS_AddElement, FS_CardinalityType
<1>8. failures'[i] \subseteq Range(dataset[i])
  BY <1>2, <1>3 DEF AccountedSoFar
<1>9. Cardinality(results[i]) + Cardinality(failures'[i]) = at'[i] - 1
  BY <1>2, <1>6 DEF AccountedSoFar, Types
<1>10. {r[1] : r \in results[i]} \cup failures'[i] = Seen(i) \cup {c}
  BY <1>2 DEF AccountedSoFar
<1>. HIDE DEF c
<1>. QED
  BY <1>2, <1>3, <1>4, <1>6, <1>8, <1>9, <1>10 DEF AccountedSoFar

\* Every step keeps the count: it counts a case, or leaves cases and count alone.
LEMMA CasesStayAccounted ==
  ASSUME Types, RunsAreOwned, CasesAreAccounted, [Next]_vars
  PROVE  CasesAreAccounted'
<1>1. ASSUME NEW i \in Instances,
             \/ LoadDataset(i) \/ FindLatest(i) \/ LoadLatest(i)
             \/ CompleteCase(i) \/ FailCase(i) \/ Finish(i)
             \/ SaveSummary(i) \/ SaveReport(i) \/ End(i),
             NEW j \in Instances \ {i}, Busy(j)'
      PROVE  AccountedSoFar(j)'
  <2>1. /\ dataset'[j] = dataset[j] /\ at'[j] = at[j] /\ pc'[j] = pc[j]
        /\ results'[j] = results[j] /\ failures'[j] = failures[j]
    BY <1>1 DEF Types, LoadDataset, FindLatest, LoadLatest, CompleteCase, FailCase, Finish,
       SaveSummary, SaveReport, End, Goto, local
  <2>2. AccountedSoFar(j)
    BY <1>1, <2>1 DEF CasesAreAccounted, Busy
  <2>3. pc'[j] \in {"save", "saving"} => at[j] = Len(dataset[j]) + 1
    BY <2>1, <2>2 DEF AccountedSoFar
  <2>. QED
    BY <2>1, <2>2, <2>3, CountedStands
<1>2. ASSUME NEW i \in Instances,
             \/ LoadDataset(i) \/ FindLatest(i) \/ LoadLatest(i)
             \/ CompleteCase(i) \/ FailCase(i) \/ Finish(i)
             \/ SaveSummary(i) \/ SaveReport(i) \/ End(i),
             Busy(i)'
      PROVE  AccountedSoFar(i)'
  <2>1. CASE LoadDataset(i)
    BY <2>1, CountBegins
  <2>2. Busy(i) => AccountedSoFar(i)
    BY DEF CasesAreAccounted
  <2>3. CASE CompleteCase(i)
    BY <2>2, <2>3, CompletedIsCounted DEF CompleteCase, Running, Busy
  <2>4. CASE FailCase(i)
    BY <2>2, <2>4, FailedIsCounted DEF FailCase, Running, Busy
  <2>5. CASE FindLatest(i) \/ LoadLatest(i) \/ Finish(i) \/ SaveSummary(i) \/ SaveReport(i) \/ End(i)
    <3>1. Busy(i) /\ dataset' = dataset /\ at' = at /\ results' = results /\ failures' = failures
      BY <2>5 DEF FindLatest, LoadLatest, Finish, SaveSummary, SaveReport, Reports, End, local, Busy
    <3>2. AccountedSoFar(i) /\ at[i] \in 1..(Len(dataset[i]) + 1) /\ Len(dataset[i]) \in Nat
      BY <2>2, <3>1, DatasetsAreSequences, LenProperties DEF AccountedSoFar
    <3>3. ASSUME pc'[i] \in {"save", "saving"}
          PROVE  at[i] = Len(dataset[i]) + 1
      <4>1. Finish(i) \/ (SaveSummary(i) /\ pc[i] = "save")
        BY <2>5, <3>3, <1>2 DEF FindLatest, LoadLatest, SaveSummary, SaveReport, Reports, End, Goto,
           Types, Busy
      <4>. QED
        BY <3>2, <4>1 DEF Finish, AccountedSoFar
    <3>. QED
      BY <3>1, <3>2, <3>3, CountedStands
  <2>. QED
    BY <1>2, <2>1, <2>3, <2>4, <2>5
<1>3. CASE UNCHANGED vars
  BY <1>3, CountedStands DEF vars, local, CasesAreAccounted, Busy, AccountedSoFar
<1>. QED
  BY <1>1, <1>2, <1>3 DEF Next, CasesAreAccounted

-----------------------------------------------------------------------------
(* Files.                                                                  *)

\* Nobody's summary is a state of a file.
LEMMA SummariesAreNoStates ==
  ASSUME NEW i \in Instances, AccountedSoFar(i)
  PROVE  Summary(i) \notin {Absent, Torn}
<1>1. results[i] \in SUBSET (Range(dataset[i]) \X Answers) /\ failures[i] \in SUBSET Range(dataset[i])
  BY DEF AccountedSoFar
<1>2. Summary(i) \in [dataset: {dataset[i]}, results: SUBSET (Range(dataset[i]) \X Answers),
                      failures: SUBSET Range(dataset[i])]
  BY <1>1, Zenon DEF Summary
<1>3. Summary(i) \in Summaries
  BY <1>2, Zenon DEF Summaries, AccountedSoFar
<1>. QED
  BY <1>3, FileStatesAreDistinct, Zenon

\* A summary accounts for every case when all have been looked at.
LEMMA SummariesAreAccounted ==
  ASSUME Types, NEW i \in Instances, AccountedSoFar(i), pc[i] = "saving"
  PROVE  IsAccounted(Summary(i))
<1>1. at[i] = Len(dataset[i]) + 1 /\ Len(dataset[i]) \in Nat /\ DOMAIN dataset[i] = 1..Len(dataset[i])
  BY DatasetsAreSequences, LenProperties DEF AccountedSoFar
<1>2. at[i] - 1 = Len(dataset[i])
  BY <1>1
<1>3. Seen(i) = Range(dataset[i])
  BY <1>1, <1>2, Zenon DEF Seen, Range
<1>4. /\ Summary(i).dataset = dataset[i] /\ Summary(i).results = results[i]
      /\ Summary(i).failures = failures[i]
  BY DEF Summary
<1>5. {r[1] : r \in Summary(i).results} = {r[1] : r \in results[i]}
  BY <1>4, Zenon
<1>. QED
  BY <1>2, <1>3, <1>4, <1>5 DEF IsAccounted, AccountedSoFar

\* What a step does to the summaries: it changes its own run's, and only while
\* that is nothing that a reader relies on.
LEMMA SummariesKeepFollowing ==
  ASSUME LatestInvariant, [Next]_vars
  PROVE  SummariesFollowRuns'
<1>. USE DEF LatestInvariant
<1>1. CASE UNCHANGED vars
  BY <1>1 DEF vars, local, disk, SummariesFollowRuns
<1>2. ASSUME NEW i \in Instances, LoadDataset(i)
      PROVE  SummariesFollowRuns'
  <2>1. /\ started' = started + 1 /\ started' \in Runs /\ started \in Nat
        /\ run'[i] = started' /\ pc'[i] = "find_latest" /\ summaries' = summaries
        /\ \A j \in Instances \ {i} : run'[j] = run[j] /\ pc'[j] = pc[j] /\ baseline'[j] = baseline[j]
    BY <1>2, BoundIsPositive DEF LoadDataset, Goto, Types, Runs, disk
  <2>2. \A r \in Runs : r > started => summaries[r] = Absent
    BY DEF SummariesFollowRuns
  <2>3. \A r \in Runs : r > started' => summaries'[r] = Absent
    BY <2>1, <2>2 DEF Runs
  <2>4. summaries'[run'[i]] = Absent
    BY <2>1, <2>2
  <2>. QED
    BY <2>1, <2>3, <2>4 DEF SummariesFollowRuns
<1>3. ASSUME NEW i \in Instances,
             \/ FindLatest(i) \/ LoadLatest(i) \/ CompleteCase(i) \/ FailCase(i) \/ Finish(i)
             \/ SaveReport(i) \/ End(i)
      PROVE  SummariesFollowRuns'
  <2>1. run' = run /\ started' = started /\ summaries' = summaries
    BY <1>3 DEF FindLatest, LoadLatest, CompleteCase, FailCase, Finish, SaveReport, End, local, disk
  <2>2. /\ \A j \in Instances \ {i} : pc'[j] = pc[j] /\ baseline'[j] = baseline[j]
        /\ pc'[i] \in Before => pc[i] \in Before
        /\ pc'[i] \notin {"saving", "mark", "marking"}
        /\ pc'[i] = "load_latest" => baseline'[i] \in Runs
    BY <1>3 DEF FindLatest, LoadLatest, CompleteCase, FailCase, Running, Finish, SaveReport, Reports,
       End, Goto, Before, Types, local
  <2>. QED
    BY <2>1, <2>2 DEF SummariesFollowRuns
<1>4. ASSUME NEW i \in Instances, SaveSummary(i)
      PROVE  SummariesFollowRuns'
  <2>1. /\ run' = run /\ started' = started /\ Busy(i) /\ run[i] \in Runs /\ run[i] <= started
        /\ \A j \in Instances \ {i} : pc'[j] = pc[j]
        /\ baseline' = baseline
        /\ pc'[i] \in {"saving", "mark", "marking", "benchmark.md"}
    BY <1>4, BoundIsPositive DEF SaveSummary, Goto, Types, RunsAreOwned, Busy, local, Runs
  <2>2. \A j \in Instances \ {i} : pc'[j] # "idle" => run[j] # run[i]
    BY <2>1 DEF RunsAreOwned, Busy
  <2>3. \A r \in Runs \ {run[i]} : summaries'[r] = summaries[r]
    BY <1>4 DEF SaveSummary, Types
  <2>4. /\ pc'[i] = "saving" => summaries'[run[i]] = Torn
        /\ pc'[i] \in {"mark", "marking"} => summaries'[run[i]] \notin {Absent, Torn}
    <3>1. Summary(i) \notin {Absent, Torn}
      BY <2>1, SummariesAreNoStates DEF CasesAreAccounted
    <3>2. /\ pc'[i] = "saving" => summaries'[run[i]] = Torn
          /\ pc'[i] = "mark" => summaries'[run[i]] = Summary(i)
          /\ pc'[i] = "marking" => pc[i] = "mark" /\ summaries'[run[i]] = summaries[run[i]]
      BY <1>4, <2>1 DEF SaveSummary, Goto, Types
    <3>3. pc[i] = "mark" => summaries[run[i]] \notin {Absent, Torn}
      BY DEF SummariesFollowRuns
    <3>. QED
      BY <3>1, <3>2, <3>3
  <2>5. \A r \in Runs : r > started => r # run[i] /\ summaries[r] = Absent
    BY <2>1, BoundIsPositive DEF SummariesFollowRuns, Types, Runs
  <2>6. ASSUME NEW j \in Instances \ {i}
        PROVE  /\ pc'[j] \in Before => summaries'[run[j]] = Absent
               /\ pc'[j] = "saving" => summaries'[run[j]] = Torn
               /\ pc'[j] \in {"mark", "marking"} => summaries'[run[j]] \notin {Absent, Torn}
               /\ pc'[j] = "load_latest" => baseline[j] \in Runs
    <3>1. pc'[j] # "idle" => run[j] \in Runs \ {run[i]}
      BY <2>1, <2>2, BoundIsPositive DEF RunsAreOwned, Busy, Types, Runs
    <3>2. pc'[j] = pc[j] /\ (pc'[j] # "idle" => summaries'[run[j]] = summaries[run[j]])
      BY <2>1, <2>3, <3>1
    <3>. QED
      BY <3>2 DEF SummariesFollowRuns, Before
  <2>7. pc'[i] \notin Before
    BY <2>1 DEF Before
  <2>. QED
    BY <2>1, <2>3, <2>4, <2>5, <2>6, <2>7 DEF SummariesFollowRuns
<1>. QED
  BY <1>1, <1>2, <1>3, <1>4 DEF Next

\* A summary that is complete stays as it is, so whoever reads the pointer finds
\* the summary it names, then and later.
LEMMA LatestStaysComplete ==
  ASSUME LatestInvariant, [Next]_vars
  PROVE  LatestIsComplete'
<1>. USE DEF LatestInvariant
<1>1. CASE UNCHANGED vars
  BY <1>1 DEF vars, local, disk, LatestIsComplete
<1>2. ASSUME NEW i \in Instances, SaveSummary(i)
      PROVE  LatestIsComplete'
  <2>1. /\ run' = run /\ baseline' = baseline /\ Busy(i) /\ run[i] \in Runs
        /\ AccountedSoFar(i)
        /\ \A j \in Instances : pc'[j] = "load_latest" => pc[j] = "load_latest"
    BY <1>2, BoundIsPositive
    DEF SaveSummary, Goto, Types, RunsAreOwned, Busy, local, Runs, CasesAreAccounted
  <2>2. \A r \in Runs :
          \/ summaries'[r] = summaries[r]
          \/ r = run[i] /\ pc[i] = "save" /\ summaries[r] = Absent /\ summaries'[r] = Torn
          \/ r = run[i] /\ pc[i] = "saving" /\ summaries[r] = Torn /\ summaries'[r] = Summary(i)
    BY <1>2, <2>1 DEF SaveSummary, Types, SummariesFollowRuns, Before
  <2>3. \A r \in Runs : summaries[r] \notin {Absent, Torn} => summaries'[r] = summaries[r]
    BY <2>2
  <2>4. \A r \in Runs : summaries'[r] \notin {Absent, Torn} => IsAccounted(summaries'[r])
    <3>1. pc[i] = "saving" => IsAccounted(Summary(i))
      BY <2>1, SummariesAreAccounted
    <3>. QED
      BY <2>2, <3>1 DEF LatestIsComplete
  <2>5. latest' \in Runs => summaries'[latest'] \notin {Absent, Torn}
    <3>1. \/ latest' = latest
          \/ latest' = Torn
          \/ latest' = run[i] /\ summaries[run[i]] \notin {Absent, Torn}
      BY <1>2 DEF SaveSummary, SummariesFollowRuns
    <3>2. Torn \notin Runs
      BY FileStatesAreDistinct
    <3>. QED
      BY <2>1, <2>3, <3>1, <3>2 DEF LatestIsComplete
  <2>6. \A j \in Instances : pc[j] = "load_latest" => summaries'[baseline[j]] \notin {Absent, Torn}
    BY <2>3 DEF LatestIsComplete, SummariesFollowRuns
  <2>. QED
    BY <2>1, <2>4, <2>5, <2>6 DEF LatestIsComplete
<1>3. ASSUME NEW i \in Instances,
             \/ LoadDataset(i) \/ FindLatest(i) \/ LoadLatest(i) \/ CompleteCase(i) \/ FailCase(i)
             \/ Finish(i) \/ SaveReport(i) \/ End(i)
      PROVE  LatestIsComplete'
  <2>1. summaries' = summaries /\ latest' = latest
    BY <1>3 DEF LoadDataset, FindLatest, LoadLatest, CompleteCase, FailCase, Finish, SaveReport, End,
       local, disk
  <2>2. \A j \in Instances :
          pc'[j] = "load_latest" =>
            \/ pc[j] = "load_latest" /\ baseline'[j] = baseline[j]
            \/ latest \in Runs /\ baseline'[j] = latest
    BY <1>3 DEF LoadDataset, FindLatest, LoadLatest, CompleteCase, FailCase, Running, Finish,
       SaveReport, Reports, End, Goto, local, Types
  <2>. QED
    BY <2>1, <2>2 DEF LatestIsComplete
<1>. QED
  BY <1>1, <1>2, <1>3 DEF Next

\* The invariant holds at first.
LEMMA LatestBegins ==
  ASSUME Init
  PROVE  LatestInvariant
<1>1. Types
  BY BoundIsPositive DEF Init, Types, Steps, Runs, Pointers
<1>2. \A i \in Instances : pc[i] = "idle"
  BY DEF Init
<1>3. \A r \in Runs : summaries[r] = Absent
  BY DEF Init
<1>4. latest = Absent /\ Absent \notin Runs
  BY FileStatesAreDistinct DEF Init
<1>5. RunsAreOwned /\ CasesAreAccounted /\ SummariesFollowRuns
  BY <1>2, <1>3 DEF RunsAreOwned, CasesAreAccounted, SummariesFollowRuns, Busy, Before
<1>6. LatestIsComplete
  BY <1>2, <1>3, <1>4 DEF LatestIsComplete
<1>. QED
  BY <1>1, <1>5, <1>6 DEF LatestInvariant

\* Every step keeps it.
LEMMA LatestIsInductive ==
  ASSUME LatestInvariant, [Next]_vars
  PROVE  LatestInvariant'
BY StepsAreTyped, RunsStayOwned, CasesStayAccounted, SummariesKeepFollowing, LatestStaysComplete
DEF LatestInvariant

\* Whatever instance dies at whatever write, and however many of them interleave,
\* a pointer that can be read leads to a complete summary, and that accounts for
\* every case of its dataset (EvaluationRepository.save_summary).
THEOREM LatestComplete == Spec => []LatestIsComplete
<1>1. Init => LatestInvariant
  BY LatestBegins
<1>2. LatestInvariant /\ [Next]_vars => LatestInvariant'
  BY LatestIsInductive
<1>3. LatestInvariant => LatestIsComplete
  BY DEF LatestInvariant
<1>. QED
  BY <1>1, <1>2, <1>3, PTL DEF Spec

-----------------------------------------------------------------------------
(* Fractions and sums of them.                                             *)

\* A score.
Frac == Nat \X (Nat \ {0})

\* Multiplication keeps the order.
LEMMA ProductsInOrder ==
  ASSUME NEW x \in Nat, NEW y \in Nat, NEW z \in Nat, x <= y
  PROVE  x * z <= y * z /\ x * z \in Nat /\ y * z \in Nat
<1>1. PICK d \in Nat : y = x + d
  <2>1. y - x \in Nat /\ y = x + (y - x)
    OBVIOUS
  <2>. QED
    BY <2>1
<1>2. y * z = x * z + d * z /\ d * z \in Nat /\ x * z \in Nat
  BY <1>1
<1>. QED
  BY <1>2

\* A sum is a fraction.
LEMMA PlusIsTyped ==
  ASSUME NEW a \in Frac, NEW b \in Frac
  PROVE  Plus(a, b) \in Frac
<1>1. /\ a[1] \in Nat /\ a[2] \in Nat \ {0} /\ b[1] \in Nat /\ b[2] \in Nat \ {0}
  BY DEF Frac
<1>2. a[1] * b[2] + b[1] * a[2] \in Nat /\ a[2] * b[2] \in Nat \ {0}
  <2>1. \A m, n \in Nat : m * n \in Nat /\ (m # 0 /\ n # 0 => m * n # 0)
    OBVIOUS
  <2>2. \A m, n \in Nat : m + n \in Nat
    OBVIOUS
  <2>. QED
    BY <1>1, <2>1, <2>2
<1>. QED
  BY <1>2 DEF Plus, Frac

\* What is added can change places.
LEMMA PlusCommutes ==
  ASSUME NEW a \in Frac, NEW b \in Frac, NEW c \in Frac
  PROVE  Plus(a, Plus(b, c)) = Plus(b, Plus(a, c))
<1>1. /\ a[1] \in Nat /\ a[2] \in Nat /\ b[1] \in Nat /\ b[2] \in Nat /\ c[1] \in Nat /\ c[2] \in Nat
  BY DEF Frac
<1>2. ASSUME NEW p \in Nat, NEW q \in Nat, NEW r \in Nat, NEW s \in Nat, NEW t \in Nat, NEW u \in Nat
      PROVE  /\ p * (s * u) + (r * u + t * s) * q = r * (q * u) + (p * u + t * q) * s
             /\ q * (s * u) = s * (q * u)
  OBVIOUS
<1>3. /\ a[1] * (b[2] * c[2]) + (b[1] * c[2] + c[1] * b[2]) * a[2]
            = b[1] * (a[2] * c[2]) + (a[1] * c[2] + c[1] * a[2]) * b[2]
      /\ a[2] * (b[2] * c[2]) = b[2] * (a[2] * c[2])
  BY <1>1, <1>2
<1>. QED
  BY <1>3 DEF Plus

\* Sums are in the order of what is added.
LEMMA SumsInOrder ==
  ASSUME NEW a \in Frac, NEW b \in Frac, NEW c \in Frac, NEW d \in Frac, AtMost(a, c), AtMost(b, d)
  PROVE  AtMost(Plus(a, b), Plus(c, d))
<1>1. /\ a[1] \in Nat /\ a[2] \in Nat /\ b[1] \in Nat /\ b[2] \in Nat
      /\ c[1] \in Nat /\ c[2] \in Nat /\ d[1] \in Nat /\ d[2] \in Nat
  BY DEF Frac
<1>2. a[1] * c[2] <= c[1] * a[2] /\ b[1] * d[2] <= d[1] * b[2]
  BY DEF AtMost
<1>3. \A m, n \in Nat : m * n \in Nat
  OBVIOUS
<1>4. /\ (a[1] * c[2]) * (b[2] * d[2]) <= (c[1] * a[2]) * (b[2] * d[2])
      /\ (b[1] * d[2]) * (a[2] * c[2]) <= (d[1] * b[2]) * (a[2] * c[2])
  BY <1>1, <1>2, <1>3, ProductsInOrder
<1>5. ASSUME NEW p \in Nat, NEW q \in Nat, NEW r \in Nat, NEW s \in Nat,
             NEW t \in Nat, NEW u \in Nat, NEW v \in Nat, NEW w \in Nat,
             (p * u) * (s * w) <= (t * q) * (s * w), (r * w) * (q * u) <= (v * s) * (q * u)
      PROVE  (p * s + r * q) * (u * w) <= (t * w + v * u) * (q * s)
  <2>1. (p * s + r * q) * (u * w) = (p * u) * (s * w) + (r * w) * (q * u)
    OBVIOUS
  <2>2. (t * w + v * u) * (q * s) = (t * q) * (s * w) + (v * s) * (q * u)
    OBVIOUS
  <2>3. \A k, l, m, n \in Nat : k <= m /\ l <= n => k + l <= m + n
    OBVIOUS
  <2>4. /\ (p * u) * (s * w) \in Nat /\ (t * q) * (s * w) \in Nat
        /\ (r * w) * (q * u) \in Nat /\ (v * s) * (q * u) \in Nat
    BY <1>3
  <2>. QED
    BY <1>5, <2>1, <2>2, <2>3, <2>4
<1>6. (a[1] * b[2] + b[1] * a[2]) * (c[2] * d[2]) <= (c[1] * d[2] + d[1] * c[2]) * (a[2] * b[2])
  BY <1>1, <1>4, <1>5
<1>. QED
  BY <1>6 DEF AtMost, Plus

-----------------------------------------------------------------------------
(* The gains of some ranks.                                                *)

\* They can be summed in any order.
LEMMA TotalGainTakes ==
  ASSUME NEW ranks \in SUBSET DOMAIN Gains
  PROVE  /\ IsFiniteSet(ranks) /\ TotalGain(ranks) \in Nat
         /\ ranks = {} => TotalGain(ranks) = 0
         /\ \A n \in ranks : TotalGain(ranks) = Gains[n] + TotalGain(ranks \ {n})
<1>. DEFINE E == DOMAIN Gains
            step == [p \in E \X Nat |-> Gains[p[1]] + p[2]]
<1>1. E = 1..Len(Gains) /\ Len(Gains) \in Nat /\ IsFiniteSet(E) /\ \A n \in E : Gains[n] \in Nat
  <2>1. E = 1..Len(Gains) /\ Len(Gains) \in Nat /\ \A n \in E : Gains[n] \in Nat
    BY GainsFall
  <2>. QED
    BY <2>1, FS_Interval
<1>2. step \in SetStepOf(E, Nat) /\ \A n \in E, v \in Nat : step[<<n, v>>] = Gains[n] + v
  BY <1>1 DEF SetStepOf
<1>3. Commutes(step, E, Nat)
  <2>. SUFFICES ASSUME NEW x \in E, NEW y \in E, NEW v \in Nat
                PROVE  step[<<x, step[<<y, v>>]>>] = step[<<y, step[<<x, v>>]>>]
    BY DEF Commutes
  <2>. HIDE DEF step, E
  <2>1. Gains[x] + v \in Nat /\ Gains[y] + v \in Nat /\ Gains[x] \in Nat /\ Gains[y] \in Nat
    BY <1>1
  <2>2. Gains[x] + (Gains[y] + v) = Gains[y] + (Gains[x] + v)
    BY <2>1
  <2>. QED
    BY <1>2, <2>1, <2>2
<1>. HIDE DEF E, step
<1>4. ASSUME NEW S \in SUBSET E
      PROVE  /\ IsFiniteSet(S) /\ TotalGain(S) = FoldedOver(step, 0, S) /\ TotalGain(S) \in Nat
             /\ S = {} => TotalGain(S) = 0
  <2>1. IsFiniteSet(S)
    BY <1>1, FS_Subset
  <2>2. PICK g \in [SUBSET S -> Nat] : ComputesSetFold(g, step, 0, S)
    BY <1>2, <2>1, SetFoldExists
  <2>3. g = [t \in SUBSET S |-> IF t = {} THEN 0 ELSE Gain(Pick(t)) + g[t \ {Pick(t)}]]
    <3>1. ASSUME NEW t \in SUBSET S, t # {}
          PROVE  step[<<Pick(t), g[t \ {Pick(t)}]>>] = Gain(Pick(t)) + g[t \ {Pick(t)}]
      <4>1. Pick(t) \in E /\ g[t \ {Pick(t)}] \in Nat
        BY <3>1, PickIsIn
      <4>. QED
        BY <1>2, <4>1 DEF Gain
    <3>. QED
      BY <2>2, <3>1 DEF ComputesSetFold
  <2>4. PICK it : /\ it = [t \in SUBSET S |-> IF t = {} THEN 0 ELSE Gain(Pick(t)) + it[t \ {Pick(t)}]]
                  /\ TotalGain(S) = it[S]
    BY <2>3 DEF TotalGain, FoldSet, MapThenFoldSet, Pick
  <2>5. FollowsSetFold(it, Nat, step, 0, S)
    <3>1. it[{}] = 0
      BY <2>4
    <3>2. ASSUME NEW t \in SUBSET S, t # {}, it[t \ {Pick(t)}] \in Nat
          PROVE  it[t] = step[<<Pick(t), it[t \ {Pick(t)}]>>]
      <4>1. Pick(t) \in E
        BY <3>2, PickIsIn
      <4>2. it[t] = Gain(Pick(t)) + it[t \ {Pick(t)}]
        BY <2>4, <3>2
      <4>. QED
        BY <1>2, <3>2, <4>1, <4>2 DEF Gain
    <3>. QED
      BY <3>1, <3>2 DEF FollowsSetFold
  <2>6. S = {} => TotalGain(S) = 0
    BY <2>4
  <2>7. TotalGain(S) = FoldedOver(step, 0, S) /\ TotalGain(S) \in Nat
    BY <1>2, <2>1, <2>4, <2>5, FoldedOverIs
  <2>. QED
    BY <2>1, <2>6, <2>7
<1>5. ranks \in SUBSET E
  BY DEF E
<1>6. ranks = {} => TotalGain(ranks) = 0
  BY <1>4, <1>5
<1>7. ASSUME NEW n \in ranks
      PROVE  TotalGain(ranks) = Gains[n] + TotalGain(ranks \ {n})
  <2>1. FoldedOver(step, 0, ranks) = step[<<n, FoldedOver(step, 0, ranks \ {n})>>]
    <3>1. IsFiniteSet(ranks) /\ step \in SetStepOf(E, Nat)
      BY <1>2, <1>4, <1>5
    <3>. QED
      BY <1>3, <1>5, <3>1, AnyCanBeFirst
  <2>2. ranks \ {n} \in SUBSET E /\ n \in E
    BY <1>5
  <2>3. FoldedOver(step, 0, ranks \ {n}) \in Nat /\ FoldedOver(step, 0, ranks \ {n}) = TotalGain(ranks \ {n})
    BY <1>4, <2>2
  <2>. QED
    BY <1>2, <1>4, <1>5, <2>1, <2>2, <2>3
<1>. QED
  BY <1>4, <1>5, <1>6, <1>7

\* Where every rank has one for itself that is no later, more is gained.
LEMMA EarlierGainsMore ==
  ASSUME NEW A \in SUBSET DOMAIN Gains, NEW B \in SUBSET DOMAIN Gains,
         NEW f \in Injection(B, A), \A n \in B : f[n] <= n
  PROVE  TotalGain(B) <= TotalGain(A) /\ Cardinality(B) <= Cardinality(A)
<1>. DEFINE R == DOMAIN Gains
            Less(b) == \A a \in SUBSET R : \A h \in Injection(b, a) :
                         (\A n \in b : h[n] <= n) => TotalGain(b) <= TotalGain(a)
            T == {b \in SUBSET R : Less(b)}
<1>1. {} \in T
  <2>1. TotalGain({}) = 0 /\ \A a \in SUBSET R : 0 <= TotalGain(a)
    <3>1. \A a \in SUBSET R : TotalGain(a) \in Nat /\ (a = {} => TotalGain(a) = 0)
      BY TotalGainTakes
    <3>. QED
      BY <3>1
  <2>. QED
    BY <2>1
<1>2. ASSUME NEW b \in SUBSET R, b # {}, \A x \in b : b \ {x} \in T
      PROVE  b \in T
  <2>. SUFFICES ASSUME NEW a \in SUBSET R, NEW h \in Injection(b, a), \A n \in b : h[n] <= n
                PROVE  TotalGain(b) <= TotalGain(a)
    OBVIOUS
  <2>1. PICK x \in b : TRUE
    BY <1>2
  <2>. DEFINE y == h[x]
              b1 == b \ {x}
              a1 == a \ {y}
              h1 == [n \in b1 |-> h[n]]
  <2>2. h \in [b -> a] /\ \A m, n \in b : h[m] = h[n] => m = n
    BY DEF Injection, IsInjective
  <2>3. y \in a /\ y <= x /\ h1 \in [b1 -> a1]
    BY <2>1, <2>2
  <2>4. h1 \in Injection(b1, a1)
    BY <2>2, <2>3 DEF Injection, IsInjective
  <2>5. Less(b1)
    BY <1>2, <2>1
  <2>6. TotalGain(b1) <= TotalGain(a1)
    <3>1. a1 \in SUBSET R /\ \A n \in b1 : h1[n] <= n
      OBVIOUS
    <3>. HIDE DEF h1, a1, b1
    <3>. QED
      BY <2>4, <2>5, <3>1
  <2>7. TotalGain(b) = Gains[x] + TotalGain(b1) /\ TotalGain(a) = Gains[y] + TotalGain(a1)
    BY <2>1, <2>3, TotalGainTakes
  <2>8. TotalGain(b1) \in Nat /\ TotalGain(a1) \in Nat
    <3>1. a1 \in SUBSET R /\ b1 \in SUBSET R
      OBVIOUS
    <3>. HIDE DEF a1, b1
    <3>. QED
      BY <3>1, TotalGainTakes
  <2>9. x \in R /\ y \in R /\ Gains[x] \in Nat /\ Gains[y] \in Nat /\ Gains[x] <= Gains[y]
    <3>1. x \in R /\ y \in R
      BY <2>1, <2>3
    <3>. QED
      BY <2>3, <3>1, GainsFall
  <2>. QED
    BY <2>6, <2>7, <2>8, <2>9
<1>3. B \in T
  <2>1. IsFiniteSet(B)
    BY TotalGainTakes
  <2>. HIDE DEF T
  <2>. QED
    BY <1>1, <1>2, <2>1, FiniteInduction
<1>4. TotalGain(B) <= TotalGain(A)
  BY <1>3
<1>5. Cardinality(B) <= Cardinality(A)
  BY TotalGainTakes, FS_Injection
<1>. QED
  BY <1>4, <1>5

-----------------------------------------------------------------------------
(* The scores of an answer.                                                *)

\* What is in a dataset.
Cases == UNION {Range(cases) : cases \in Datasets}

\* What a run is scored by.
Metrics == RetrievalMetrics \cup GenerationMetrics

\* What is known of a case and of an answer.
LEMMA CasesAndAnswers ==
  ASSUME NEW c \in Cases, NEW a \in Answers
  PROVE  /\ IsFiniteSet(c.units) /\ Cardinality(c.units) \in Nat \ {0}
         /\ IsFiniteSet(c.citations) /\ Cardinality(c.citations) \in Nat \ {0}
         /\ Len(a.retrieved) \in Nat /\ DOMAIN a.retrieved = 1..Len(a.retrieved)
         /\ \A m, n \in DOMAIN a.retrieved : a.retrieved[m] = a.retrieved[n] => m = n
         /\ IsFiniteSet(a.cited) /\ Cardinality(a.cited) \in Nat
         /\ a.resolved \in Nat /\ a.unresolved \in Nat
         /\ a.claims \in Nat \ {0} /\ a.grounded \in Nat /\ a.grounded <= a.claims
<1>1. PICK cases \in Datasets : c \in Range(cases)
  BY DEF Cases
<1>2. /\ IsFiniteSet(c.units) /\ c.units # {}
      /\ IsFiniteSet(c.citations) /\ c.citations # {}
  BY <1>1, CasesNameUnits
<1>3. \A S : IsFiniteSet(S) => Cardinality(S) \in Nat /\ (S # {} => Cardinality(S) # 0)
  BY FS_CardinalityType, FS_EmptySet
<1>4. /\ a.retrieved \in Seq(Range(a.retrieved)) /\ IsInjective(a.retrieved)
      /\ IsFiniteSet(a.cited)
      /\ a.resolved \in Nat /\ a.unresolved \in Nat
      /\ a.claims \in Nat \ {0} /\ a.grounded \in 0..a.claims
  BY AnswersCanBeScored
<1>5. Len(a.retrieved) \in Nat /\ DOMAIN a.retrieved = 1..Len(a.retrieved)
  BY <1>4
<1>6. \A m, n \in DOMAIN a.retrieved : a.retrieved[m] = a.retrieved[n] => m = n
  BY <1>4 DEF IsInjective
<1>. QED
  BY <1>2, <1>3, <1>4, <1>5, <1>6

\* The relevant ranks of an answer that are within a cutoff.
LEMMA HitsAreRanks ==
  ASSUME NEW c \in Cases, NEW a \in Answers, NEW k \in KValues
  PROVE  /\ k \in Nat \ {0} /\ 1..k \subseteq DOMAIN Gains
         /\ Hits(a.retrieved, c.units, k) \in SUBSET DOMAIN Gains
         /\ IsFiniteSet(Hits(a.retrieved, c.units, k)) /\ Cardinality(Hits(a.retrieved, c.units, k)) \in Nat
<1>1. k \in 1..Len(Gains) /\ DOMAIN Gains = 1..Len(Gains) /\ Len(Gains) \in Nat
  BY KValuesArePositive, GainsFall
<1>2. DOMAIN a.retrieved = 1..Len(a.retrieved) /\ Len(a.retrieved) \in Nat
  BY CasesAndAnswers
<1>3. Hits(a.retrieved, c.units, k) \subseteq 1..k
  BY <1>1, <1>2 DEF Hits, RelevantRanks
<1>4. 1..k \subseteq DOMAIN Gains /\ IsFiniteSet(1..k)
  BY <1>1, FS_Interval
<1>. HIDE DEF Hits
<1>. QED
  BY <1>1, <1>3, <1>4, FS_Subset, FS_CardinalityType

\* For each relevant rank of an answer, one that is as good has a rank that is no later.
LEMMA AsGoodHitsMore ==
  ASSUME NEW c \in Cases, NEW a \in Answers, NEW b \in Answers, AsGood(c, a, b), NEW k \in KValues
  PROVE  LET A == Hits(a.retrieved, c.units, k)
             B == Hits(b.retrieved, c.units, k)
         IN  TotalGain(B) <= TotalGain(A) /\ Cardinality(B) <= Cardinality(A)
<1>. DEFINE A == Hits(a.retrieved, c.units, k)
            B == Hits(b.retrieved, c.units, k)
            f == [n \in B |-> CHOOSE m \in RelevantRanks(a.retrieved, c.units) :
                                m <= n /\ a.retrieved[m] = b.retrieved[n]]
<1>1. ASSUME NEW n \in B
      PROVE  f[n] \in A /\ f[n] <= n /\ a.retrieved[f[n]] = b.retrieved[n]
  <2>1. n \in RelevantRanks(b.retrieved, c.units) /\ n <= k /\ n \in DOMAIN b.retrieved
    BY DEF Hits, RelevantRanks
  <2>2. \E m \in RelevantRanks(a.retrieved, c.units) : m <= n /\ a.retrieved[m] = b.retrieved[n]
    BY <2>1 DEF AsGood
  <2>3. /\ f[n] \in RelevantRanks(a.retrieved, c.units) /\ f[n] <= n
        /\ a.retrieved[f[n]] = b.retrieved[n]
    BY <2>2
  <2>4. f[n] \in Nat /\ n \in Nat /\ k \in Nat
    <3>1. f[n] \in DOMAIN a.retrieved
      BY <2>3 DEF RelevantRanks
    <3>2. /\ DOMAIN a.retrieved = 1..Len(a.retrieved) /\ Len(a.retrieved) \in Nat
          /\ DOMAIN b.retrieved = 1..Len(b.retrieved) /\ Len(b.retrieved) \in Nat
      BY CasesAndAnswers
    <3>. QED
      BY <2>1, <3>1, <3>2, HitsAreRanks
  <2>. HIDE DEF f
  <2>5. f[n] <= k
    BY <2>1, <2>3, <2>4
  <2>. QED
    BY <2>3, <2>5 DEF Hits
<1>2. \A n \in B : n \in DOMAIN b.retrieved
  BY DEF Hits, RelevantRanks
<1>3. \A m, n \in DOMAIN b.retrieved : b.retrieved[m] = b.retrieved[n] => m = n
  BY CasesAndAnswers
<1>4. DOMAIN f = B
  OBVIOUS
<1>5. A \in SUBSET DOMAIN Gains /\ B \in SUBSET DOMAIN Gains
  BY HitsAreRanks
<1>6. f \in [B -> A]
  BY <1>1
<1>. HIDE DEF A, B, f
<1>7. f \in Injection(B, A)
  BY <1>1, <1>2, <1>3, <1>6 DEF Injection, IsInjective
<1>8. TotalGain(B) <= TotalGain(A) /\ Cardinality(B) <= Cardinality(A)
  BY <1>1, <1>5, <1>7, EarlierGainsMore
<1>. QED
  BY <1>8 DEF A, B

\* How the score in a metric goes that an answer gets which is as good.
NoWorse(metric, x, y) == IF metric \in LowerIsBetter THEN AtMost(x, y) ELSE AtMost(y, x)

\* The scores of one answer, and of one that is as good.
LEMMA ByRankNoWorse ==
  ASSUME NEW c \in Cases, NEW a \in Answers, NEW b \in Answers, AsGood(c, a, b), NEW k \in KValues
  PROVE  /\ precision_at_k(a.retrieved, c.units, k) \in Frac
         /\ AtMost(precision_at_k(b.retrieved, c.units, k), precision_at_k(a.retrieved, c.units, k))
         /\ recall_at_k(a.retrieved, c.units, k) \in Frac
         /\ AtMost(recall_at_k(b.retrieved, c.units, k), recall_at_k(a.retrieved, c.units, k))
         /\ hit_rate_at_k(a.retrieved, c.units, k) \in Frac
         /\ AtMost(hit_rate_at_k(b.retrieved, c.units, k), hit_rate_at_k(a.retrieved, c.units, k))
         /\ ndcg_at_k(a.retrieved, c.units, k) \in Frac
         /\ AtMost(ndcg_at_k(b.retrieved, c.units, k), ndcg_at_k(a.retrieved, c.units, k))
<1>. DEFINE A == Hits(a.retrieved, c.units, k)
            B == Hits(b.retrieved, c.units, k)
            u == Cardinality(c.units)
            p == Cardinality(A)
            q == Cardinality(B)
            x == TotalGain(A)
            y == TotalGain(B)
            ideal == 1..Min({u, k})
            z == TotalGain(ideal)
<1>1. p \in Nat /\ q \in Nat /\ x \in Nat /\ y \in Nat /\ y <= x /\ q <= p
  BY HitsAreRanks, AsGoodHitsMore, TotalGainTakes
<1>2. u \in Nat \ {0} /\ k \in Nat \ {0} /\ 1..k \subseteq DOMAIN Gains
  BY CasesAndAnswers, HitsAreRanks
<1>3. (A = {} <=> p = 0) /\ (B = {} <=> q = 0)
  BY HitsAreRanks, FS_EmptySet
<1>4. z \in Nat \ {0}
  <2>1. Min({u, k}) \in 1..k
    <3>. HIDE DEF u
    <3>1. Min({u, k}) \in {u, k} /\ Min({u, k}) <= k
      <4>1. \E v \in {u, k} : \A w \in {u, k} : v <= w
        BY <1>2
      <4>. QED
        BY <4>1 DEF Min
    <3>. HIDE DEF Min
    <3>. QED
      BY <1>2, <3>1
  <2>2. ideal \in SUBSET DOMAIN Gains /\ 1 \in ideal
    <3>1. \A m \in 1..k : 1 \in 1..m /\ 1..m \subseteq 1..k
      BY <1>2
    <3>. HIDE DEF Min, u
    <3>. QED
      BY <1>2, <2>1, <3>1
  <2>. HIDE DEF ideal
  <2>3. z = Gains[1] + TotalGain(ideal \ {1}) /\ TotalGain(ideal \ {1}) \in Nat
    <3>1. ideal \ {1} \in SUBSET DOMAIN Gains
      BY <2>2
    <3>. QED
      BY <2>2, <3>1, TotalGainTakes
  <2>4. Gains[1] \in Nat \ {0}
    BY <2>2, GainsFall
  <2>. QED
    BY <2>3, <2>4
<1>5. /\ precision_at_k(a.retrieved, c.units, k) = <<p, k>> /\ precision_at_k(b.retrieved, c.units, k) = <<q, k>>
      /\ recall_at_k(a.retrieved, c.units, k) = <<p, u>> /\ recall_at_k(b.retrieved, c.units, k) = <<q, u>>
      /\ hit_rate_at_k(a.retrieved, c.units, k) = (IF A # {} THEN One ELSE Zero)
      /\ hit_rate_at_k(b.retrieved, c.units, k) = (IF B # {} THEN One ELSE Zero)
      /\ ndcg_at_k(a.retrieved, c.units, k) = <<x, z>> /\ ndcg_at_k(b.retrieved, c.units, k) = <<y, z>>
  BY DEF precision_at_k, recall_at_k, hit_rate_at_k, ndcg_at_k
<1>. HIDE DEF A, B, u, p, q, x, y, z
<1>6. AtMost(<<q, k>>, <<p, k>>) /\ AtMost(<<q, u>>, <<p, u>>) /\ AtMost(<<y, z>>, <<x, z>>)
  BY <1>1, <1>2, <1>4, ProductsInOrder DEF AtMost
<1>7. <<p, k>> \in Frac /\ <<p, u>> \in Frac /\ <<x, z>> \in Frac /\ Zero \in Frac /\ One \in Frac
  BY <1>1, <1>2, <1>4 DEF Frac, Zero, One
<1>8. AtMost(IF B # {} THEN One ELSE Zero, IF A # {} THEN One ELSE Zero)
  <2>1. B # {} => A # {}
    BY <1>1, <1>3
  <2>2. AtMost(One, One) /\ AtMost(Zero, One) /\ AtMost(Zero, Zero)
    BY DEF AtMost, Zero, One
  <2>. QED
    BY <2>1, <2>2
<1>. QED
  BY <1>5, <1>6, <1>7, <1>8

\* The reciprocal rank of an answer that is as good.
LEMMA FirstRankNoWorse ==
  ASSUME NEW c \in Cases, NEW a \in Answers, NEW b \in Answers, AsGood(c, a, b)
  PROVE  /\ reciprocal_rank(a.retrieved, c.units) \in Frac
         /\ AtMost(reciprocal_rank(b.retrieved, c.units), reciprocal_rank(a.retrieved, c.units))
<1>. DEFINE A == RelevantRanks(a.retrieved, c.units)
            B == RelevantRanks(b.retrieved, c.units)
            i == Min(A)
            j == Min(B)
<1>1. \A x \in Answers : RelevantRanks(x.retrieved, c.units) \in SUBSET (1..Len(x.retrieved)) /\ Len(x.retrieved) \in Nat
  BY CasesAndAnswers DEF RelevantRanks
<1>2. /\ A # {} => i \in A /\ i \in Nat \ {0} /\ \A n \in A : i <= n
      /\ B # {} => j \in B /\ j \in Nat \ {0} /\ \A n \in B : j <= n
  <2>1. A \in SUBSET (1..Len(a.retrieved)) /\ Len(a.retrieved) \in Nat
    BY <1>1
  <2>2. B \in SUBSET (1..Len(b.retrieved)) /\ Len(b.retrieved) \in Nat
    BY <1>1
  <2>. HIDE DEF A, B
  <2>3. A # {} => i \in A /\ \A n \in A : i <= n
    BY <2>1, MinOfIndexes
  <2>4. B # {} => j \in B /\ \A n \in B : j <= n
    BY <2>2, MinOfIndexes
  <2>5. A \subseteq Nat \ {0} /\ B \subseteq Nat \ {0}
    BY <2>1, <2>2
  <2>. HIDE DEF i, j
  <2>. QED
    BY <2>3, <2>4, <2>5
<1>3. /\ reciprocal_rank(a.retrieved, c.units) = (IF A = {} THEN Zero ELSE <<1, i>>)
      /\ reciprocal_rank(b.retrieved, c.units) = (IF B = {} THEN Zero ELSE <<1, j>>)
  BY DEF reciprocal_rank
<1>4. \A n \in B : \E m \in A : m <= n
  BY DEF AsGood
<1>5. A \subseteq Nat /\ B \subseteq Nat
  <2>1. \A x \in Answers : RelevantRanks(x.retrieved, c.units) \subseteq Nat
    <3>1. \A n \in Nat : 1..n \subseteq Nat
      OBVIOUS
    <3>. QED
      BY <1>1, <3>1, Zenon
  <2>. QED
    BY <2>1
<1>. HIDE DEF A, B, i, j
<1>6. B # {} => A # {} /\ i <= j
  <2>. SUFFICES ASSUME B # {}
                PROVE  A # {} /\ i <= j
    OBVIOUS
  <2>1. PICK m \in A : m <= j
    BY <1>2, <1>4
  <2>2. A # {} /\ i <= m /\ i \in Nat /\ m \in Nat /\ j \in Nat
    BY <1>2, <1>5
  <2>. QED
    BY <2>1, <2>2
<1>7. (IF A = {} THEN Zero ELSE <<1, i>>) \in Frac
  BY <1>2 DEF Frac, Zero
<1>8. AtMost(IF B = {} THEN Zero ELSE <<1, j>>, IF A = {} THEN Zero ELSE <<1, i>>)
  <2>1. CASE B = {}
    <3>1. AtMost(Zero, Zero) /\ (A # {} => AtMost(Zero, <<1, i>>))
      BY <1>2 DEF AtMost, Zero
    <3>. QED
      BY <2>1, <3>1
  <2>2. CASE B # {}
    <3>1. AtMost(<<1, j>>, <<1, i>>)
      BY <1>2, <1>6, <2>2 DEF AtMost
    <3>. QED
      BY <1>6, <2>2, <3>1
  <2>. QED
    BY <2>1, <2>2
<1>. QED
  BY <1>3, <1>7, <1>8

\* The scores of what an answer says and cites, when it is as good.
LEMMA AnsweringNoWorse ==
  ASSUME NEW c \in Cases, NEW a \in Answers, NEW b \in Answers, AsGood(c, a, b)
  PROVE  /\ grounding_accuracy(a) \in Frac /\ AtMost(grounding_accuracy(b), grounding_accuracy(a))
         /\ unsupported_claim_rate(a) \in Frac /\ AtMost(unsupported_claim_rate(a), unsupported_claim_rate(b))
         /\ citation_accuracy(a) \in Frac /\ AtMost(citation_accuracy(b), citation_accuracy(a))
<1>1. /\ a.claims \in Nat \ {0} /\ a.grounded \in Nat /\ a.grounded <= a.claims
      /\ b.claims \in Nat \ {0} /\ b.grounded \in Nat /\ b.grounded <= b.claims
      /\ a.resolved \in Nat /\ a.unresolved \in Nat
  BY CasesAndAnswers
<1>2. b.grounded * a.claims <= a.grounded * b.claims /\ AtMost(citation_accuracy(b), citation_accuracy(a))
  BY DEF AsGood
<1>3. grounding_accuracy(a) \in Frac /\ AtMost(grounding_accuracy(b), grounding_accuracy(a))
  BY <1>1, <1>2 DEF grounding_accuracy, Frac, AtMost
<1>4. citation_accuracy(a) \in Frac
  <2>1. a.resolved + a.unresolved \in Nat
    BY <1>1
  <2>. QED
    BY <1>1, <2>1 DEF citation_accuracy, Frac, One
<1>5. ASSUME NEW g \in Nat, NEW h \in Nat, NEW m \in Nat, NEW n \in Nat, g <= m, h <= n, h * m <= g * n
      PROVE  (m - g) * n <= (n - h) * m
  <2>1. PICK d \in Nat : m = g + d
    <3>1. m - g \in Nat /\ m = g + (m - g)
      BY <1>5
    <3>. QED
      BY <3>1
  <2>2. PICK e \in Nat : n = h + e
    <3>1. n - h \in Nat /\ n = h + (n - h)
      BY <1>5
    <3>. QED
      BY <3>1
  <2>3. h * (g + d) <= g * (h + e)
    BY <1>5, <2>1, <2>2
  <2>4. /\ h * (g + d) = h * g + h * d /\ g * (h + e) = h * g + g * e
        /\ d * (h + e) = h * d + d * e /\ e * (g + d) = g * e + d * e
    OBVIOUS
  <2>5. h * g \in Nat /\ h * d \in Nat /\ g * e \in Nat /\ d * e \in Nat
    OBVIOUS
  <2>6. h * d <= g * e
    BY <2>3, <2>4, <2>5
  <2>7. d * (h + e) <= e * (g + d)
    BY <2>4, <2>5, <2>6
  <2>8. m - g = d /\ n - h = e
    BY <2>1, <2>2
  <2>. QED
    BY <2>1, <2>2, <2>7, <2>8
<1>6. (a.claims - a.grounded) * b.claims <= (b.claims - b.grounded) * a.claims
  BY <1>1, <1>2, <1>5
<1>7. unsupported_claim_rate(a) \in Frac /\ AtMost(unsupported_claim_rate(a), unsupported_claim_rate(b))
  <2>1. a.claims - a.grounded \in Nat
    BY <1>1
  <2>. QED
    BY <1>1, <1>6, <2>1 DEF unsupported_claim_rate, Frac, AtMost
<1>. QED
  BY <1>2, <1>3, <1>4, <1>7

\* The scores of what it cites.
LEMMA CitingNoWorse ==
  ASSUME NEW c \in Cases, NEW a \in Answers, NEW b \in Answers, AsGood(c, a, b)
  PROVE  /\ evidence_coverage(a, c.citations) \in Frac
         /\ AtMost(evidence_coverage(b, c.citations), evidence_coverage(a, c.citations))
         /\ answer_completeness(a, c.citations) \in Frac
         /\ AtMost(answer_completeness(b, c.citations), answer_completeness(a, c.citations))
<1>. DEFINE right(x) == x.cited \cap c.citations
            wrong(x) == x.cited \ c.citations
            p == Cardinality(right(a))
            q == Cardinality(right(b))
            v == Cardinality(wrong(a))
            w == Cardinality(wrong(b))
            e == Cardinality(c.citations)
<1>1. IsFiniteSet(a.cited) /\ IsFiniteSet(b.cited) /\ e \in Nat \ {0}
  BY CasesAndAnswers
<1>2. \A x \in {a, b} :
        /\ IsFiniteSet(right(x)) /\ IsFiniteSet(wrong(x))
        /\ Cardinality(right(x)) \in Nat /\ Cardinality(wrong(x)) \in Nat
        /\ Cardinality(x.cited) = Cardinality(right(x)) + Cardinality(wrong(x))
        /\ x.cited = {} => right(x) = {}
        /\ (x.cited = {} <=> Cardinality(x.cited) = 0)
  <2>. SUFFICES ASSUME NEW x \in {a, b}
                PROVE  /\ IsFiniteSet(right(x)) /\ IsFiniteSet(wrong(x))
                       /\ Cardinality(right(x)) \in Nat /\ Cardinality(wrong(x)) \in Nat
                       /\ Cardinality(x.cited) = Cardinality(right(x)) + Cardinality(wrong(x))
                       /\ x.cited = {} => right(x) = {}
                       /\ (x.cited = {} <=> Cardinality(x.cited) = 0)
    OBVIOUS
  <2>1. IsFiniteSet(x.cited)
    BY <1>1
  <2>2. IsFiniteSet(right(x)) /\ IsFiniteSet(wrong(x))
    BY <2>1, FS_Subset
  <2>3. right(x) \cup wrong(x) = x.cited /\ right(x) \cap wrong(x) = {} /\ (x.cited = {} => right(x) = {})
    OBVIOUS
  <2>. HIDE DEF right, wrong
  <2>4. Cardinality(right(x)) \in Nat /\ Cardinality(wrong(x)) \in Nat /\ Cardinality({}) = 0
    BY <2>2, FS_CardinalityType, FS_EmptySet
  <2>5. Cardinality(right(x) \cup wrong(x))
          = Cardinality(right(x)) + Cardinality(wrong(x)) - Cardinality(right(x) \cap wrong(x))
    BY <2>2, FS_Union
  <2>6. Cardinality(x.cited) = Cardinality(right(x)) + Cardinality(wrong(x))
    <3>1. \A m, n \in Nat : m + n - 0 = m + n
      OBVIOUS
    <3>2. Cardinality(right(x) \cap wrong(x)) = 0
      BY <2>3, <2>4
    <3>. QED
      BY <2>3, <2>4, <2>5, <3>1, <3>2
  <2>. QED
    BY <2>1, <2>2, <2>3, <2>4, <2>6, FS_EmptySet
<1>3. right(b) \subseteq right(a) /\ wrong(a) \subseteq wrong(b)
  BY DEF AsGood
<1>. HIDE DEF right, wrong
<1>4. q <= p /\ v <= w
  BY <1>2, <1>3, FS_Subset
<1>5. /\ p \in Nat /\ q \in Nat /\ v \in Nat /\ w \in Nat
      /\ Cardinality(a.cited) = p + v /\ Cardinality(b.cited) = q + w
      /\ (a.cited = {} <=> p + v = 0) /\ (b.cited = {} <=> q + w = 0)
  BY <1>2
<1>6. /\ evidence_coverage(a, c.citations) = (IF a.cited = {} THEN Zero ELSE <<p, p + v>>)
      /\ evidence_coverage(b, c.citations) = (IF b.cited = {} THEN Zero ELSE <<q, q + w>>)
      /\ answer_completeness(a, c.citations) = <<p, e>> /\ answer_completeness(b, c.citations) = <<q, e>>
  BY <1>5 DEF evidence_coverage, answer_completeness, right
<1>. HIDE DEF p, q, v, w, e
<1>7. AtMost(<<q, e>>, <<p, e>>) /\ <<p, e>> \in Frac
  BY <1>1, <1>4, <1>5, ProductsInOrder DEF AtMost, Frac
<1>8. (IF a.cited = {} THEN Zero ELSE <<p, p + v>>) \in Frac
  <2>1. p + v \in Nat
    BY <1>5
  <2>. QED
    BY <1>5, <2>1 DEF Frac, Zero
<1>9. AtMost(IF b.cited = {} THEN Zero ELSE <<q, q + w>>, IF a.cited = {} THEN Zero ELSE <<p, p + v>>)
  <2>1. CASE a.cited = {}
    <3>1. p = 0 /\ q = 0
      BY <1>4, <1>5, <2>1
    <3>. QED
      BY <1>5, <2>1, <3>1 DEF AtMost, Zero
  <2>2. CASE b.cited = {}
    BY <1>5, <2>2 DEF AtMost, Zero
  <2>3. CASE a.cited # {} /\ b.cited # {}
    <3>1. q * v <= p * w
      <4>1. q * v <= p * v /\ v * p <= w * p
        BY <1>4, <1>5, ProductsInOrder
      <4>2. v * p = p * v /\ w * p = p * w /\ q * v \in Nat /\ p * v \in Nat /\ p * w \in Nat
        BY <1>5
      <4>. QED
        BY <4>1, <4>2
    <3>2. q * (p + v) = q * p + q * v /\ p * (q + w) = q * p + p * w
      BY <1>5
    <3>3. q * p \in Nat /\ q * v \in Nat /\ p * w \in Nat
      BY <1>5
    <3>4. q * (p + v) <= p * (q + w)
      BY <3>1, <3>2, <3>3
    <3>. QED
      BY <2>3, <3>4 DEF AtMost
  <2>. QED
    BY <2>1, <2>2, <2>3
<1>. QED
  BY <1>6, <1>7, <1>8, <1>9

\* So the score in every metric is no worse.
LEMMA ScoresNoWorse ==
  ASSUME NEW c \in Cases, NEW a \in Answers, NEW b \in Answers, AsGood(c, a, b), NEW metric \in Metrics
  PROVE  Score(metric, c, a) \in Frac /\ NoWorse(metric, Score(metric, c, a), Score(metric, c, b))
<1>1. CASE metric = <<"mrr", 0>>
  <2>1. \A x : Score(metric, c, x) = reciprocal_rank(x.retrieved, c.units)
    BY <1>1 DEF Score
  <2>2. metric \notin LowerIsBetter
    BY <1>1 DEF LowerIsBetter
  <2>. QED
    BY <2>1, <2>2, FirstRankNoWorse DEF NoWorse
<1>2. ASSUME NEW name \in {"precision", "recall", "ndcg", "hit_rate"}, NEW k \in KValues, metric = <<name, k>>
      PROVE  Score(metric, c, a) \in Frac /\ NoWorse(metric, Score(metric, c, a), Score(metric, c, b))
  <2>1. metric[1] = name /\ metric[2] = k
    BY <1>2
  <2>2. metric \notin LowerIsBetter
    BY <2>1 DEF LowerIsBetter
  <2>3. CASE name = "precision"
    <3>1. \A x : Score(metric, c, x) = precision_at_k(x.retrieved, c.units, k)
      BY <2>1, <2>3 DEF Score
    <3>. QED
      BY <2>2, <3>1, ByRankNoWorse DEF NoWorse
  <2>4. CASE name = "recall"
    <3>1. \A x : Score(metric, c, x) = recall_at_k(x.retrieved, c.units, k)
      BY <2>1, <2>4 DEF Score
    <3>. QED
      BY <2>2, <3>1, ByRankNoWorse DEF NoWorse
  <2>5. CASE name = "ndcg"
    <3>1. \A x : Score(metric, c, x) = ndcg_at_k(x.retrieved, c.units, k)
      BY <2>1, <2>5 DEF Score
    <3>. QED
      BY <2>2, <3>1, ByRankNoWorse DEF NoWorse
  <2>6. CASE name = "hit_rate"
    <3>1. \A x : Score(metric, c, x) = hit_rate_at_k(x.retrieved, c.units, k)
      BY <2>1, <2>6 DEF Score
    <3>. QED
      BY <2>2, <3>1, ByRankNoWorse DEF NoWorse
  <2>. QED
    BY <2>3, <2>4, <2>5, <2>6
<1>3. CASE metric = <<"unsupported_claim_rate", 0>>
  <2>1. \A x : Score(metric, c, x) = unsupported_claim_rate(x)
    BY <1>3 DEF Score
  <2>2. metric \in LowerIsBetter
    BY <1>3 DEF LowerIsBetter
  <2>. QED
    BY <2>1, <2>2, AnsweringNoWorse DEF NoWorse
<1>4. ASSUME NEW name \in {"grounding_accuracy", "citation_accuracy", "evidence_coverage", "answer_completeness"},
             metric = <<name, 0>>
      PROVE  Score(metric, c, a) \in Frac /\ NoWorse(metric, Score(metric, c, a), Score(metric, c, b))
  <2>1. metric[1] = name
    BY <1>4
  <2>2. metric \notin LowerIsBetter
    BY <2>1 DEF LowerIsBetter
  <2>3. CASE name = "grounding_accuracy"
    <3>1. \A x : Score(metric, c, x) = grounding_accuracy(x)
      BY <2>1, <2>3 DEF Score
    <3>. QED
      BY <2>2, <3>1, AnsweringNoWorse DEF NoWorse
  <2>4. CASE name = "citation_accuracy"
    <3>1. \A x : Score(metric, c, x) = citation_accuracy(x)
      BY <2>1, <2>4 DEF Score
    <3>. QED
      BY <2>2, <3>1, AnsweringNoWorse DEF NoWorse
  <2>5. CASE name = "evidence_coverage"
    <3>1. \A x : Score(metric, c, x) = evidence_coverage(x, c.citations)
      BY <2>1, <2>5 DEF Score
    <3>. QED
      BY <2>2, <3>1, CitingNoWorse DEF NoWorse
  <2>6. CASE name = "answer_completeness"
    <3>1. \A x : Score(metric, c, x) = answer_completeness(x, c.citations)
      BY <2>1, <2>6 DEF Score
    <3>. QED
      BY <2>2, <3>1, CitingNoWorse DEF NoWorse
  <2>. QED
    BY <2>3, <2>4, <2>5, <2>6
<1>. QED
  BY <1>1, <1>2, <1>3, <1>4 DEF Metrics, RetrievalMetrics, GenerationMetrics

\* An answer is as good as itself.
LEMMA AsGoodAsItself ==
  ASSUME NEW c \in Cases, NEW a \in Answers
  PROVE  AsGood(c, a, a)
<1>1. \A n \in RelevantRanks(a.retrieved, c.units) : n <= n
  BY CasesAndAnswers DEF RelevantRanks
<1>2. a.resolved \in Nat /\ a.unresolved \in Nat /\ a.grounded \in Nat /\ a.claims \in Nat
  BY CasesAndAnswers
<1>3. AtMost(citation_accuracy(a), citation_accuracy(a)) /\ a.grounded * a.claims <= a.grounded * a.claims
  <2>1. \A m, n \in Nat : m * n <= m * n
    OBVIOUS
  <2>2. a.resolved + a.unresolved \in Nat
    BY <1>2
  <2>. QED
    BY <1>2, <2>1, <2>2 DEF citation_accuracy, AtMost, One
<1>. QED
  BY <1>1, <1>3 DEF AsGood

-----------------------------------------------------------------------------
(* The mean over a run.                                                    *)

\* A case and its answer.
Pairs == Cases \X Answers

\* The sum that Mean takes.
ScoreSum(metric, R) == FoldSet(LAMBDA r, sum : Plus(Score(metric, r[1], r[2]), sum), Zero, R)

\* A score is a fraction.
LEMMA ScoresAreTyped ==
  ASSUME NEW metric \in Metrics, NEW r \in Pairs
  PROVE  Score(metric, r[1], r[2]) \in Frac
<1>1. r[1] \in Cases /\ r[2] \in Answers
  BY DEF Pairs
<1>2. AsGood(r[1], r[2], r[2])
  BY <1>1, AsGoodAsItself
<1>. QED
  BY <1>1, <1>2, ScoresNoWorse

\* Any result can be the first in the sum.
LEMMA ScoreSumTakes ==
  ASSUME NEW metric \in Metrics, NEW R \in SUBSET Pairs, IsFiniteSet(R)
  PROVE  /\ ScoreSum(metric, R) \in Frac
         /\ R = {} => ScoreSum(metric, R) = Zero
         /\ \A r \in R : ScoreSum(metric, R) = Plus(Score(metric, r[1], r[2]), ScoreSum(metric, R \ {r}))
<1>. DEFINE s(r) == Score(metric, r[1], r[2])
            step == [p \in Pairs \X Frac |-> Plus(s(p[1]), p[2])]
<1>0. \A r \in Pairs : s(r) \in Frac
  BY ScoresAreTyped
<1>1. Zero \in Frac
  BY DEF Zero, Frac
<1>2. /\ step \in SetStepOf(Pairs, Frac)
      /\ \A r \in Pairs : \A v \in Frac : step[<<r, v>>] = Plus(s(r), v)
  BY <1>0, PlusIsTyped DEF SetStepOf
<1>. HIDE DEF step, s
<1>3. Commutes(step, Pairs, Frac)
  <2>. SUFFICES ASSUME NEW x \in Pairs, NEW y \in Pairs, NEW v \in Frac
                PROVE  step[<<x, step[<<y, v>>]>>] = step[<<y, step[<<x, v>>]>>]
    BY DEF Commutes
  <2>1. Plus(s(x), v) \in Frac /\ Plus(s(y), v) \in Frac /\ Plus(s(x), Plus(s(y), v)) = Plus(s(y), Plus(s(x), v))
    BY <1>0, PlusIsTyped, PlusCommutes
  <2>. QED
    BY <1>2, <2>1
<1>4. ASSUME NEW S \in SUBSET Pairs, IsFiniteSet(S)
      PROVE  /\ ScoreSum(metric, S) = FoldedOver(step, Zero, S) /\ ScoreSum(metric, S) \in Frac
             /\ S = {} => ScoreSum(metric, S) = Zero
  <2>1. PICK g \in [SUBSET S -> Frac] : ComputesSetFold(g, step, Zero, S)
    BY <1>1, <1>2, <1>4, SetFoldExists
  <2>2. g = [t \in SUBSET S |-> IF t = {} THEN Zero ELSE Plus(s(Pick(t)), g[t \ {Pick(t)}])]
    <3>1. ASSUME NEW t \in SUBSET S, t # {}
          PROVE  step[<<Pick(t), g[t \ {Pick(t)}]>>] = Plus(s(Pick(t)), g[t \ {Pick(t)}])
      <4>1. Pick(t) \in Pairs /\ g[t \ {Pick(t)}] \in Frac
        BY <3>1, PickIsIn
      <4>. QED
        BY <1>2, <4>1
    <3>. QED
      BY <2>1, <3>1 DEF ComputesSetFold
  <2>. DEFINE Sums(it) == it = [t \in SUBSET S |-> IF t = {} THEN Zero ELSE Plus(s(Pick(t)), it[t \ {Pick(t)}])]
  <2>3. ScoreSum(metric, S) = (CHOOSE it : Sums(it))[S]
    BY DEF ScoreSum, FoldSet, MapThenFoldSet, Pick, s
  <2>4. PICK it : Sums(it) /\ ScoreSum(metric, S) = it[S]
    <3>1. Sums(g)
      BY <2>2
    <3>. HIDE DEF Sums
    <3>. QED
      BY <2>3, <3>1
  <2>5. FollowsSetFold(it, Frac, step, Zero, S)
    <3>1. it[{}] = Zero
      BY <2>4
    <3>2. ASSUME NEW t \in SUBSET S, t # {}, it[t \ {Pick(t)}] \in Frac
          PROVE  it[t] = step[<<Pick(t), it[t \ {Pick(t)}]>>]
      <4>1. Pick(t) \in Pairs
        BY <3>2, PickIsIn
      <4>2. it[t] = Plus(s(Pick(t)), it[t \ {Pick(t)}])
        BY <2>4, <3>2
      <4>. QED
        BY <1>2, <3>2, <4>1, <4>2
    <3>. QED
      BY <3>1, <3>2 DEF FollowsSetFold
  <2>6. S = {} => ScoreSum(metric, S) = Zero
    BY <2>4
  <2>7. ScoreSum(metric, S) = FoldedOver(step, Zero, S) /\ ScoreSum(metric, S) \in Frac
    BY <1>1, <1>2, <1>4, <2>4, <2>5, FoldedOverIs
  <2>. QED
    BY <2>6, <2>7
<1>6. ScoreSum(metric, R) \in Frac /\ (R = {} => ScoreSum(metric, R) = Zero)
  BY <1>4
<1>7. ASSUME NEW r \in R
      PROVE  ScoreSum(metric, R) = Plus(s(r), ScoreSum(metric, R \ {r}))
  <2>1. FoldedOver(step, Zero, R) = step[<<r, FoldedOver(step, Zero, R \ {r})>>]
    BY <1>1, <1>2, <1>3, AnyCanBeFirst
  <2>2. R \ {r} \in SUBSET Pairs /\ IsFiniteSet(R \ {r}) /\ r \in Pairs
    BY FS_RemoveElement
  <2>3. FoldedOver(step, Zero, R \ {r}) \in Frac /\ FoldedOver(step, Zero, R \ {r}) = ScoreSum(metric, R \ {r})
    BY <1>4, <2>2
  <2>. QED
    BY <1>2, <1>4, <2>1, <2>2, <2>3
<1>. QED
  BY <1>6, <1>7 DEF s

\* Every case has one answer.
OneEach(R) == \A r, s \in R : r[1] = s[1] => r = s

\* What the run completed.
Completed(R) == {r[1] : r \in R}

\* Where one run scores as well as the other in each case, it does in all together.
LEMMA SumsNoWorse ==
  ASSUME NEW metric \in Metrics, NEW R \in SUBSET Pairs, NEW S \in SUBSET Pairs,
         IsFiniteSet(R), IsFiniteSet(S), OneEach(R), OneEach(S), Completed(R) = Completed(S),
         \A r \in R, s \in S : r[1] = s[1] => AtMost(Score(metric, s[1], s[2]), Score(metric, r[1], r[2]))
  PROVE  AtMost(ScoreSum(metric, S), ScoreSum(metric, R)) /\ Cardinality(S) = Cardinality(R)
<1>. DEFINE sc(r) == Score(metric, r[1], r[2])
            Fits(p, q) == \A r \in p, s \in q : r[1] = s[1] => AtMost(sc(s), sc(r))
            Good(p) == \A q \in SUBSET Pairs :
                         IsFiniteSet(p) /\ IsFiniteSet(q) /\ OneEach(p) /\ OneEach(q)
                           /\ Completed(p) = Completed(q) /\ Fits(p, q)
                           => AtMost(ScoreSum(metric, q), ScoreSum(metric, p)) /\ Cardinality(q) = Cardinality(p)
            T == {p \in SUBSET Pairs : Good(p)}
<1>1. {} \in T
  <2>. SUFFICES ASSUME NEW q \in SUBSET Pairs, IsFiniteSet(q), Completed({}) = Completed(q)
                PROVE  AtMost(ScoreSum(metric, q), ScoreSum(metric, {})) /\ Cardinality(q) = Cardinality({})
    OBVIOUS
  <2>1. q = {}
    <3>1. Completed({}) = {} /\ \A r \in q : r[1] \in Completed(q)
      BY DEF Completed
    <3>. QED
      BY <3>1
  <2>2. ScoreSum(metric, q) = Zero
    BY <2>1, ScoreSumTakes
  <2>. QED
    BY <2>1, <2>2 DEF AtMost, Zero
<1>2. ASSUME NEW p \in SUBSET Pairs, IsFiniteSet(p), p # {}, \A x \in p : p \ {x} \in T
      PROVE  p \in T
  <2>. SUFFICES ASSUME NEW q \in SUBSET Pairs, IsFiniteSet(q), OneEach(p), OneEach(q),
                       Completed(p) = Completed(q), Fits(p, q)
                PROVE  AtMost(ScoreSum(metric, q), ScoreSum(metric, p)) /\ Cardinality(q) = Cardinality(p)
    OBVIOUS
  <2>1. PICK x \in p : TRUE
    BY <1>2
  <2>2. PICK y \in q : y[1] = x[1]
    BY <2>1 DEF Completed
  <2>. DEFINE p1 == p \ {x}
              q1 == q \ {y}
  <2>3. Good(p1)
    BY <1>2, <2>1
  <2>4. /\ p1 \in SUBSET Pairs /\ IsFiniteSet(p1) /\ Cardinality(p1) = Cardinality(p) - 1
        /\ q1 \in SUBSET Pairs /\ IsFiniteSet(q1) /\ Cardinality(q1) = Cardinality(q) - 1
    BY <1>2, <2>1, <2>2, FS_RemoveElement
  <2>5. OneEach(p1) /\ OneEach(q1) /\ Completed(p1) = Completed(q1)
    <3>1. OneEach(p1) /\ OneEach(q1)
      BY DEF OneEach
    <3>2. Completed(p1) = Completed(p) \ {x[1]}
      BY <2>1 DEF Completed, OneEach
    <3>3. Completed(q1) = Completed(q) \ {y[1]}
      BY <2>2 DEF Completed, OneEach
    <3>. QED
      BY <2>2, <3>1, <3>2, <3>3
  <2>6. Fits(p1, q1) /\ AtMost(sc(y), sc(x))
    BY <2>1, <2>2
  <2>7. AtMost(ScoreSum(metric, q1), ScoreSum(metric, p1)) /\ Cardinality(q1) = Cardinality(p1)
    <3>. HIDE DEF p1, q1, Fits
    <3>. QED
      BY <2>3, <2>4, <2>5, <2>6
  <2>8. /\ ScoreSum(metric, p) = Plus(sc(x), ScoreSum(metric, p1))
        /\ ScoreSum(metric, q) = Plus(sc(y), ScoreSum(metric, q1))
    BY <1>2, <2>1, <2>2, ScoreSumTakes
  <2>9. sc(x) \in Frac /\ sc(y) \in Frac
    BY <2>1, <2>2, ScoresAreTyped
  <2>. HIDE DEF p1, q1, sc, Fits, Good
  <2>10. ScoreSum(metric, p1) \in Frac /\ ScoreSum(metric, q1) \in Frac
    BY <2>4, ScoreSumTakes
  <2>11. AtMost(ScoreSum(metric, q), ScoreSum(metric, p))
    BY <2>6, <2>7, <2>8, <2>9, <2>10, SumsInOrder
  <2>12. Cardinality(p) \in Nat /\ Cardinality(q) \in Nat
    BY <1>2, FS_CardinalityType
  <2>. QED
    BY <2>4, <2>7, <2>11, <2>12
<1>3. R \in T
  <2>. HIDE DEF T
  <2>. QED
    BY <1>1, <1>2, FiniteInduction
<1>4. Good(R) /\ Fits(R, S)
  BY <1>3
<1>. HIDE DEF Fits
<1>. QED
  BY <1>4

\* A mean is a fraction, and means are in the order of the sums.
LEMMA MeansNoWorse ==
  ASSUME NEW metric \in Metrics, NEW b \in SUBSET Pairs, NEW c \in SUBSET Pairs,
         IsFiniteSet(b), IsFiniteSet(c), OneEach(b), OneEach(c), b # {}, NowhereWorse(b, c)
  PROVE  /\ Mean(metric, b) \in Frac /\ Mean(metric, c) \in Frac
         /\ NoWorse(metric, Mean(metric, c), Mean(metric, b))
<1>. DEFINE x == ScoreSum(metric, b)
            y == ScoreSum(metric, c)
            n == Cardinality(b)
<1>1. x \in Frac /\ y \in Frac
  BY ScoreSumTakes
<1>2. Completed(b) = Completed(c)
  BY DEF NowhereWorse, Completed
<1>3. ASSUME NEW r \in c, NEW s \in b, r[1] = s[1]
      PROVE  NoWorse(metric, Score(metric, r[1], r[2]), Score(metric, s[1], s[2]))
  <2>1. PICK t \in b : t[1] = r[1] /\ AsGood(r[1], r[2], t[2])
    BY DEF NowhereWorse
  <2>2. t = s
    BY <1>3, <2>1 DEF OneEach
  <2>3. r[1] \in Cases /\ r[2] \in Answers /\ s[2] \in Answers
    BY DEF Pairs
  <2>. QED
    BY <1>3, <2>1, <2>2, <2>3, ScoresNoWorse
<1>4. /\ Cardinality(c) = n
      /\ IF metric \in LowerIsBetter THEN AtMost(y, x) ELSE AtMost(x, y)
  <2>1. CASE metric \in LowerIsBetter
    <3>1. \A r \in b, s \in c : r[1] = s[1] => AtMost(Score(metric, s[1], s[2]), Score(metric, r[1], r[2]))
      BY <1>3, <2>1 DEF NoWorse
    <3>. QED
      BY <1>2, <2>1, <3>1, SumsNoWorse
  <2>2. CASE metric \notin LowerIsBetter
    <3>1. \A r \in c, s \in b : r[1] = s[1] => AtMost(Score(metric, s[1], s[2]), Score(metric, r[1], r[2]))
      BY <1>3, <2>2 DEF NoWorse
    <3>. QED
      BY <1>2, <2>2, <3>1, SumsNoWorse
  <2>. QED
    BY <2>1, <2>2
<1>5. n \in Nat \ {0}
  BY FS_CardinalityType, FS_EmptySet
<1>6. Mean(metric, b) = <<x[1], x[2] * n>> /\ Mean(metric, c) = <<y[1], y[2] * n>>
  BY <1>4 DEF Mean, ScoreSum
<1>. HIDE DEF x, y, n
<1>7. ASSUME NEW u \in Frac
      PROVE  /\ u[1] \in Nat /\ u[2] \in Nat \ {0} /\ u[2] * n \in Nat \ {0}
             /\ <<u[1], u[2] * n>> \in Frac
  <2>1. u[1] \in Nat /\ u[2] \in Nat \ {0}
    BY DEF Frac
  <2>2. \A k, m \in Nat \ {0} : k * m \in Nat \ {0}
    OBVIOUS
  <2>3. u[2] * n \in Nat \ {0}
    BY <1>5, <2>1, <2>2
  <2>. QED
    BY <2>1, <2>3 DEF Frac
<1>8. ASSUME NEW u \in Frac, NEW v \in Frac, AtMost(u, v)
      PROVE  AtMost(<<u[1], u[2] * n>>, <<v[1], v[2] * n>>)
  <2>1. u[1] * v[2] <= v[1] * u[2]
    BY <1>8 DEF AtMost
  <2>2. u[1] \in Nat /\ u[2] \in Nat /\ v[1] \in Nat /\ v[2] \in Nat /\ n \in Nat
    BY <1>5, <1>7
  <2>3. u[1] * v[2] \in Nat /\ v[1] * u[2] \in Nat
    BY <2>2
  <2>4. (u[1] * v[2]) * n <= (v[1] * u[2]) * n
    BY <2>1, <2>2, <2>3, ProductsInOrder
  <2>5. u[1] * (v[2] * n) = (u[1] * v[2]) * n /\ v[1] * (u[2] * n) = (v[1] * u[2]) * n
    BY <2>2
  <2>. QED
    BY <2>4, <2>5 DEF AtMost
<1>. QED
  BY <1>1, <1>4, <1>6, <1>7, <1>8 DEF NoWorse

\* What is no worse is no regression; the other way round, it is no improvement.
LEMMA DirectionsAreFair ==
  ASSUME NEW metric, NEW x \in Frac, NEW y \in Frac, NoWorse(metric, y, x)
  PROVE  Direction(metric, x, y) # "regression" /\ Direction(metric, y, x) # "improvement"
<1>1. /\ x[1] \in Nat /\ x[2] \in Nat \ {0} /\ y[1] \in Nat /\ y[2] \in Nat \ {0}
  BY DEF Frac
<1>2. ASSUME NEW p \in Nat, NEW q \in Nat \ {0}, NEW r \in Nat, NEW s \in Nat \ {0}, p * s = r * q
      PROVE  /\ p = 0 => r = 0
             /\ p # 0 => p * s \in Nat \ {0}
             /\ r * q - p * s = 0 /\ -(r * q - p * s) = 0
  <2>1. \A k, m \in Nat : k * m \in Nat /\ (k # 0 /\ m # 0 => k * m # 0)
    OBVIOUS
  <2>2. p = 0 => p * s = 0
    OBVIOUS
  <2>3. p * s \in Nat /\ r * q \in Nat /\ (p # 0 => p * s # 0) /\ (r # 0 => r * q # 0)
    BY <2>1
  <2>. QED
    BY <1>2, <2>2, <2>3
<1>3. ASSUME NEW b \in Frac, NEW c \in Frac, AtMost(b, c), AtMost(c, b)
      PROVE  ~IsMarked(b, c)
  <2>1. b[1] \in Nat /\ b[2] \in Nat \ {0} /\ c[1] \in Nat /\ c[2] \in Nat \ {0}
    BY DEF Frac
  <2>2. b[1] * c[2] = c[1] * b[2]
    <3>1. b[1] * c[2] \in Nat /\ c[1] * b[2] \in Nat
      BY <2>1
    <3>. QED
      BY <1>3, <3>1 DEF AtMost
  <2>3. /\ b[1] = 0 => c[1] = 0
        /\ b[1] # 0 => b[1] * c[2] \in Nat \ {0}
        /\ c[1] * b[2] - b[1] * c[2] = 0 /\ -(c[1] * b[2] - b[1] * c[2]) = 0
    <3>. DEFINE p == b[1]
                q == b[2]
                r == c[1]
                s == c[2]
    <3>1. p \in Nat /\ q \in Nat \ {0} /\ r \in Nat /\ s \in Nat \ {0} /\ p * s = r * q
      BY <2>1, <2>2
    <3>. HIDE DEF p, q, r, s
    <3>2. /\ p = 0 => r = 0
          /\ p # 0 => p * s \in Nat \ {0}
          /\ r * q - p * s = 0 /\ -(r * q - p * s) = 0
      BY <1>2, <3>1
    <3>. QED
      BY <3>2 DEF p, q, r, s
  <2>4. CASE b[1] = 0
    <3>1. ~(c[1] * 2000 >= c[2])
      BY <2>1, <2>3, <2>4
    <3>. QED
      BY <2>4, <3>1 DEF IsMarked
  <2>5. CASE b[1] # 0
    <3>1. \A d \in {c[1] * b[2] - b[1] * c[2], -(c[1] * b[2] - b[1] * c[2])} : ~(d * 20 >= b[1] * c[2])
      BY <2>3, <2>5
    <3>. QED
      BY <2>5, <3>1 DEF IsMarked
  <2>. QED
    BY <2>4, <2>5
<1>4. CASE metric \in LowerIsBetter
  <2>1. AtMost(y, x)
    BY <1>4 DEF NoWorse
  <2>2. Direction(metric, x, y) # "regression"
    BY <1>4, <2>1 DEF Direction
  <2>3. AtMost(x, y) => ~IsMarked(y, x)
    BY <1>3, <2>1
  <2>4. Direction(metric, y, x) # "improvement"
    BY <1>4, <2>3 DEF Direction
  <2>. QED
    BY <2>2, <2>4
<1>5. CASE metric \notin LowerIsBetter
  <2>1. AtMost(x, y)
    BY <1>5 DEF NoWorse
  <2>2. AtMost(y, x) => ~IsMarked(x, y)
    BY <1>3, <2>1
  <2>3. Direction(metric, x, y) # "regression"
    <3>1. CASE AtMost(y, x)
      BY <2>2, <3>1 DEF Direction
    <3>2. CASE ~AtMost(y, x)
      <4>1. (metric \in LowerIsBetter) = (AtMost(y, x))
        <5>1. AtMost(y, x) \in BOOLEAN /\ (metric \in LowerIsBetter) \in BOOLEAN
          BY <1>1 DEF AtMost
        <5>. QED
          BY <1>5, <3>2, <5>1
      <4>. QED
        BY <4>1 DEF Direction
    <3>. QED
      BY <3>1, <3>2
  <2>4. Direction(metric, y, x) # "improvement"
    BY <1>5, <2>1 DEF Direction
  <2>. QED
    BY <2>3, <2>4
<1>. QED
  BY <1>4, <1>5

\* Two sets of results of which the second is nowhere worse.
LEMMA ComparisonsAreFair ==
  ASSUME NEW b \in SUBSET Pairs, NEW c \in SUBSET Pairs, IsFiniteSet(b), IsFiniteSet(c),
         OneEach(b), OneEach(c), NowhereWorse(b, c)
  PROVE  QualityIn(b, c, "regression") = {} /\ QualityIn(c, b, "improvement") = {}
<1>1. ASSUME NEW metrics, metrics \subseteq Metrics
      PROVE  Compared(metrics, b, c, "regression") = {} /\ Compared(metrics, c, b, "improvement") = {}
  <2>1. ASSUME b # {}, NEW m \in metrics
        PROVE  /\ Direction(m, Mean(m, b), Mean(m, c)) # "regression"
               /\ Direction(m, Mean(m, c), Mean(m, b)) # "improvement"
    <3>1. m \in Metrics
      BY <1>1
    <3>2. Mean(m, b) \in Frac /\ Mean(m, c) \in Frac /\ NoWorse(m, Mean(m, c), Mean(m, b))
      BY <2>1, <3>1, MeansNoWorse
    <3>. QED
      BY <3>2, DirectionsAreFair
  <2>2. ASSUME NEW R
        PROVE  /\ DOMAIN Aggregate(metrics, R) = (IF R = {} THEN {} ELSE metrics)
               /\ \A m \in DOMAIN Aggregate(metrics, R) : Aggregate(metrics, R)[m] = Mean(m, R)
    BY DEF Aggregate
  <2>3. ASSUME NEW m \in Compared(metrics, b, c, "regression")
        PROVE  FALSE
    <3>1. /\ m \in DOMAIN Aggregate(metrics, b) /\ m \in DOMAIN Aggregate(metrics, c)
          /\ Direction(m, Aggregate(metrics, b)[m], Aggregate(metrics, c)[m]) = "regression"
      BY DEF Compared
    <3>2. b # {} /\ m \in metrics /\ Aggregate(metrics, b)[m] = Mean(m, b) /\ Aggregate(metrics, c)[m] = Mean(m, c)
      BY <2>2, <3>1
    <3>. QED
      BY <2>1, <3>1, <3>2
  <2>4. ASSUME NEW m \in Compared(metrics, c, b, "improvement")
        PROVE  FALSE
    <3>1. /\ m \in DOMAIN Aggregate(metrics, b) /\ m \in DOMAIN Aggregate(metrics, c)
          /\ Direction(m, Aggregate(metrics, c)[m], Aggregate(metrics, b)[m]) = "improvement"
      BY DEF Compared
    <3>2. b # {} /\ m \in metrics /\ Aggregate(metrics, b)[m] = Mean(m, b) /\ Aggregate(metrics, c)[m] = Mean(m, c)
      BY <2>2, <3>1
    <3>. QED
      BY <2>1, <3>1, <3>2
  <2>. QED
    BY <2>3, <2>4
<1>. QED
  BY <1>1 DEF QualityIn, Metrics

-----------------------------------------------------------------------------
(* Reports.                                                                *)

\* Results that can be compared with others.
AreComparable(R) == R \in SUBSET Pairs /\ IsFiniteSet(R) /\ OneEach(R)

\* What a report compares are two such sets, of which one is in a summary that stands.
ReportsCompareRuns ==
  /\ \A i \in Instances : Busy(i) => OneEach(results[i])
  /\ \A r \in Runs : summaries[r] \notin {Absent, Torn} => AreComparable(summaries[r].results)
  /\ \A i \in Instances :
       /\ pc[i] = "find_latest" => baseline[i] = 0
       /\ pc[i] \in {"run", "save"} /\ baseline[i] # 0 =>
            baseline[i] \in Runs /\ summaries[baseline[i]] \notin {Absent, Torn}

\* The inductive invariant.
ReportInvariant == LatestInvariant /\ ReportsCompareRuns

\* The results of an instance can be compared.
LEMMA ResultsAreComparable ==
  ASSUME NEW i \in Instances, AccountedSoFar(i), OneEach(results[i])
  PROVE  AreComparable(results[i])
<1>1. dataset[i] \in Datasets /\ results[i] \subseteq Range(dataset[i]) \X Answers /\ IsFiniteSet(results[i])
  BY DEF AccountedSoFar
<1>2. Range(dataset[i]) \subseteq Cases
  BY <1>1 DEF Cases
<1>. QED
  BY <1>1, <1>2 DEF AreComparable, Pairs

\* A step writes a summary only where there is none that is complete.
LEMMA CompleteSummariesStand ==
  ASSUME LatestInvariant, [Next]_vars, NEW r \in Runs
  PROVE  \/ summaries'[r] = summaries[r]
         \/ summaries[r] \in {Absent, Torn} /\ summaries'[r] = Torn
         \/ /\ summaries[r] \in {Absent, Torn}
            /\ \E i \in Instances : Busy(i) /\ AccountedSoFar(i) /\ summaries'[r] = Summary(i)
<1>. USE DEF LatestInvariant
<1>1. CASE summaries' = summaries
  BY <1>1
<1>2. ASSUME NEW i \in Instances, SaveSummary(i)
      PROVE  \/ summaries'[r] = summaries[r]
             \/ r = run[i] /\ pc[i] = "save" /\ summaries[r] = Absent /\ summaries'[r] = Torn
             \/ r = run[i] /\ pc[i] = "saving" /\ summaries[r] = Torn /\ summaries'[r] = Summary(i)
  BY <1>2 DEF SaveSummary, Types, SummariesFollowRuns, Before
<1>3. ASSUME NEW i \in Instances, SaveSummary(i)
      PROVE  Busy(i) /\ AccountedSoFar(i)
  BY <1>3 DEF SaveSummary, Busy, CasesAreAccounted
<1>4. ASSUME NEW i \in Instances,
             \/ LoadDataset(i) \/ FindLatest(i) \/ LoadLatest(i) \/ CompleteCase(i) \/ FailCase(i)
             \/ Finish(i) \/ SaveReport(i) \/ End(i)
      PROVE  summaries' = summaries
  BY <1>4 DEF LoadDataset, FindLatest, LoadLatest, CompleteCase, FailCase, Finish, SaveReport, End, disk
<1>5. CASE UNCHANGED vars
  BY <1>5 DEF vars, disk
<1>. QED
  BY <1>1, <1>2, <1>3, <1>4, <1>5 DEF Next

\* Each case that is answered has not been answered before.
LEMMA AnswersStaySingle ==
  ASSUME LatestInvariant, ReportsCompareRuns, [Next]_vars, NEW i \in Instances, Busy(i)'
  PROVE  OneEach(results'[i])
<1>. USE DEF LatestInvariant
<1>1. CASE LoadDataset(i)
  <2>1. results'[i] = {}
    BY <1>1 DEF LoadDataset, Types
  <2>. QED
    BY <2>1 DEF OneEach
<1>2. CASE CompleteCase(i)
  <2>. DEFINE c == dataset[i][at[i]]
  <2>1. Running(i) /\ Busy(i) /\ AccountedSoFar(i) /\ OneEach(results[i])
    BY <1>2 DEF CompleteCase, Running, Busy, CasesAreAccounted, ReportsCompareRuns
  <2>2. PICK a \in Answers : results' = [results EXCEPT ![i] = @ \cup {<<c, a>>}]
    BY <1>2 DEF CompleteCase
  <2>3. results'[i] = results[i] \cup {<<c, a>>}
    BY <2>2 DEF Types
  <2>4. \A r \in results[i] : r[1] # c
    <3>1. c \notin Seen(i)
      BY <2>1, NextCase
    <3>2. \A r \in results[i] : r[1] \in Seen(i)
      BY <2>1 DEF AccountedSoFar
    <3>. QED
      BY <3>1, <3>2
  <2>5. <<c, a>>[1] = c
    OBVIOUS
  <2>. HIDE DEF c
  <2>. QED
    BY <2>1, <2>3, <2>4, <2>5 DEF OneEach
<1>3. CASE ~LoadDataset(i) /\ ~CompleteCase(i)
  <2>1. results'[i] = results[i] /\ Busy(i)
    <3>1. CASE UNCHANGED vars
      BY <3>1 DEF vars, local, Busy
    <3>2. ASSUME NEW j \in Instances,
                 \/ LoadDataset(j) \/ FindLatest(j) \/ LoadLatest(j)
                 \/ CompleteCase(j) \/ FailCase(j) \/ Finish(j)
                 \/ SaveSummary(j) \/ SaveReport(j) \/ End(j)
          PROVE  results'[i] = results[i] /\ Busy(i)
      <4>1. CASE j = i
        BY <1>3, <3>2, <4>1 DEF FindLatest, LoadLatest, FailCase, Running, Finish, SaveSummary, SaveReport, Reports, End,
           local, Busy
      <4>2. CASE j # i
        BY <3>2, <4>2 DEF Types, LoadDataset, FindLatest, LoadLatest, CompleteCase, FailCase, Finish, SaveSummary,
           SaveReport, End, Goto, local, Busy
      <4>. QED
        BY <4>1, <4>2
    <3>. QED
      BY <3>1, <3>2 DEF Next
  <2>. QED
    BY <2>1 DEF ReportsCompareRuns
<1>. QED
  BY <1>1, <1>2, <1>3

\* What an instance read before its first case it keeps.
LEMMA BaselinesStand ==
  ASSUME LatestInvariant, ReportsCompareRuns, [Next]_vars, NEW i \in Instances
  PROVE  /\ pc'[i] = "find_latest" => baseline'[i] = 0
         /\ pc'[i] \in {"run", "save"} /\ baseline'[i] # 0 =>
              baseline'[i] \in Runs /\ summaries[baseline'[i]] \notin {Absent, Torn}
<1>. USE DEF LatestInvariant
<1>1. CASE UNCHANGED vars
  BY <1>1 DEF vars, local, ReportsCompareRuns
<1>2. ASSUME NEW j \in Instances, j # i,
             \/ LoadDataset(j) \/ FindLatest(j) \/ LoadLatest(j)
             \/ CompleteCase(j) \/ FailCase(j) \/ Finish(j)
             \/ SaveSummary(j) \/ SaveReport(j) \/ End(j)
      PROVE  pc'[i] = pc[i] /\ baseline'[i] = baseline[i]
  BY <1>2 DEF Types, LoadDataset, FindLatest, LoadLatest, CompleteCase, FailCase, Finish, SaveSummary,
     SaveReport, End, Goto, local
<1>3. CASE LoadDataset(i)
  BY <1>3 DEF LoadDataset, Goto, Types
<1>4. CASE FindLatest(i)
  <2>1. pc[i] = "find_latest" /\ baseline[i] = 0
    BY <1>4 DEF FindLatest, ReportsCompareRuns
  <2>2. pc'[i] # "find_latest" /\ (pc'[i] \in {"run", "save"} => baseline'[i] = baseline[i])
    BY <1>4 DEF FindLatest, Goto, Types
  <2>. QED
    BY <2>1, <2>2
<1>5. CASE LoadLatest(i)
  <2>1. baseline[i] \in Runs /\ baseline' = baseline
    BY <1>5 DEF LoadLatest, SummariesFollowRuns, local
  <2>2. pc'[i] # "find_latest" /\ (pc'[i] \in {"run", "save"} => summaries[baseline[i]] \notin {Absent, Torn})
    BY <1>5 DEF LoadLatest, Goto, Types
  <2>. QED
    BY <2>1, <2>2
<1>6. CASE CompleteCase(i) \/ FailCase(i) \/ Finish(i)
  <2>1. pc[i] = "run" /\ baseline' = baseline /\ pc'[i] # "find_latest"
    BY <1>6 DEF CompleteCase, FailCase, Running, Finish, Goto, Types, local
  <2>. QED
    BY <2>1 DEF ReportsCompareRuns
<1>7. CASE SaveSummary(i) \/ SaveReport(i) \/ End(i)
  <2>1. baseline' = baseline /\ (pc'[i] \notin {"find_latest", "run", "save"} \/ pc'[i] = pc[i])
    BY <1>7 DEF SaveSummary, SaveReport, Reports, End, Goto, Types, local
  <2>. QED
    BY <2>1 DEF ReportsCompareRuns
<1>. QED
  BY <1>1, <1>2, <1>3, <1>4, <1>5, <1>6, <1>7 DEF Next, ReportsCompareRuns

\* No step leaves a report without what it compares.
LEMMA ReportsKeepComparing ==
  ASSUME LatestInvariant, ReportsCompareRuns, [Next]_vars
  PROVE  ReportsCompareRuns'
<1>1. ASSUME NEW i \in Instances, Busy(i)'
      PROVE  OneEach(results'[i])
  BY <1>1, AnswersStaySingle
<1>2. ASSUME NEW r \in Runs, summaries'[r] \notin {Absent, Torn}
      PROVE  AreComparable(summaries'[r].results)
  <2>1. CASE summaries'[r] = summaries[r]
    BY <1>2, <2>1 DEF ReportsCompareRuns
  <2>2. ASSUME NEW i \in Instances, Busy(i), AccountedSoFar(i), summaries'[r] = Summary(i)
        PROVE  AreComparable(summaries'[r].results)
    <3>1. AreComparable(results[i])
      BY <2>2, ResultsAreComparable DEF ReportsCompareRuns
    <3>. QED
      BY <2>2, <3>1 DEF Summary
  <2>. QED
    BY <1>2, <2>1, <2>2, CompleteSummariesStand
<1>3. ASSUME NEW r \in Runs, summaries[r] \notin {Absent, Torn}
      PROVE  summaries'[r] \notin {Absent, Torn}
  BY <1>3, CompleteSummariesStand
<1>4. ASSUME NEW i \in Instances
      PROVE  /\ pc'[i] = "find_latest" => baseline'[i] = 0
             /\ pc'[i] \in {"run", "save"} /\ baseline'[i] # 0 =>
                  baseline'[i] \in Runs /\ summaries'[baseline'[i]] \notin {Absent, Torn}
  BY <1>3, BaselinesStand
<1>. QED
  BY <1>1, <1>2, <1>4 DEF ReportsCompareRuns

\* Unless an answer got worse, or a case failed in one of the two runs only, a report shows no
\* metric that regressed, and none that improved the other way round: however many
\* instances write, whatever the cases and answers, cutoffs and gains
\* (comparison.py, the metrics and the aggregation of benchmark_runner.py).
THEOREM ReportsStayFair == Spec => []ReportsAreFair
<1>1. Init => ReportInvariant
  <2>. SUFFICES ASSUME Init
                PROVE  ReportInvariant
    OBVIOUS
  <2>1. LatestInvariant
    BY LatestBegins
  <2>2. ReportsCompareRuns
    <3>1. \A i \in Instances : pc[i] = "idle"
      BY DEF Init
    <3>2. \A r \in Runs : summaries[r] = Absent
      BY DEF Init
    <3>. QED
      BY <3>1, <3>2 DEF ReportsCompareRuns, Busy
  <2>. QED
    BY <2>1, <2>2 DEF ReportInvariant
<1>2. ReportInvariant /\ [Next]_vars => ReportInvariant'
  <2>. SUFFICES ASSUME ReportInvariant, [Next]_vars
                PROVE  ReportInvariant'
    OBVIOUS
  <2>. QED
    BY LatestIsInductive, ReportsKeepComparing DEF ReportInvariant
<1>3. ReportInvariant => ReportsAreFair
  <2>. SUFFICES ASSUME ReportInvariant, NEW i \in Instances, pc[i] = "save", baseline[i] # 0
                PROVE  LET b == summaries[baseline[i]].results
                           c == results[i]
                       IN  /\ NowhereWorse(b, c) => QualityIn(b, c, "regression") = {}
                           /\ NowhereWorse(c, b) => QualityIn(b, c, "improvement") = {}
    BY DEF ReportsAreFair
  <2>1. AreComparable(summaries[baseline[i]].results)
    BY DEF ReportInvariant, ReportsCompareRuns
  <2>2. AreComparable(results[i])
    BY ResultsAreComparable DEF ReportInvariant, ReportsCompareRuns, LatestInvariant, CasesAreAccounted, Busy
  <2>3. ASSUME NEW b, NEW c, AreComparable(b), AreComparable(c)
        PROVE  /\ NowhereWorse(b, c) => QualityIn(b, c, "regression") = {}
               /\ NowhereWorse(c, b) => QualityIn(b, c, "improvement") = {}
    BY <2>3, ComparisonsAreFair DEF AreComparable
  <2>. QED
    BY <2>1, <2>2, <2>3
<1>. QED
  BY <1>1, <1>2, <1>3, PTL DEF Spec

===============================================================================
