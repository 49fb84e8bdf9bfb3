------------------------------ MODULE Evaluation ------------------------------
(***************************************************************************)
(* POST /evaluation/run: a dataset of cases is put to the pipeline, the    *)
(* answers are scored, compared with the latest run before, and written    *)
(* (EvaluationService, BenchmarkRunner, EvaluationRepository).             *)
(*                                                                         *)
(* Instances of the backend share the directory of the runs.  One instance *)
(* runs one benchmark at a time: the route is async, the service is not.   *)
(* A file that is being written, or that was when its writer died, is torn.*)
(* GET /evaluation/report reads what FindLatest and LoadLatest read.       *)
(***************************************************************************)
EXTENDS BenchmarkMetrics

CONSTANTS
  Instances,    \* backends that share the storage
  Datasets,     \* what the dataset file may hold: sequences of cases
  Answers,      \* answers the pipeline may give
  MaxRuns,      \* bound on the benchmarks that get as far as their first case
  Absent, Torn  \* states of a file

Runs == 1..MaxRuns

\* What a benchmark.json may hold.
Summaries ==
  UNION {[dataset: {cases}, results: SUBSET (Range(cases) \X Answers), failures: SUBSET Range(cases)] :
           cases \in Datasets}

ASSUME BoundIsPositive == MaxRuns \in Nat \ {0}
ASSUME DatasetsAreSequences == \A cases \in Datasets : cases \in Seq(Range(cases))
\* Every case names units and citations (EvaluationCase).
ASSUME CasesNameUnits ==
  \A cases \in Datasets : \A c \in Range(cases) :
    /\ IsFiniteSet(c.units) /\ c.units # {}
    /\ IsFiniteSet(c.citations) /\ c.citations # {}

\* A unit is retrieved once.  An answer without a claim cannot be scored, which ends the call.
ASSUME AnswersCanBeScored ==
  \A a \in Answers :
    /\ a.retrieved \in Seq(Range(a.retrieved)) /\ IsInjective(a.retrieved)
    /\ IsFiniteSet(a.cited)
    /\ a.resolved \in Nat /\ a.unresolved \in Nat
    /\ a.claims \in Nat \ {0} /\ a.grounded \in 0..a.claims

ASSUME FileStatesAreDistinct ==
  Absent # Torn /\ {Absent, Torn} \cap Runs = {} /\ {Absent, Torn} \cap Summaries = {}

VARIABLES
  pc,         \* where each instance stands
  run,        \* benchmark_id of its run
  dataset,    \* the cases it loaded
  baseline,   \* benchmark_id of previous_summary, 0 if there is none
  at,         \* the case it looks at
  results,    \* pairs of completed cases and their answers
  failures,   \* cases that failed
  started,    \* number of benchmark ids given out
  summaries,  \* benchmark.json of each run
  reports,    \* benchmark.md and benchmark.html of each run
  latest      \* latest.json

local == <<run, dataset, baseline, at, results, failures>>
disk  == <<summaries, reports, latest>>
vars  == <<pc, local, started, disk>>

Reports == {"benchmark.md", "benchmark.html"}

Summary(i) == [dataset |-> dataset[i], results |-> results[i], failures |-> failures[i]]

Init ==
  /\ pc = [i \in Instances |-> "idle"] /\ run = [i \in Instances |-> 0]
  /\ dataset = [i \in Instances |-> <<>>] /\ baseline = [i \in Instances |-> 0]
  /\ at = [i \in Instances |-> 1]
  /\ results = [i \in Instances |-> {}] /\ failures = [i \in Instances |-> {}]
  /\ started = 0
  /\ summaries = [r \in Runs |-> Absent]
  /\ reports = [r \in Runs |-> [f \in Reports |-> Absent]]
  /\ latest = Absent

Goto(i, step) == pc' = [pc EXCEPT ![i] = step]

-----------------------------------------------------------------------------
(* Before the first case.                                                  *)

\* validate_dataset: there are cases and none is there twice.
IsValid(cases) == cases # <<>> /\ IsInjective(cases)

\* The file may change between two runs; a call with an invalid one is refused.
LoadDataset(i) ==
  /\ pc[i] = "idle" /\ started < MaxRuns
  /\ \E cases \in Datasets :
       /\ IsValid(cases)
       /\ dataset' = [dataset EXCEPT ![i] = cases]
  /\ started' = started + 1
  /\ run' = [run EXCEPT ![i] = started']
  /\ baseline' = [baseline EXCEPT ![i] = 0]
  /\ at' = [at EXCEPT ![i] = 1]
  /\ results' = [results EXCEPT ![i] = {}]
  /\ failures' = [failures EXCEPT ![i] = {}]
  /\ Goto(i, "find_latest")
  /\ UNCHANGED disk

\* load_latest_summary reads the pointer, then the summary it names.  Without
\* a pointer there is nothing to compare with; one that is torn ends the call.
FindLatest(i) ==
  /\ pc[i] = "find_latest"
  /\ \/ latest = Absent /\ Goto(i, "run") /\ UNCHANGED baseline
     \/ latest = Torn /\ Goto(i, "idle") /\ UNCHANGED baseline
     \/ latest \in Runs /\ Goto(i, "load_latest") /\ baseline' = [baseline EXCEPT ![i] = latest]
  /\ UNCHANGED <<run, dataset, at, results, failures, started, disk>>

\* A summary that is missing or torn ends the call.
LoadLatest(i) ==
  /\ pc[i] = "load_latest"
  /\ Goto(i, IF summaries[baseline[i]] \in {Absent, Torn} THEN "idle" ELSE "run")
  /\ UNCHANGED <<local, started, disk>>

-----------------------------------------------------------------------------
(* The cases.                                                              *)

Running(i) == pc[i] = "run" /\ at[i] <= Len(dataset[i])

CompleteCase(i) ==
  /\ Running(i)
  /\ \E a \in Answers : results' = [results EXCEPT ![i] = @ \cup {<<dataset[i][at[i]], a>>}]
  /\ at' = [at EXCEPT ![i] = @ + 1]
  /\ UNCHANGED <<pc, run, dataset, baseline, failures, started, disk>>

\* Mutant: a failed case is left out.
FailCase_Silently(i) ==
  /\ Running(i)
  /\ at' = [at EXCEPT ![i] = @ + 1]
  /\ UNCHANGED <<pc, run, dataset, baseline, results, failures, started, disk>>

\* A RetrievalError or GenerationError is recorded and the run goes on.
FailCase(i) ==
  /\ Running(i)
  /\ failures' = [failures EXCEPT ![i] = @ \cup {dataset[i][at[i]]}]
  /\ at' = [at EXCEPT ![i] = @ + 1]
  /\ UNCHANGED <<pc, run, dataset, baseline, results, started, disk>>

\* The report compares the run with the summary that was loaded before it.
Finish(i) ==
  /\ pc[i] = "run" /\ at[i] > Len(dataset[i])
  /\ Goto(i, "save")
  /\ UNCHANGED <<local, started, disk>>

-----------------------------------------------------------------------------
(* The files: opening one for writing tears it, closing it completes it.   *)

\* Mutant: the pointer is moved first.
SaveSummary_PointerFirst(i) ==
  /\ \/ pc[i] = "save" /\ latest' = Torn /\ Goto(i, "mark") /\ UNCHANGED summaries
     \/ pc[i] = "mark" /\ latest' = run[i] /\ Goto(i, "saving") /\ UNCHANGED summaries
     \/ /\ pc[i] = "saving"
        /\ summaries' = [summaries EXCEPT ![run[i]] = Torn]
        /\ Goto(i, "marking") /\ UNCHANGED latest
     \/ /\ pc[i] = "marking"
        /\ summaries' = [summaries EXCEPT ![run[i]] = Summary(i)]
        /\ Goto(i, "benchmark.md") /\ UNCHANGED latest
  /\ UNCHANGED <<local, started, reports>>

\* save_summary: the summary, then the pointer to it.
SaveSummary(i) ==
  /\ \/ /\ pc[i] = "save"
        /\ summaries' = [summaries EXCEPT ![run[i]] = Torn]
        /\ Goto(i, "saving") /\ UNCHANGED latest
     \/ /\ pc[i] = "saving"
        /\ summaries' = [summaries EXCEPT ![run[i]] = Summary(i)]
        /\ Goto(i, "mark") /\ UNCHANGED latest
     \/ pc[i] = "mark" /\ latest' = Torn /\ Goto(i, "marking") /\ UNCHANGED summaries
     \/ pc[i] = "marking" /\ latest' = run[i] /\ Goto(i, "benchmark.md") /\ UNCHANGED summaries
  /\ UNCHANGED <<local, started, reports>>

\* The Markdown report, then the HTML report; then the call returns.
SaveReport(i) ==
  /\ pc[i] \in Reports
  /\ LET file == pc[i]
     IN  IF reports[run[i]][file] = Absent
         THEN reports' = [reports EXCEPT ![run[i]][file] = Torn] /\ UNCHANGED pc
         ELSE /\ reports' = [reports EXCEPT ![run[i]][file] = baseline[i]]
              /\ Goto(i, IF file = "benchmark.md" THEN "benchmark.html" ELSE "idle")
  /\ UNCHANGED <<local, started, summaries, latest>>

\* A write that fails, any other exception or the end of the process ends the
\* call and leaves the files as they are.
End(i) ==
  /\ pc[i] # "idle"
  /\ Goto(i, "idle")
  /\ UNCHANGED <<local, started, disk>>

Next ==
  \E i \in Instances :
    \/ LoadDataset(i) \/ FindLatest(i) \/ LoadLatest(i)
    \/ CompleteCase(i) \/ FailCase(i) \/ Finish(i)
    \/ SaveSummary(i) \/ SaveReport(i) \/ End(i)

Spec == Init /\ [][Next]_vars

-----------------------------------------------------------------------------

\* Every case of the dataset has one result or one failure, never both.
IsAccounted(s) ==
  /\ {r[1] : r \in s.results} \cup s.failures = Range(s.dataset)
  /\ Cardinality(s.results) + Cardinality(s.failures) = Len(s.dataset)

\* Whatever instance dies or fails at whatever write, and however two of them
\* interleave: a pointer that can be read leads to a complete summary, also for
\* one who read it before, and a complete summary accounts for every case.
LatestIsComplete ==
  /\ latest \in Runs => summaries[latest] \notin {Absent, Torn}
  /\ \A i \in Instances : pc[i] = "load_latest" => summaries[baseline[i]] \notin {Absent, Torn}
  /\ \A r \in Runs : summaries[r] \notin {Absent, Torn} => IsAccounted(summaries[r])

\* Answer a serves the case at least as well as b: at every depth it has the
\* relevant units that b has, it cites no wrong unit and misses no right one
\* that b does not, and no smaller share of its claims and labels holds.
AsGood(c, a, b) ==
  /\ \A n \in RelevantRanks(b.retrieved, c.units) : \E m \in RelevantRanks(a.retrieved, c.units) :
       m <= n /\ a.retrieved[m] = b.retrieved[n]
  /\ b.cited \cap c.citations \subseteq a.cited
  /\ a.cited \subseteq b.cited \cup c.citations
  /\ b.grounded * a.claims <= a.grounded * b.claims
  /\ AtMost(citation_accuracy(b), citation_accuracy(a))

\* The runs completed the same cases, and no answer of c is worse than b's.
NowhereWorse(b, c) ==
  /\ {r[1] : r \in b} = {r[1] : r \in c}
  /\ \A r \in c : \E s \in b : s[1] = r[1] /\ AsGood(r[1], r[2], s[2])

\* A report raises no false alarm and spreads no false comfort: unless an
\* answer got worse, or a case failed in one run only, no metric regressed, and
\* none improved the other way round.
ReportsAreFair ==
  \A i \in Instances :
    pc[i] = "save" /\ baseline[i] # 0 =>
      LET b == summaries[baseline[i]].results
          c == results[i]
      IN  /\ NowhereWorse(b, c) => QualityIn(b, c, "regression") = {}
          /\ NowhereWorse(c, b) => QualityIn(b, c, "improvement") = {}

=============================================================================
