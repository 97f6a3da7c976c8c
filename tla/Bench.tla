-------------------------------- MODULE Bench --------------------------------
(***************************************************************************)
(* pyx86-bench: a look at the corpus, the tests of the correctness pillar  *)
(* on a pool of workers, then the benchmarks of the performance pillar one *)
(* after the other, then the exit code.                                    *)
(*                                                                         *)
(* What the programs run by the bench do (the compiler, rustc, CPython,    *)
(* the compiled ELF) is chosen step by step.  They are taken to end: the   *)
(* bench has no timeout.                                                   *)
(***************************************************************************)
EXTENDS Integers, FiniteSets

CONSTANTS
  Tests,       \* the directories of tests/correctness with a program.py that
               \* the filter selects
  Benchmarks,  \* how many of tests/performance it selects, if that is there
  Tier,        \* --tier
  Jobs,        \* --jobs
  TestTier,    \* tier.toml: the tier of each test
  BenchTier,   \* bench.toml: the tier of each benchmark
  Inputs,      \* the tests whose strategy has arguments
  Override,    \* iter_at: a number of iterations for a test at Tier, or Unset
  Default,     \* default_iterations(Tier), scaled down
  JsonOut,     \* --json-out is given
  Unset

ASSUME BenchAssumption ==
  /\ Benchmarks \in Nat /\ Tier \in Nat /\ Jobs \in Nat \ {0} /\ Default \in Nat
  /\ TestTier \in [Tests -> Nat] /\ BenchTier \in [1 .. Benchmarks -> Nat]
  /\ Inputs \subseteq Tests /\ Override \in [Tests -> Nat \cup {Unset}]
  /\ JsonOut \in BOOLEAN
  /\ Unset \notin Nat

(* Numbers of iterations are declared, and have a default, at the tiers 1   *)
(* to 4 only.                                                               *)
ASSUME TierAssumption ==
  /\ Default = 0 <=> Tier \notin 1 .. 4
  /\ Tier \notin 1 .. 4 => \A t \in Tests : Override[t] = Unset

VARIABLES
  corpus,   \* main's look at it: unseen, missing, refused (the pattern), listed
  at,       \* where each test is: waiting, compiling, running, done
  ran,      \* how many iterations of each test have agreed with CPython
  result,   \* each test's TestResult, Unset before it is done
  turn,     \* the benchmark at work, 0 while the tests run
  bat,      \* where that benchmark is
  perf,     \* each benchmark's PerfResult, Unset before it is done
  wrong,    \* the tests of which an observer has seen a step go wrong
  slow,     \* the same of the benchmarks (neither is in the code)
  written,  \* whether the JSON file was written
  exit      \* the exit code, Unset before the end

tests     == <<at, ran, result, wrong>>
benches   == <<turn, bat, perf, slow>>
benchVars == <<corpus, tests, benches, written, exit>>

Benches == 1 .. Benchmarks
Kinds   == {"compile", "diff", "harness", "compile-py", "compile-rs",
            "diff-before-timing", "ratio"}

Passed  == [passed |-> TRUE,  skipped |-> FALSE, kind |-> Unset]
Skipped == [passed |-> TRUE,  skipped |-> TRUE,  kind |-> Unset]
Failed(kind) == [passed |-> FALSE, skipped |-> FALSE, kind |-> kind]
Verdicts == {Passed, Skipped} \cup {Failed(kind) : kind \in Kinds}

ASSUME UnsetAssumption == Unset \notin Verdicts

(* How often a test runs: once without inputs.                              *)
Iterations(t) ==
  IF t \notin Inputs THEN 1
  ELSE IF Override[t] # Unset THEN Override[t] ELSE Default

-----------------------------------------------------------------------------
BenchInit ==
  /\ corpus = "unseen"
  /\ at = [t \in Tests |-> "waiting"]
  /\ ran = [t \in Tests |-> 0]
  /\ result = [t \in Tests |-> Unset]
  /\ turn = 0
  /\ bat = "waiting"
  /\ perf = [b \in Benches |-> Unset]
  /\ wrong = {}
  /\ slow = {}
  /\ written = FALSE
  /\ exit = Unset

(* Without a directory correctness there is nothing to do: main returns at  *)
(* once, without the benchmarks and without the JSON file.                  *)
NoCorpus ==
  /\ corpus = "unseen"
  /\ corpus' = "missing" /\ exit' = 0
  /\ UNCHANGED <<tests, benches, written>>

(* The filter makes no pattern: the error is main's.                        *)
RefusePattern ==
  /\ corpus = "unseen"
  /\ corpus' = "refused" /\ exit' = 1
  /\ UNCHANGED <<tests, benches, written>>

ListTests ==
  /\ corpus = "unseen"
  /\ corpus' = "listed"
  /\ UNCHANGED <<tests, benches, written, exit>>

(* par_iter().map(run_one).collect(): a free worker takes any test.         *)

Busy == {t \in Tests : at[t] \in {"compiling", "running"}}

Conclude(t, r) ==
  /\ at' = [at EXCEPT ![t] = "done"]
  /\ result' = [result EXCEPT ![t] = r]

FinishWrong(t, kind) ==
  /\ Conclude(t, Failed(kind))
  /\ wrong' = wrong \cup {t}

Take(t) == corpus = "listed" /\ at[t] = "waiting" /\ Cardinality(Busy) < Jobs

(* tier.toml or strategy.toml cannot be read or parsed. *)
BadTest(t) ==
  /\ Take(t)
  /\ FinishWrong(t, "harness")
  /\ UNCHANGED <<ran, benches, corpus, written, exit>>

SkipTest(t) ==
  /\ Take(t) /\ TestTier[t] > Tier
  /\ Conclude(t, Skipped)
  /\ UNCHANGED <<ran, wrong, benches, corpus, written, exit>>

StartTest(t) ==
  /\ Take(t) /\ TestTier[t] <= Tier
  /\ at' = [at EXCEPT ![t] = "compiling"]
  /\ UNCHANGED <<ran, result, wrong, benches, corpus, written, exit>>

CompileTest(t) ==
  /\ at[t] = "compiling"
  /\ \/ at' = [at EXCEPT ![t] = "running"] /\ UNCHANGED <<result, wrong>>
     \/ FinishWrong(t, "compile")
  /\ UNCHANGED <<ran, benches, corpus, written, exit>>

(* One iteration: both sides ran and agreed; or they differed, an input     *)
(* could not be made, or a side not be started.                             *)
Agree(t) ==
  /\ at[t] = "running" /\ ran[t] < Iterations(t)
  /\ ran' = [ran EXCEPT ![t] = @ + 1]
  /\ UNCHANGED <<at, result, wrong, benches, corpus, written, exit>>

Stop(t) ==
  /\ at[t] = "running" /\ ran[t] < Iterations(t)
  /\ \E kind \in {"diff", "harness"} : FinishWrong(t, kind)
  /\ UNCHANGED <<ran, benches, corpus, written, exit>>

Pass(t) ==
  /\ at[t] = "running" /\ ran[t] = Iterations(t)
  /\ Conclude(t, Passed)
  /\ UNCHANGED <<ran, wrong, benches, corpus, written, exit>>

TestStep(t) ==
  \/ BadTest(t) \/ SkipTest(t) \/ StartTest(t)
  \/ CompileTest(t) \/ Agree(t) \/ Stop(t) \/ Pass(t)

-----------------------------------------------------------------------------
(* The performance pillar, from tier 3 on.  Its pattern is the first one    *)
(* with another directory's name in it, so it is a pattern too.             *)

AllTestsDone == corpus = "listed" /\ \A t \in Tests : at[t] = "done"

BeginPerf_MutantBesideTests ==
  /\ turn = 0 /\ Tier >= 3
  /\ turn' = 1
  /\ UNCHANGED <<tests, bat, perf, slow, corpus, written, exit>>

BeginPerf ==
  /\ turn = 0 /\ AllTestsDone /\ Tier >= 3
  /\ turn' = 1
  /\ UNCHANGED <<tests, bat, perf, slow, corpus, written, exit>>

(* The next benchmark; after the last one turn is Benchmarks + 1.           *)
Judge_MutantTurnTwice(r) ==
  /\ perf' = [perf EXCEPT ![turn] = r]
  /\ turn' = turn + 2
  /\ bat' = "waiting"

Judge(r) ==
  /\ perf' = [perf EXCEPT ![turn] = r]
  /\ turn' = turn + 1
  /\ bat' = "waiting"

JudgeWrong(kinds) ==
  /\ \E kind \in kinds : Judge(Failed(kind))
  /\ slow' = slow \cup {turn}

Well(r)       == Judge(r) /\ UNCHANGED slow
StepTo(stage) == bat' = stage /\ UNCHANGED <<turn, perf, slow>>

ReadBench ==
  /\ bat = "waiting"
  /\ \/ JudgeWrong({"harness"})
     \/ BenchTier[turn] > Tier /\ Well(Skipped)
     \/ BenchTier[turn] <= Tier /\ StepTo("compiling")

CompileBoth ==
  /\ bat = "compiling"
  /\ StepTo("checking") \/ JudgeWrong({"compile-py", "compile-rs"})

(* Both ELFs run on the one input; only if they agree are they timed. *)
CheckOutputs ==
  /\ bat = "checking"
  /\ StepTo("timing") \/ JudgeWrong({"diff-before-timing", "harness"})

TimeBoth ==
  /\ bat = "timing"
  /\ Well(Passed) \/ JudgeWrong({"ratio", "harness"})

BenchStep ==
  /\ turn \in Benches
  /\ ReadBench \/ CompileBoth \/ CheckOutputs \/ TimeBoth
  /\ UNCHANGED <<tests, corpus, written, exit>>

-----------------------------------------------------------------------------
(* The end of main: the summary, the JSON file, the exit code.              *)

PillarsDone_MutantLastTurn ==
  AllTestsDone /\ (IF Tier >= 3 THEN turn = Benchmarks + 2 ELSE turn = 0)

PillarsDone ==
  AllTestsDone /\ (IF Tier >= 3 THEN turn = Benchmarks + 1 ELSE turn = 0)

Bad_MutantSkippedToo(r) == ~ r.passed \/ r.skipped
Bad(r) == ~ r.passed /\ ~ r.skipped

AnyFailed_MutantCorrectnessOnly == \E t \in Tests : Bad(result[t])

AnyFailed ==
  \/ \E t \in Tests : Bad(result[t])
  \/ \E b \in Benches : perf[b] # Unset /\ Bad(perf[b])

WriteJson ==
  /\ PillarsDone /\ exit = Unset /\ JsonOut /\ ~ written
  /\ \/ written' = TRUE /\ UNCHANGED exit
     \/ exit' = 1 /\ UNCHANGED written
  /\ UNCHANGED <<tests, benches, corpus>>

Exit ==
  /\ PillarsDone /\ exit = Unset /\ (JsonOut => written)
  /\ exit' = IF AnyFailed THEN 1 ELSE 0
  /\ UNCHANGED <<tests, benches, corpus, written>>

BenchNext ==
  \/ NoCorpus \/ RefusePattern \/ ListTests
  \/ \E t \in Tests : TestStep(t)
  \/ BeginPerf \/ BenchStep \/ WriteJson \/ Exit

BenchSpec == BenchInit /\ [][BenchNext]_benchVars /\ WF_benchVars(BenchNext)

-----------------------------------------------------------------------------
(* Properties. *)

(* Every variable has its type. *)
BenchTypeOK ==
  /\ corpus \in {"unseen", "missing", "refused", "listed"}
  /\ at \in [Tests -> {"waiting", "compiling", "running", "done"}]
  /\ ran \in [Tests -> Nat]
  /\ result \in [Tests -> Verdicts \cup {Unset}]
  /\ turn \in 0 .. Benchmarks + 1
  /\ bat \in {"waiting", "compiling", "checking", "timing"}
  /\ perf \in [Benches -> Verdicts \cup {Unset}]
  /\ wrong \subseteq Tests /\ slow \subseteq Benches
  /\ written \in BOOLEAN /\ exit \in {Unset, 0, 1}

Due(t) == TestTier[t] <= Tier

(* A test due that passes without having run: it has inputs, and either the *)
(* tier has no number of iterations (0, and 5 and above) or tier.toml       *)
(* says 0.                                                                  *)
NeverRun(t) == t \in Inputs /\ (Tier \notin 1 .. 4 \/ Override[t] = 0)

(* Exit code 0 means what specs/test-bench.md says, "0 if all tests pass",  *)
(* if there is a corpus: whatever order the workers took the tests in, none *)
(* of them went wrong, every test due has agreed with CPython on all its    *)
(* iterations, which are some (but for NeverRun), from tier 3 every         *)
(* benchmark has been judged, and the JSON file asked for is written.       *)
(* Without a corpus, exit code 0 says nothing of the rest (main.rs:147).    *)
ExitZeroMeansAllPass ==
  exit = 0 /\ corpus # "missing" =>
    /\ wrong = {} /\ slow = {}
    /\ \A t \in Tests : Due(t) => ran[t] = Iterations(t) /\ (ran[t] > 0 \/ NeverRun(t))
    /\ Tier >= 3 => \A b \in Benches : perf[b] # Unset
    /\ JsonOut => written

(* And exit code 1 that something did go wrong: a test, a benchmark, the    *)
(* pattern, or the JSON file.                                               *)
ExitOneMeansFailure ==
  exit = 1 =>
    wrong # {} \/ slow # {} \/ corpus = "refused" \/ (JsonOut /\ ~ written)

(* No test is at work while a benchmark is: contention skews the timings.   *)
QuietTimings == turn # 0 => Busy = {} /\ AllTestsDone

(* The bench comes to its exit code if the programs it runs come to theirs. *)
Ends == <>(exit # Unset)
=============================================================================
