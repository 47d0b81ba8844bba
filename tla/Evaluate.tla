------------------------------ MODULE Evaluate ------------------------------
(***************************************************************************)
(* The evaluation run (scripts/lab/evaluate.py): the queue of scenarios of *)
(* one shard, the wait for the model's usage window, the token budget, and *)
(* the result file, written after every scenario.  What one scenario does  *)
(* is module Lab; here it spends tokens, runs into the usage limit or not, *)
(* and may end the whole run with an exception.                            *)
(***************************************************************************)
EXTENDS Naturals, Sequences, FiniteSets, SequencesExt

CONSTANTS
    EvalCatalogue,  \* the scenarios, in the order of their files
    Variants,       \* the agent variants observed side by side
    TokenBudget,    \* tokens one run may use of a usage window
    MaxTokens       \* bound on what one scenario may use

\* A scenario is named after its file (app/eval/scenarios.py:119).
ASSUME EvalAssumption ==
    /\ TokenBudget \in Nat \ {0} /\ MaxTokens \in Nat
    /\ EvalCatalogue \in Seq(Range(EvalCatalogue)) /\ IsInjective(EvalCatalogue)
    /\ IsFiniteSet(Variants)

VARIABLES
    waiting,        \* scenarios not yet run
    retried,        \* scenarios put back once
    results,        \* the observations, as they are in memory
    file,           \* and as they are in results.json
    spent,          \* tokens of the observed scenarios
    window,         \* tokens used since the usage window last reopened
    closed,         \* whether the run waits for it to reopen
    timesRun,       \* how often each scenario was run
    ended           \* "" while it runs, or how it ended

evalVars == <<waiting, retried, results, file, spent, window, closed, timesRun, ended>>

-----------------------------------------------------------------------------
\* The i-th of n interleaved slices.
shard(items, i, n) == [k \in 1..((Len(items) - i + n) \div n) |-> items[i + (k - 1) * n]]

\* However a run is cut, its shards together have every scenario once, so that
\* their merged file is the whole run (shard, cmd_merge).
ASSUME ShardsPartition ==
    \A n \in 1..(Len(EvalCatalogue) + 1), k \in DOMAIN EvalCatalogue :
        Cardinality({i \in 1..n : EvalCatalogue[k] \in Range(shard(EvalCatalogue, i, n))}) = 1

\* One observation of the scenario for each variant.
observations(scenario) == {<<scenario, v>> : v \in Variants}

\* Run the scenario once more: the window's reopening is known, it was not
\* tried again yet, and there is time.
Again(scenario, limit, timeLeft) ==
    limit = "reopens" /\ scenario \notin retried /\ timeLeft

\* Stop because there is no use in waiting; stop because the budget is spent.
NoTime(scenario, limit, timeLeft) == limit = "reopens" /\ ~Again(scenario, limit, timeLeft)

BudgetSpent_Slip(used) == used > TokenBudget

BudgetSpent(used) == used >= TokenBudget

Started == /\ ended = "" /\ waiting # <<>> /\ ~closed
           /\ timesRun' = [timesRun EXCEPT ![Head(waiting)] = @ + 1]

WaitForWindow_Slip(tokens, timeLeft) ==
    /\ Started
    /\ Again(Head(waiting), "reopens", timeLeft)
    /\ retried' = retried \cup {Head(waiting)}
    /\ window' = window + tokens /\ closed' = TRUE
    /\ results' = results \o SetToSeq(observations(Head(waiting))) /\ file' = results'
    /\ UNCHANGED <<waiting, spent, ended>>

\* The model was unavailable: the scenario stays first, nothing of it is kept,
\* and the run sleeps until the window reopens.
WaitForWindow(tokens, timeLeft) ==
    /\ Started
    /\ Again(Head(waiting), "reopens", timeLeft)
    /\ retried' = retried \cup {Head(waiting)}
    /\ window' = window + tokens /\ closed' = TRUE
    /\ UNCHANGED <<waiting, results, file, spent, ended>>

WindowReopens ==
    /\ closed /\ closed' = FALSE /\ window' = 0
    /\ UNCHANGED <<waiting, retried, results, file, spent, timesRun, ended>>

\* The scenario is observed, the file written, and the queue goes on or is cleared.
RunScenario(tokens, limit, timeLeft) ==
    LET scenario == Head(waiting)
        stop == NoTime(scenario, limit, timeLeft) \/ BudgetSpent(spent + tokens)
    IN /\ Started
       /\ ~Again(scenario, limit, timeLeft)
       /\ results' = results \o SetToSeq(observations(scenario))
       /\ file' = results'
       /\ spent' = spent + tokens /\ window' = window + tokens
       /\ waiting' = IF stop THEN <<>> ELSE Tail(waiting)
       /\ ended' = IF stop /\ Len(waiting) > 1 THEN "stopped"
                   ELSE IF waiting' = <<>> THEN "done" ELSE ""
       /\ UNCHANGED <<retried, closed>>

\* An exception of run_scenario's recovery or of the close ends the command.  The
\* queue goes with the process; the scenario stays in waiting as one that was
\* started and not observed: its results are lost with the exception.
RunCrashes ==
    /\ Started
    /\ ended' = "crashed"
    /\ UNCHANGED <<waiting, retried, results, file, spent, window, closed>>

EvalInit ==
    /\ \E n \in 1..Len(EvalCatalogue) : \E i \in 1..n : waiting = shard(EvalCatalogue, i, n)
    /\ retried = {} /\ results = <<>> /\ file = <<>> /\ timesRun = [s \in Range(EvalCatalogue) |-> 0]
    /\ spent = 0 /\ window = 0 /\ closed = FALSE /\ ended = ""

EvalNext ==
    \/ \E tokens \in 0..MaxTokens, timeLeft \in BOOLEAN :
          \/ WaitForWindow(tokens, timeLeft)
          \/ \E limit \in {"none", "unknown", "reopens"} : RunScenario(tokens, limit, timeLeft)
    \/ WindowReopens \/ RunCrashes

EvalSpec == EvalInit /\ [][EvalNext]_evalVars

-----------------------------------------------------------------------------
\* No scenario is counted twice, also when it was run twice, and the file has what
\* is counted (evaluate.run, ResultFile.dump).
ObservedOnce ==
    /\ IsInjective(results)
    /\ file = results
    /\ ended = "" \/ ended = "crashed" =>
          \A i \in DOMAIN waiting : \A o \in observations(waiting[i]) : o \notin Range(results)

\* A run goes over its budget of one usage window by one scenario at most,
\* though it may run scenarios a second time (the module's docstring).
WindowBudget == window < TokenBudget + MaxTokens

\* A scenario is run at most twice, however often the model is unavailable, so
\* the run comes to an end (the set of scenarios retried).
RunAtMostTwice == \A s \in DOMAIN timesRun : timesRun[s] <= 2

\* What was run and is not to be run again is counted, for every variant, however
\* the run goes on or ends; the one scenario whose run ended the command is not.
NothingLost ==
    \A s \in DOMAIN timesRun :
        timesRun[s] > 0 /\ s \notin Range(waiting) => observations(s) \subseteq Range(results)

\* A scenario counts once, of at most two times that it was run.
CountedOnce == ObservedOnce /\ NothingLost /\ RunAtMostTwice

=============================================================================
