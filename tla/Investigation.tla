--------------------------- MODULE Investigation ---------------------------
(***************************************************************************)
(* The investigate job: app/worker/investigate.py, the phases and the      *)
(* checkpoints of app/agents/investigation.py and store.py, and the loop   *)
(* of one agent, app/agents/loop.py.  The attempts of one job may overlap: *)
(* one that lost its lease goes on until it notices, but each of its       *)
(* fenced writes fails.  What the model answers is arbitrary; an answer    *)
(* costs StepTokens, which are recorded whoever owns the job.  Module      *)
(* Policy says which items of an answer survive the check.                 *)
(***************************************************************************)
EXTENDS Integers, Sequences, FiniteSets

CONSTANTS
    Investigators,   \* the agents that run side by side
    MaxSteps,        \* agent_max_steps
    MaxRewrites,     \* AgentSpec.max_rewrites
    Budget,          \* llm_incident_token_budget
    StepTokens,      \* what one answer costs
    MaxAttempts      \* max_attempts of the job

ASSUME InvestigationConstants ==
    /\ MaxSteps \in Nat \ {0} /\ MaxRewrites \in Nat
    /\ Budget \in Nat /\ StepTokens \in Nat \ {0} /\ MaxAttempts \in Nat \ {0}
    /\ IsFiniteSet(Investigators) /\ Investigators # {}
    /\ Investigators \cap {"coordinator", "synthesizer"} = {}

VARIABLES
    runs,       \* agent_runs: the status of each agent's row
    board,      \* blackboard: what each agent's entries say, one for each batch
    tokens,     \* the sum over llm_calls
    job,        \* its status and the attempt that owns it
    state,      \* of the incident
    attempts    \* the processes that work, or still work, on the job

invVars == <<runs, board, tokens, job, state, attempts>>

Coordinator == "coordinator"
Synthesizer == "synthesizer"
Agents == Investigators \cup {Coordinator, Synthesizer}
Attempt == 1..MaxAttempts

\* The agents that work in a phase, and the tools: the other two have none.
AgentsOf(phase) ==
    CASE phase = "plan" -> {Coordinator}
      [] phase = "investigate" -> Investigators
      [] phase = "synthesize" -> {Synthesizer}
      [] OTHER -> {}
HasTools(a) == a \in Investigators

\* What a final answer holds once the check is through with it: findings or
\* root causes, or none that are supported.
Finals == {"some", "none"}
\* A plan is accepted as it is.
FinalsOf(a) == IF a = Coordinator THEN {"some"} ELSE Finals
\* at: idle, loop, asked, final, error, done, failed; is: a final, an error
\* (budget, retry, failed) or -.
NotStarted == [at |-> "idle", steps |-> 0, rewrites |-> 0, is |-> "-"]
\* Out of its loop: with a final answer, with an error, done or failed.
Out(where, is) == [NotStarted EXCEPT !.at = where, !.is = is]

Fresh == [phase |-> "claimed", done |-> {}, outcome |-> "-",
          agent |-> [a \in Agents |-> NotStarted]]
Ended == [Fresh EXCEPT !.phase = "ended"]

InvestigationInit ==
    /\ runs = [a \in Agents |-> "none"]
    /\ board = [a \in Agents |-> <<>>]
    /\ tokens = 0
    /\ job = [status |-> "queued", attempt |-> 0]
    /\ state = "TRIAGED"
    /\ attempts = [t \in Attempt |-> Ended]

-----------------------------------------------------------------------------
(* The job and its lease, as modules JobQueue and Worker have them         *)

OwnsJob(t) == job.status = "leased" /\ job.attempt = t
Working(t) == attempts[t].phase # "ended"
Stop(t) == attempts' = [attempts EXCEPT ![t] = Ended]
GivenBack == [job EXCEPT !.status = IF job.attempt = MaxAttempts THEN "dead" ELSE "queued"]

ClaimJob ==
    /\ job.status = "queued"
    /\ job' = [status |-> "leased", attempt |-> job.attempt + 1]
    /\ attempts' = [attempts EXCEPT ![job.attempt + 1] = Fresh]
    /\ UNCHANGED <<runs, board, tokens, state>>

\* The owner stalls or has died; the reaper gives its job back.
JobLeaseExpires ==
    /\ job.status = "leased" /\ job' = GivenBack
    /\ UNCHANGED <<runs, board, tokens, state, attempts>>

\* The process dies, or notices at its heartbeat that the lease is gone.
Vanish(t) ==
    /\ Working(t) /\ Stop(t)
    /\ UNCHANGED <<runs, board, tokens, job, state>>

-----------------------------------------------------------------------------
(* PgAgentStore                                                            *)

start_run(a) == runs' = [runs EXCEPT ![a] = IF @ = "done" THEN @ ELSE "running"]
fail_run(a) == runs' = [runs EXCEPT ![a] = IF @ = "done" THEN @ ELSE "failed"]
\* As if the run of an agent that found nothing were not marked.
finish_run_Slip(a, is) ==
    /\ runs' = [runs EXCEPT ![a] = IF is = "some" THEN "done" ELSE @]
    /\ board' = IF runs[a] = "done" THEN board ELSE [board EXCEPT ![a] = Append(@, is)]

\* The row and the entries in one transaction; a run that is done stays.
finish_run(a, is) ==
    /\ runs' = [runs EXCEPT ![a] = "done"]
    /\ board' = IF runs[a] = "done" THEN board ELSE [board EXCEPT ![a] = Append(@, is)]
record_llm_call == tokens' = tokens + StepTokens
Exhausted == tokens >= Budget
Findings == {a \in Investigators : board[a] # <<>> /\ Head(board[a]) = "some"}
DoneAgents == {a \in Agents : runs[a] = "done"}

-----------------------------------------------------------------------------
(* One agent                                                               *)

Set(t, a, rec) == [attempts EXCEPT ![t].agent[a] = rec]

\* once: a finished agent is read back from the blackboard; another gets its
\* row, unless it is done.
StartRun(t, a) ==
    LET p == attempts[t] IN
    /\ a \in AgentsOf(p.phase) /\ p.agent[a].at = "idle"
    /\ \/ /\ a \in p.done
          /\ attempts' = Set(t, a, Out("done", Head(board[a])))
          /\ UNCHANGED runs
       \/ /\ a \notin p.done /\ OwnsJob(t)
          /\ start_run(a)
          /\ attempts' = Set(t, a, [NotStarted EXCEPT !.at = "loop"])
    /\ UNCHANGED <<board, tokens, job, state>>

\* The steps of an agent without tools count for nothing.
Asked(a, g) == [g EXCEPT !.at = "asked", !.steps = IF HasTools(a) THEN @ + 1 ELSE @]

\* As if the budget were looked at before an agent's first step only.
CheckBudget_Slip(t, a) ==
    LET g == attempts[t].agent[a] IN
    /\ g.at = "loop"
    /\ attempts' = Set(t, a, IF Exhausted /\ g.steps = 0
                             THEN Out("error", "budget") ELSE Asked(a, g))
    /\ UNCHANGED <<runs, board, tokens, job, state>>
CheckBudget(t, a) ==
    LET g == attempts[t].agent[a] IN
    /\ g.at = "loop"
    /\ attempts' = Set(t, a, IF Exhausted THEN Out("error", "budget") ELSE Asked(a, g))
    /\ UNCHANGED <<runs, board, tokens, job, state>>

\* The backend gave up: an error that may pass fails the job, another the agent.
BackendFails(t, a, error) ==
    /\ attempts[t].agent[a].at = "asked" /\ error \in {"retry", "failed"}
    /\ attempts' = Set(t, a, Out("error", error))
    /\ UNCHANGED <<runs, board, tokens, job, state>>

\* An answer, with its call recorded.
Answered(t, a, rec) ==
    /\ attempts[t].agent[a].at = "asked"
    /\ record_llm_call
    /\ attempts' = Set(t, a, rec)
    /\ UNCHANGED <<runs, board, job, state>>

\* As if an agent with tools could always ask for more data.
ForceFinal(a, g) == HasTools(a) /\ g.steps >= MaxSteps

\* It wants data: the calls run and their results are shown to it.
AnswerActions(t, a) ==
    LET g == attempts[t].agent[a] IN
    Answered(t, a, IF ForceFinal(a, g) THEN Out("error", "failed")
                                       ELSE [g EXCEPT !.at = "loop"])

\* Its final answer is not in shape, or something in it fails the check: it
\* may be rewritten once.  Then the first is an error, of the other what
\* passes is kept.
Rewrite(g) == [g EXCEPT !.at = "loop", !.rewrites = @ + 1]
AnswerMalformed(t, a) ==
    LET g == attempts[t].agent[a] IN
    Answered(t, a, IF g.rewrites < MaxRewrites THEN Rewrite(g)
                   ELSE Out("error", "failed"))
AnswerFlawed(t, a, kept) ==
    LET g == attempts[t].agent[a] IN
    /\ a # Coordinator
    /\ Answered(t, a, IF g.rewrites < MaxRewrites THEN Rewrite(g) ELSE Out("final", kept))
AnswerFinal(t, a, kept) ==
    Answered(t, a, Out("final", kept))

\* As if the transaction were not fenced.
FinishRun_Slip(t, a) ==
    LET g == attempts[t].agent[a] IN
    /\ g.at = "final"
    /\ finish_run(a, g.is)
    /\ attempts' = Set(t, a, Out("done", g.is))
    /\ UNCHANGED <<tokens, job, state>>

\* An attempt that lost its lease cannot record anything as done.
FinishRun(t, a) ==
    LET g == attempts[t].agent[a] IN
    /\ g.at = "final" /\ OwnsJob(t)
    /\ finish_run(a, g.is)
    /\ attempts' = Set(t, a, Out("done", g.is))
    /\ UNCHANGED <<tokens, job, state>>

\* fail_run, and what the error does: a failed agent leaves the others alone; an
\* empty budget ends the investigation, and the agents beside it are cancelled;
\* an outage fails the job, unless it was the last attempt.
Conclude(p, outcome) ==
    [p EXCEPT !.phase = "conclude", !.outcome = outcome,
              !.agent = [a \in Agents |-> NotStarted], !.done = {}]
FailRun(t, a) ==
    LET p == attempts[t]
        g == p.agent[a]
    IN
    /\ g.at = "error" /\ OwnsJob(t)
    /\ fail_run(a)
    /\ \/ /\ g.is = "failed"
          /\ attempts' = Set(t, a, Out("failed", "-"))
          /\ UNCHANGED job
       \/ /\ g.is = "budget" \/ (g.is = "retry" /\ t = MaxAttempts)
          /\ attempts' = [attempts EXCEPT ![t] = Conclude(p, "escalate")]
          /\ UNCHANGED job
       \/ /\ g.is = "retry" /\ t < MaxAttempts
          /\ Stop(t) /\ job' = GivenBack
    /\ UNCHANGED <<board, tokens, state>>

\* A fenced write of an attempt that lost its lease raises LeaseLost.
WantsToWrite(t) ==
    LET p == attempts[t] IN
    \/ p.phase \in {"claimed", "conclude"}
    \/ \E a \in AgentsOf(p.phase) :
         \/ p.agent[a].at \in {"final", "error"}
         \/ p.agent[a].at = "idle" /\ a \notin p.done
LeaseLost(t) ==
    /\ WantsToWrite(t) /\ ~OwnsJob(t) /\ Stop(t)
    /\ UNCHANGED <<runs, board, tokens, job, state>>

-----------------------------------------------------------------------------
(* The phases                                                              *)

\* investigate_job: the first transaction, then runs() and entries().
Begin(t) ==
    /\ attempts[t].phase = "claimed" /\ OwnsJob(t)
    /\ \/ /\ state \in {"TRIAGED", "INVESTIGATING"}
          /\ state' = "INVESTIGATING"
          /\ attempts' = [attempts EXCEPT ![t].phase = "plan", ![t].done = DoneAgents]
          /\ UNCHANGED job
       \/ /\ state \notin {"TRIAGED", "INVESTIGATING"}
          /\ Stop(t) /\ job' = [job EXCEPT !.status = "done"]
          /\ UNCHANGED state
    /\ UNCHANGED <<runs, board, tokens>>

Over(p) == \A a \in AgentsOf(p.phase) : p.agent[a].at \in {"done", "failed"}

\* With or without a plan, the investigators start.
Planned(t) ==
    /\ attempts[t].phase = "plan" /\ Over(attempts[t])
    /\ attempts' = [attempts EXCEPT ![t].phase = "investigate"]
    /\ UNCHANGED <<runs, board, tokens, job, state>>

\* As if the synthesizer were asked whatever was found.
Investigated_Slip(t) ==
    LET p == attempts[t] IN
    /\ p.phase = "investigate" /\ Over(p)
    /\ attempts' = [attempts EXCEPT ![t] = [p EXCEPT !.phase = "synthesize", !.done = DoneAgents]]
    /\ UNCHANGED <<runs, board, tokens, job, state>>

\* The rows and the blackboard are read again: nothing found escalates.
Investigated(t) ==
    LET p == attempts[t] IN
    /\ p.phase = "investigate" /\ Over(p)
    /\ attempts' = [attempts EXCEPT ![t] = IF Findings # {}
                       THEN [p EXCEPT !.phase = "synthesize", !.done = DoneAgents]
                       ELSE Conclude(p, "escalate")]
    /\ UNCHANGED <<runs, board, tokens, job, state>>

\* _concluded: no diagnosis, or one without a root cause, escalates.
Synthesized(t) ==
    LET p == attempts[t]
        g == p.agent[Synthesizer]
    IN
    /\ p.phase = "synthesize" /\ Over(p)
    /\ attempts' = [attempts EXCEPT ![t] =
                       Conclude(p, IF g.at = "done" /\ g.is = "some" THEN "diagnosed" ELSE "escalate")]
    /\ UNCHANGED <<runs, board, tokens, job, state>>

\* The last transaction: the transition, and the job is done.
Close(t) ==
    /\ attempts[t].phase = "conclude" /\ OwnsJob(t)
    /\ state = "INVESTIGATING"
    /\ state' = IF attempts[t].outcome = "diagnosed" THEN "DIAGNOSED" ELSE "ESCALATED"
    /\ job' = [job EXCEPT !.status = "done"]
    /\ Stop(t)
    /\ UNCHANGED <<runs, board, tokens>>

AgentStep(t, a) ==
    \/ StartRun(t, a) \/ CheckBudget(t, a)
    \/ \E error \in {"retry", "failed"} : BackendFails(t, a, error)
    \/ AnswerActions(t, a) \/ AnswerMalformed(t, a)
    \/ \E kept \in FinalsOf(a) : AnswerFlawed(t, a, kept) \/ AnswerFinal(t, a, kept)
    \/ FinishRun(t, a) \/ FailRun(t, a)

AttemptStep(t) ==
    \/ Begin(t) \/ Planned(t) \/ Investigated(t) \/ Synthesized(t) \/ Close(t) \/ LeaseLost(t)
    \/ \E a \in Agents : AgentStep(t, a)

InvestigationNext ==
    \/ ClaimJob \/ JobLeaseExpires
    \/ \E t \in Attempt : Vanish(t) \/ AttemptStep(t)

InvestigationSpec == InvestigationInit /\ [][InvestigationNext]_invVars

-----------------------------------------------------------------------------
(* Properties                                                              *)

\* Through reruns, overlapping attempts and crashes the entries of an agent
\* are on the blackboard exactly when its run is done, and once.
EntriesOnce == \A a \in Agents : Len(board[a]) = IF runs[a] = "done" THEN 1 ELSE 0

\* "No completed investigator is ever asked again": the attempt that owns the
\* job is never at work on an agent whose run is done.
CompletedNotAskedAgain ==
    \A t \in Attempt, a \in Agents :
        OwnsJob(t) /\ attempts[t].agent[a].at \in {"loop", "asked", "final", "error"} => runs[a] # "done"

\* The budget is looked at before each step and an answer is counted after it:
\* agents side by side overshoot it by one step each, those of an attempt that
\* lost its lease included, and by no more.
InFlight == {c \in Attempt \X Agents : attempts[c[1]].agent[c[2]].at = "asked"}
Overshoot ==
    tokens + StepTokens * Cardinality(InFlight)
        < Budget + StepTokens * MaxAttempts * Cardinality(Investigators)

\* A diagnosed incident has a diagnosis with a root cause on the blackboard, and
\* a finding it can rest on.
DiagnosisSupported ==
    state = "DIAGNOSED" =>
        /\ board[Synthesizer] = <<"some">>
        /\ \E a \in Investigators : board[a] = <<"some">>

=============================================================================
