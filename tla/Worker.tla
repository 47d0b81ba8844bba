------------------------------- MODULE Worker -------------------------------
(***************************************************************************)
(* The worker process, app/worker/runner.py, on top of the job queue: the  *)
(* claim loop with its table of running tasks, one task per claimed job    *)
(* (_execute), its heartbeat, the reap loop and the drain on shutdown.     *)
(* Every step that touches the database is an action of JobQueue joined    *)
(* with what the process does about the outcome, so what is proved of      *)
(* JobQueue holds here too.                                                *)
(*                                                                         *)
(* A task is named by its handle.  The row lock of an open transaction     *)
(* makes the other statements of the same job wait, the heartbeat          *)
(* included; a database error may hit any statement outside a transaction. *)
(***************************************************************************)
EXTENDS JobQueue, FiniteSets

CONSTANTS
    Concurrency,    \* worker_concurrency
    ReservedP0,     \* worker_reserved_p0_slots
    Steady,         \* processes that are never stopped and never crash
    MaxBeats,       \* bound: successful heartbeats per claim
    MaxErrors       \* bound: database errors

ASSUME WorkerConstants ==
    /\ Concurrency \in Nat \ {0}
    /\ ReservedP0 \in Nat
    /\ Steady \subseteq Workers
    /\ MaxBeats \in Nat
    /\ MaxErrors \in Nat

VARIABLES
    proc,       \* state of each process
    running,    \* Worker._running: job -> task, per process
    drained,    \* the tasks that _drain waits for
    tasks,      \* the tasks alive, and where each one is
    audited,    \* job.dead entries in the audit log
    errors      \* database errors so far

wvars == <<proc, running, drained, tasks, audited, errors>>
allvars == <<vars, wvars>>

NoTasks == <<>>

\* Init of the queue, with every process up and idle.
WInit ==
    /\ Init
    /\ proc = [w \in Workers |-> "running"]
    /\ running = [w \in Workers |-> NoTasks]
    /\ drained = [w \in Workers |-> {}]
    /\ tasks = NoTasks
    /\ audited = [k \in Keys |-> 0]
    /\ errors = 0

-----------------------------------------------------------------------------
(* Helpers                                                                 *)

Alive(h) == h \in DOMAIN tasks
At(h, stage) == Alive(h) /\ tasks[h].stage = stage
GoTo(h, stage) == tasks' = [tasks EXCEPT ![h].stage = stage]
With(f, x, e) == [y \in DOMAIN f \cup {x} |-> IF y = x THEN e ELSE f[y]]
Without(f, x) == [y \in DOMAIN f \ {x} |-> f[y]]

\* finally: the task is over and the entry of its job leaves the table,
\* whichever task it names.
End(h) ==
    /\ tasks' = Without(tasks, h)
    /\ running' = [running EXCEPT ![h.owner] = Without(@, h.job)]

Error ==
    /\ errors < MaxErrors
    /\ errors' = errors + 1

\* The statement finds the lease gone; it waits for a row lock like any other.
LostLease(h) == ~Owns(h) /\ ~Locked(h.job)

\* A job that dies is audited in the transaction that gives it up.
AuditDead_Slip == audited' = audited
AuditDead ==
    audited' = [k \in Keys |->
        IF jobs[k].status # "dead" /\ jobs'[k].status = "dead" THEN audited[k] + 1 ELSE audited[k]]

-----------------------------------------------------------------------------
(* Claim loop                                                              *)

Free(w) == Concurrency - Cardinality(DOMAIN running[w])

ClaimLoop(w) ==
    /\ proc[w] = "running"
    /\ Free(w) > 0
    /\ Claim(w, IF Free(w) > ReservedP0 THEN 3 ELSE 0)
    /\ LET h == CHOOSE g \in held' : g \notin held
       IN  /\ running' = [running EXCEPT ![w] = With(@, h.job, h)]
           /\ tasks' = With(tasks, h, [stage |-> "handler", lost |-> FALSE, cancelled |-> FALSE,
                                       beats |-> 0])
    /\ UNCHANGED <<proc, drained, audited, errors>>

ReapLoop(w) ==
    /\ proc[w] = "running"
    /\ Reap
    /\ AuditDead
    /\ UNCHANGED <<proc, running, drained, tasks, errors>>

-----------------------------------------------------------------------------
(* A task: the handler, then the statement that settles the job            *)

HandlerBegin(h) ==
    /\ At(h, "handler") /\ h \notin open
    /\ \/ AssertFence(h) /\ UNCHANGED <<running, tasks>>
       \/ LostLease(h) /\ End(h) /\ UNCHANGED vars
    /\ UNCHANGED <<proc, drained, audited, errors>>

HandlerCommit(h) ==
    /\ At(h, "handler")
    /\ Commit(h)
    /\ UNCHANGED wvars

HandlerReturn(h) ==
    /\ At(h, "handler") /\ h \notin open
    /\ GoTo(h, "complete")
    /\ UNCHANGED <<vars, proc, running, drained, audited, errors>>

\* An exception, or the job timeout: the transaction is rolled back.
HandlerRaise(h) ==
    /\ At(h, "handler")
    /\ \E stage \in {"fail", "fail_permanent"} : GoTo(h, stage)
    /\ open' = open \ {h}
    /\ UNCHANGED <<jobs, next_id, now, held, written, proc, running, drained, audited, errors>>

DoComplete(h) ==
    /\ At(h, "complete")
    /\ \/ Complete(h) /\ End(h) /\ UNCHANGED errors
       \/ LostLease(h) /\ End(h) /\ UNCHANGED <<vars, errors>>
       \/ Error /\ GoTo(h, "fail") /\ UNCHANGED <<vars, running>>
    /\ UNCHANGED <<proc, drained, audited>>

DoFail(h) ==
    /\ At(h, "fail") \/ At(h, "fail_permanent")
    /\ \/ Fail(h, tasks[h].stage = "fail") /\ AuditDead /\ UNCHANGED errors
       \/ LostLease(h) /\ UNCHANGED <<vars, audited, errors>>
       \/ Error /\ UNCHANGED <<vars, audited>>
    /\ End(h)
    /\ UNCHANGED <<proc, drained>>

DoRelease(h) ==
    /\ At(h, "release")
    /\ \/ Release(h) /\ UNCHANGED errors
       \/ LostLease(h) /\ UNCHANGED <<vars, errors>>
       \/ Error /\ UNCHANGED vars
    /\ End(h)
    /\ UNCHANGED <<proc, drained, audited>>

Cancelled_Slip(h) ==
    /\ Alive(h) /\ tasks[h].cancelled
    /\ UNCHANGED open
    /\ IF ~tasks[h].lost /\ tasks[h].stage \in {"handler", "complete"}
       THEN tasks' = [tasks EXCEPT ![h].stage = "release", ![h].cancelled = FALSE] /\ UNCHANGED running
       ELSE End(h)
    /\ UNCHANGED <<jobs, next_id, now, held, written, proc, drained, audited, errors>>

\* task.cancel() is delivered at the next await.  A lost lease ends the task;
\* a shutdown releases the job, unless the task was already recording a
\* failure or releasing: then nothing is written and the lease runs out.
Cancelled(h) ==
    /\ Alive(h) /\ tasks[h].cancelled
    /\ open' = open \ {h}
    /\ IF ~tasks[h].lost /\ tasks[h].stage \in {"handler", "complete"}
       THEN tasks' = [tasks EXCEPT ![h].stage = "release", ![h].cancelled = FALSE] /\ UNCHANGED running
       ELSE End(h)
    /\ UNCHANGED <<jobs, next_id, now, held, written, proc, drained, audited, errors>>

\* _heartbeat: extends the lease, or cancels the task once it is gone.
DoHeartbeat(h) ==
    /\ Alive(h) /\ ~tasks[h].lost
    /\ \/ /\ tasks[h].beats < MaxBeats
          /\ Heartbeat(h)
          /\ tasks' = [tasks EXCEPT ![h].beats = @ + 1]
       \/ /\ LostLease(h)
          /\ tasks' = [tasks EXCEPT ![h].lost = TRUE, ![h].cancelled = TRUE]
          /\ UNCHANGED vars
    /\ UNCHANGED <<proc, running, drained, audited, errors>>

-----------------------------------------------------------------------------
(* Shutdown and death                                                      *)

\* SIGTERM: no more claims; _drain takes the tasks of the table.
Stop(w) ==
    /\ proc[w] = "running" /\ w \notin Steady
    /\ proc' = [proc EXCEPT ![w] = "draining"]
    /\ drained' = [drained EXCEPT ![w] = {running[w][k] : k \in DOMAIN running[w]}]
    /\ UNCHANGED <<vars, running, tasks, audited, errors>>

\* The grace period is over.
CancelPending(w) ==
    /\ proc[w] = "draining"
    /\ \E h \in drained[w] : Alive(h)
    /\ proc' = [proc EXCEPT ![w] = "cancelling"]
    /\ tasks' = [h \in DOMAIN tasks |->
                    IF h \in drained[w] THEN [tasks[h] EXCEPT !.cancelled = TRUE] ELSE tasks[h]]
    /\ UNCHANGED <<vars, running, drained, audited, errors>>

\* run() returns once every task it waited for is over.
Stopped(w) ==
    /\ proc[w] \in {"draining", "cancelling"}
    /\ \A h \in drained[w] : ~Alive(h)
    /\ proc' = [proc EXCEPT ![w] = "stopped"]
    /\ drained' = [drained EXCEPT ![w] = {}]
    /\ UNCHANGED <<vars, running, tasks, audited, errors>>

\* The process is gone, after run() or in the middle of anything.
Gone(w) ==
    /\ proc[w] # "gone" /\ w \notin Steady
    /\ proc' = [proc EXCEPT ![w] = "gone"]
    /\ held' = {h \in held : h.owner # w}
    /\ open' = {h \in open : h.owner # w}
    /\ tasks' = [h \in {g \in DOMAIN tasks : g.owner # w} |-> tasks[h]]
    /\ running' = [running EXCEPT ![w] = NoTasks]
    /\ drained' = [drained EXCEPT ![w] = {}]
    /\ UNCHANGED <<jobs, next_id, now, written, audited, errors>>

\* Time matters while a lease or a delay is running.
Clock ==
    /\ \E k \in Keys : \/ jobs[k].status = "running" /\ jobs[k].lease_until >= now
                       \/ jobs[k].status = "queued" /\ jobs[k].run_after > now
    /\ Tick
    /\ UNCHANGED wvars

Submit ==
    /\ \E k \in Keys, priority \in Priorities, delay \in Delays : Enqueue(k, priority, delay)
    /\ UNCHANGED wvars

Task(h) == \/ HandlerReturn(h) \/ HandlerRaise(h) \/ DoComplete(h) \/ DoFail(h)
           \/ DoRelease(h) \/ Cancelled(h)

WNext ==
    \/ \E w \in Workers : \/ ClaimLoop(w) \/ ReapLoop(w) \/ Stop(w) \/ CancelPending(w)
                          \/ Stopped(w) \/ Gone(w)
    \/ \E h \in DOMAIN tasks : HandlerBegin(h) \/ HandlerCommit(h) \/ DoHeartbeat(h) \/ Task(h)
    \/ Clock
    \/ Submit

WSpec == WInit /\ [][WNext]_allvars

\* A claim has one task at most.
TaskOf(k, fence) == {h \in DOMAIN tasks : h.job = k /\ h.fence = fence}

\* The loops of a process that stays up come round again; the event loop
\* resumes a task that can go on, and the job timeout ends a handler that
\* does not return; time passes.
Fairness ==
    /\ \A w \in Steady : WF_allvars(ClaimLoop(w)) /\ WF_allvars(ReapLoop(w))
    /\ \A k \in Keys, fence \in 1..MaxClaims : WF_allvars(\E h \in TaskOf(k, fence) : Task(h))
    /\ WF_allvars(Clock)

FairSpec == WSpec /\ Fairness

-----------------------------------------------------------------------------
(* Properties                                                              *)

\* A transaction never outlives its task: cancellation, timeout, failure and
\* death all roll it back, so no row stays locked behind a task that is gone.
NoAbandonedLock == \A h \in open : At(h, "handler")

\* The audit log has exactly one job.dead entry for a job that was given up
\* and none for any other, whether a worker or a reaper gave it up.
DeadAudited == \A k \in Keys : audited[k] = IF jobs[k].status = "dead" THEN 1 ELSE 0

\* As long as one process that can run it stays up, every job ends: done or
\* dead, whatever stalls, errors, shutdowns and crashes there are.
EveryJobSettles ==
    \A k \in Keys : jobs[k].status = "queued" ~> jobs[k].status \in {"done", "dead"}

\* What run() says of itself: "Process jobs until stop is set, then drain
\* in-flight jobs" - when it returns, no task of its own is left.
DrainsInFlight ==
    \A w \in Workers : proc[w] = "stopped" => \A h \in DOMAIN tasks : h.owner # w

=============================================================================
