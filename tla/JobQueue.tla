------------------------------ MODULE JobQueue ------------------------------
(***************************************************************************)
(* The Postgres job queue, app/queue/jobs.py.  One action per function,    *)
(* each of them one SQL statement and therefore atomic; the exception is   *)
(* the fenced transaction (JobContext.transaction in app/worker/runner.py) *)
(* which locks the job row in its first statement, AssertFence, and holds  *)
(* the lock until Commit or Rollback.                                      *)
(*                                                                         *)
(* The callers are deliberately unconstrained: a handle (the Job object    *)
(* that claim returned) stays usable until the process that holds it dies, *)
(* however stale it is, and any operation may be tried with it at any      *)
(* time.  An operation that finds the lease gone raises LeaseLost (or      *)
(* returns False) and writes nothing, which is a stuttering step here.     *)
(***************************************************************************)
EXTENDS Naturals

CONSTANTS
    Priorities,    \* priorities in use, of 0 (most urgent) to 3
    Keys,          \* idempotency keys; one job row per key
    Workers,       \* processes that claim jobs
    NoOwner,       \* lease_owner IS NULL
    Kinds,         \* job kinds
    KindOf,        \* the kind is part of every key the code builds
    Handles,       \* the kinds a process has handlers for
    MaxAttempts,   \* queue_max_attempts
    LeaseTTL,      \* queue_lease_ttl_s
    AgingStep,     \* queue_aging_step_s
    Delays,        \* values of enqueue's delay_s
    BackoffBase,   \* queue_backoff_base_s
    BackoffMax,    \* queue_backoff_max_s
    MaxNow,        \* bound: the clock stops here
    MaxClaims      \* bound: claims per job

ASSUME QueueConstants ==
    /\ Priorities \subseteq 0..3
    /\ NoOwner \notin Workers
    /\ KindOf \in [Keys -> Kinds]
    /\ Handles \in [Workers -> SUBSET Kinds]
    /\ MaxAttempts \in Nat \ {0}
    /\ LeaseTTL \in Nat
    /\ AgingStep \in Nat
    /\ Delays \subseteq Nat
    /\ BackoffBase \in Nat
    /\ BackoffMax \in Nat
    /\ MaxNow \in Nat
    /\ MaxClaims \in Nat

VARIABLES
    jobs,      \* the jobs table
    next_id,   \* its identity sequence
    now,       \* the database clock
    held,      \* the Job handles in the memory of live processes
    open,      \* handles with an open fenced transaction
    written    \* history: fence of the last fenced write committed for a job

vars == <<jobs, next_id, now, held, open, written>>

Statuses == {"absent", "queued", "running", "done", "dead"}

Row == [status: Statuses, id: Nat, priority: 0..3, attempts: Nat,
        enqueued_at: Nat, sort_key: Nat, run_after: Nat,
        lease_owner: Workers \cup {NoOwner}, lease_until: Nat, fence: Nat]

Handle == [job: Keys, fence: Nat, attempts: Nat, owner: Workers]

NoRow == [status |-> "absent", id |-> 0, priority |-> 0, attempts |-> 0,
          enqueued_at |-> 0, sort_key |-> 0, run_after |-> 0,
          lease_owner |-> NoOwner, lease_until |-> 0, fence |-> 0]

TypeOK ==
    /\ jobs \in [Keys -> Row]
    /\ next_id \in Nat
    /\ now \in Nat
    /\ held \subseteq Handle
    /\ open \subseteq held
    /\ written \in [Keys -> Nat]

Init ==
    /\ jobs = [k \in Keys |-> NoRow]
    /\ next_id = 1
    /\ now = 0
    /\ held = {}
    /\ open = {}
    /\ written = [k \in Keys |-> 0]

-----------------------------------------------------------------------------
(* State formulae.  A definition whose name ends in _Slip is a defect that  *)
(* is easy to write in the code it stands beside; no specification uses it, *)
(* it is there to see the properties fail.                                  *)

\* The WHERE clause of every write made with a handle.
Owns_Slip(h) == jobs[h.job].fence = h.fence
Owns(h) == jobs[h.job].status = "running" /\ jobs[h.job].fence = h.fence

\* assert_fence selects FOR UPDATE: the row stays locked while the
\* transaction is open.
Locked_Slip(k) == FALSE
Locked(k) == \E h \in open : h.job = k

\* ORDER BY sort_key, id
Before_Slip(j, k) ==
    \/ jobs[j].priority < jobs[k].priority
    \/ jobs[j].priority = jobs[k].priority /\ jobs[j].sort_key < jobs[k].sort_key
    \/ /\ jobs[j].priority = jobs[k].priority /\ jobs[j].sort_key = jobs[k].sort_key
       /\ jobs[j].id < jobs[k].id
Before(j, k) ==
    \/ jobs[j].sort_key < jobs[k].sort_key
    \/ jobs[j].sort_key = jobs[k].sort_key /\ jobs[j].id < jobs[k].id

Claimable(w, max_priority) ==
    {k \in Keys : /\ jobs[k].status = "queued"
                  /\ jobs[k].run_after <= now
                  /\ jobs[k].priority <= max_priority
                  /\ KindOf[k] \in Handles[w]}

Expired_Slip == {k \in Keys : /\ jobs[k].status = "running"
                              /\ jobs[k].lease_until < now
                              /\ jobs[k].attempts < MaxAttempts
                              /\ ~Locked(k)}
Expired == {k \in Keys : /\ jobs[k].status = "running"
                         /\ jobs[k].lease_until < now
                         /\ ~Locked(k)}

\* A random delay in [cap/2, cap] where cap doubles with every attempt.
BackoffDelays(attempt) ==
    LET raw == BackoffBase * 2^(attempt - 1)
        cap == IF raw < BackoffMax THEN raw ELSE BackoffMax
    IN  {d \in 0..BackoffMax : cap <= 2 * d /\ d <= cap}

-----------------------------------------------------------------------------
(* Operations                                                              *)

\* ON CONFLICT (idempotency_key) DO NOTHING: a second call is a no-op.
Enqueue(k, priority, delay) ==
    /\ jobs[k].status = "absent"
    /\ jobs' = [jobs EXCEPT ![k] = [NoRow EXCEPT
                    !.status = "queued", !.id = next_id, !.priority = priority,
                    !.enqueued_at = now,
                    !.sort_key = now + priority * AgingStep,
                    !.run_after = now + delay]]
    /\ next_id' = next_id + 1
    /\ UNCHANGED <<now, held, open, written>>

Leased(row, w) ==
    [row EXCEPT !.status = "running", !.lease_owner = w, !.lease_until = now + LeaseTTL,
                !.fence = row.fence + 1, !.attempts = row.attempts + 1]

Claim(w, max_priority) ==
    \E k \in Claimable(w, max_priority) :
        /\ \A j \in Claimable(w, max_priority) \ {k} : Before(k, j)
        /\ jobs[k].fence < MaxClaims
        /\ jobs' = [jobs EXCEPT ![k] = Leased(@, w)]
        /\ held' = held \cup {[job |-> k, fence |-> jobs[k].fence + 1,
                               attempts |-> jobs[k].attempts + 1, owner |-> w]}
        /\ UNCHANGED <<next_id, now, open, written>>

Heartbeat(h) ==
    /\ Owns(h) /\ ~Locked(h.job)
    /\ jobs' = [jobs EXCEPT ![h.job].lease_until = now + LeaseTTL]
    /\ UNCHANGED <<next_id, now, held, open, written>>

\* First statement of JobContext.transaction.
AssertFence(h) ==
    /\ Owns(h) /\ ~Locked(h.job)
    /\ open' = open \cup {h}
    /\ UNCHANGED <<jobs, next_id, now, held, written>>

Commit(h) ==
    /\ h \in open
    /\ open' = open \ {h}
    /\ written' = [written EXCEPT ![h.job] = h.fence]
    /\ UNCHANGED <<jobs, next_id, now, held>>

Rollback(h) ==
    /\ h \in open
    /\ open' = open \ {h}
    /\ UNCHANGED <<jobs, next_id, now, held, written>>

Unleased(row, status) ==
    [row EXCEPT !.status = status, !.lease_owner = NoOwner, !.lease_until = 0]

Complete(h) ==
    /\ Owns(h) /\ ~Locked(h.job)
    /\ jobs' = [jobs EXCEPT ![h.job] = Unleased(@, "done")]
    /\ UNCHANGED <<next_id, now, held, open, written>>

Failed(row, retryable, delay) ==
    [Unleased(row, IF retryable /\ row.attempts < MaxAttempts THEN "queued" ELSE "dead")
        EXCEPT !.run_after = now + delay]

\* The delay is drawn from the attempts of the handle, not of the row.
Fail(h, retryable) ==
    /\ Owns(h) /\ ~Locked(h.job)
    /\ \E d \in BackoffDelays(h.attempts) :
         jobs' = [jobs EXCEPT ![h.job] = Failed(@, retryable, d)]
    /\ UNCHANGED <<next_id, now, held, open, written>>

\* The run does not count as an attempt.
Released(row) ==
    [Unleased(row, "queued") EXCEPT !.attempts = row.attempts - 1, !.run_after = now]

Release(h) ==
    /\ Owns(h) /\ ~Locked(h.job)
    /\ jobs' = [jobs EXCEPT ![h.job] = Released(@)]
    /\ UNCHANGED <<next_id, now, held, open, written>>

Reaped_Slip(row) ==
    Unleased(row, IF row.attempts > MaxAttempts THEN "dead" ELSE "queued")
Reaped(row) ==
    Unleased(row, IF row.attempts >= MaxAttempts THEN "dead" ELSE "queued")

\* One statement for every expired row that no transaction holds.
Reap ==
    /\ Expired # {}
    /\ jobs' = [k \in Keys |-> IF k \in Expired THEN Reaped(jobs[k]) ELSE jobs[k]]
    /\ UNCHANGED <<next_id, now, held, open, written>>

\* The process dies: its handles are gone, the server rolls back its
\* transactions.  Nothing is written; the leases run out.
Crash(w) ==
    /\ \E h \in held : h.owner = w
    /\ held' = {h \in held : h.owner # w}
    /\ open' = {h \in open : h.owner # w}
    /\ UNCHANGED <<jobs, next_id, now, written>>

Tick ==
    /\ now < MaxNow
    /\ now' = now + 1
    /\ UNCHANGED <<jobs, next_id, held, open, written>>

Next ==
    \/ \E k \in Keys, priority \in Priorities, delay \in Delays : Enqueue(k, priority, delay)
    \/ \E w \in Workers, max_priority \in {0, 3} : Claim(w, max_priority)
    \/ \E h \in held : Heartbeat(h)
    \/ \E h \in held : AssertFence(h)
    \/ \E h \in held : Commit(h)
    \/ \E h \in held : Rollback(h)
    \/ \E h \in held : Complete(h)
    \/ \E h \in held, retryable \in BOOLEAN : Fail(h, retryable)
    \/ \E h \in held : Release(h)
    \/ Reap
    \/ \E w \in Workers : Crash(w)
    \/ Tick

Spec == Init /\ [][Next]_vars

\* What the queue promises its users, read off the table.
Promise == INSTANCE FencedJobs WITH
    state <- [k \in Keys |-> jobs[k].status],
    epoch <- [k \in Keys |-> jobs[k].fence],
    tries <- [k \in Keys |-> jobs[k].attempts],
    written <- written

-----------------------------------------------------------------------------
(* Properties                                                              *)

\* A fenced transaction that is open belongs to the current holder of a
\* running job, whatever reapers, other workers and the clock did since
\* assert_fence: what it commits is never the work of a zombie.
OpenTxOwnsLease == \A h \in open : Owns(h)

\* No write committed for a job is older than one already committed for it,
\* and none comes from a claim that was never granted.
NoStaleWrite ==
    [][\A k \in Keys : written'[k] >= written[k] /\ written'[k] <= jobs[k].fence]_vars

\* The queue keeps its promise (FencedJobs): one run at a time is current,
\* only it writes, and the number of runs that count is bounded.
KeepsPromise == Promise!Spec

\* A job that finished, or was given up, stays so: no late complete, fail,
\* release or reap of an earlier claim brings it back to the queue.
SettledForGood ==
    [][\A k \in Keys : jobs[k].status \in {"done", "dead"} => jobs'[k].status = jobs[k].status]_vars

\* A job is never started again once it used its attempts, by whichever mix
\* of crashes, failures and hand-backs it got there; a hand-back returns
\* exactly the attempt its own claim took.
AttemptsBounded ==
    \A k \in Keys :
        /\ jobs[k].status = "queued" => jobs[k].attempts < MaxAttempts
        /\ jobs[k].status = "running" => jobs[k].attempts \in 1..MaxAttempts
        /\ jobs[k].attempts <= jobs[k].fence

\* k was claimed by this step.
Claimed(k) == jobs[k].status = "queued" /\ jobs'[k].status = "running"

\* w claimed k and could have claimed j instead, in a claim of any priority or
\* in one of P0 only (runner.py keeps slots for those).
PassedOver(w, max_priority, j, k) ==
    Claim(w, max_priority) /\ Claimed(k) /\ j \in Claimable(w, max_priority)

\* Ageing: a job that has waited its priority difference in ageing steps
\* longer than another is not overtaken by it, whatever their priorities (an
\* aged P3 beats a new P0 in every claim that both may be in), retries,
\* hand-backs and lost leases included.  So nothing starves behind newer
\* urgent work.
NoOvertaking ==
    [][\A w \in Workers, max_priority \in {0, 3}, j, k \in Keys :
          PassedOver(w, max_priority, j, k) =>
            jobs[k].enqueued_at + jobs[k].priority * AgingStep
              <= jobs[j].enqueued_at + jobs[j].priority * AgingStep]_vars

=============================================================================
