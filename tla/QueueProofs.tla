---------------------------- MODULE QueueProofs -----------------------------
(***************************************************************************)
(* Proofs about JobQueue, for every number of jobs and workers, every      *)
(* lease length, attempt limit, priority step and backoff, and about       *)
(* Worker, for any number of processes, tasks, database errors, stops and  *)
(* crashes.                                                                *)
(***************************************************************************)
EXTENDS Worker, TLAPS

LEMMA RowFields ==
    ASSUME TypeOK, NEW k \in Keys
    PROVE  /\ jobs[k] \in Row
           /\ jobs[k].status \in Statuses /\ jobs[k].id \in Nat
           /\ jobs[k].priority \in 0..3 /\ jobs[k].attempts \in Nat
           /\ jobs[k].enqueued_at \in Nat /\ jobs[k].sort_key \in Nat
           /\ jobs[k].run_after \in Nat /\ jobs[k].lease_until \in Nat
           /\ jobs[k].lease_owner \in Workers \cup {NoOwner} /\ jobs[k].fence \in Nat
  BY DEF TypeOK, Row

LEMMA HandleFields ==
    ASSUME TypeOK, NEW h \in held
    PROVE  h.job \in Keys /\ h.fence \in Nat /\ h.attempts \in Nat /\ h.owner \in Workers
  BY DEF TypeOK, Handle


-----------------------------------------------------------------------------
(* JobQueue: the inductive invariant.  TypeOK needs AttemptsBounded (a     *)
(* release subtracts one), OpenTxOwnsLease needs the row lock, and a       *)
(* committed write needs OpenTxOwnsLease to be one of the current claim.   *)

\* No write carries a fence that was never given out.
WrittenGranted == \A k \in Keys : written[k] <= jobs[k].fence

\* A row that was never inserted has given out no fence.
AbsentBlank == \A k \in Keys : jobs[k].status = "absent" => jobs[k].fence = 0

QueueInv == TypeOK /\ OpenTxOwnsLease /\ AttemptsBounded /\ WrittenGranted /\ AbsentBlank

LEMMA InitInv == Init => QueueInv
  BY QueueConstants DEF Init, QueueInv, TypeOK, NoRow, Row, Statuses, OpenTxOwnsLease,
                        AttemptsBounded, WrittenGranted, AbsentBlank

\* What a statement that rewrites one row must respect.
LEMMA RowUpdate ==
    ASSUME QueueInv, NEW k \in Keys, NEW r \in Row,
           jobs' = [jobs EXCEPT ![k] = r],
           next_id' \in Nat, now' = now, held \subseteq held', held' \subseteq Handle,
           open' = open, written' = written,
           r.status # "absent",
           jobs[k].fence <= r.fence,
           r.attempts <= r.fence,
           r.status = "queued" => r.attempts < MaxAttempts,
           r.status = "running" => r.attempts \in 1..MaxAttempts,
           ~Locked(k) \/ (r.status = "running" /\ r.fence = jobs[k].fence)
    PROVE  QueueInv'
<1> USE DEF QueueInv
<1>1. jobs \in [Keys -> Row] /\ jobs' \in [Keys -> Row]
      /\ \A j \in Keys : jobs'[j] = IF j = k THEN r ELSE jobs[j]
  BY DEF TypeOK
<1>2. TypeOK'
  BY <1>1 DEF TypeOK
<1>3. OpenTxOwnsLease'
  <2> SUFFICES ASSUME NEW h \in open PROVE jobs'[h.job].status = "running" /\ jobs'[h.job].fence = h.fence
    BY DEF OpenTxOwnsLease, Owns
  <2>1. h.job \in Keys /\ jobs[h.job].status = "running" /\ jobs[h.job].fence = h.fence
    BY HandleFields DEF OpenTxOwnsLease, Owns, TypeOK
  <2>2. h.job = k => ~(~Locked(k))
    BY DEF Locked
  <2> QED BY <1>1, <2>1, <2>2
<1>4. AttemptsBounded'
  BY <1>1 DEF AttemptsBounded
<1>5. WrittenGranted'
  <2> SUFFICES ASSUME NEW j \in Keys PROVE written[j] <= jobs'[j].fence
    BY DEF WrittenGranted
  <2>1. written[j] \in Nat /\ jobs[j].fence \in Nat /\ jobs'[j].fence \in Nat
    BY <1>1 DEF TypeOK, Row
  <2>2. written[j] <= jobs[j].fence
    BY DEF WrittenGranted
  <2>3. jobs[j].fence <= jobs'[j].fence
    BY <1>1, <2>1
  <2> QED BY <2>1, <2>2, <2>3
<1>6. AbsentBlank'
  BY <1>1 DEF AbsentBlank
<1> QED BY <1>2, <1>3, <1>4, <1>5, <1>6

LEMMA EnqueueInv ==
    ASSUME QueueInv, NEW k \in Keys, NEW p \in Priorities, NEW d \in Delays, Enqueue(k, p, d)
    PROVE  QueueInv'
<1> DEFINE row == [NoRow EXCEPT !.status = "queued", !.id = next_id, !.priority = p,
                     !.enqueued_at = now, !.sort_key = now + p * AgingStep, !.run_after = now + d]
<1>1. row \in Row /\ row.status = "queued" /\ row.attempts = 0 /\ row.fence = 0
  <2>1. p \in 0..3 /\ now + p * AgingStep \in Nat /\ now + d \in Nat /\ next_id \in Nat /\ now \in Nat
    BY QueueConstants DEF QueueInv, TypeOK
  <2> QED BY <2>1 DEF NoRow, Row, Statuses
<1>2. jobs' = [jobs EXCEPT ![k] = row] /\ jobs[k].status = "absent"
      /\ UNCHANGED <<now, held, open, written>> /\ next_id' \in Nat
  BY DEF Enqueue, QueueInv, TypeOK
<1> HIDE DEF row
<1>3. jobs[k].fence = 0 /\ ~Locked(k)
  <2>1. ASSUME NEW h \in open, h.job = k PROVE FALSE
    BY <1>2, <2>1 DEF QueueInv, OpenTxOwnsLease, Owns
  <2> QED BY <1>2, <2>1 DEF QueueInv, AbsentBlank, Locked
<1>4. held \subseteq held' /\ held' \subseteq Handle /\ open' = open /\ written' = written /\ now' = now
  BY <1>2 DEF QueueInv, TypeOK
<1>5. /\ row.status # "absent" /\ jobs[k].fence <= row.fence /\ row.attempts <= row.fence
      /\ row.status = "queued" => row.attempts < MaxAttempts
      /\ row.status # "running"
  BY <1>1, <1>3, QueueConstants
<1> QED
  BY <1>1, <1>2, <1>3, <1>4, <1>5, RowUpdate

LEMMA LeasedRow ==
    ASSUME NEW row \in Row, NEW w \in Workers, now + LeaseTTL \in Nat
    PROVE  /\ Leased(row, w) \in Row
           /\ Leased(row, w).status = "running"
           /\ Leased(row, w).fence = row.fence + 1
           /\ Leased(row, w).attempts = row.attempts + 1
<1>1. row.fence + 1 \in Nat /\ row.attempts + 1 \in Nat /\ "running" \in Statuses
  BY DEF Row, Statuses
<1> QED BY <1>1 DEF Leased, Row

LEMMA ClaimInv ==
    ASSUME QueueInv, NEW w \in Workers, NEW m \in {0, 3}, Claim(w, m)
    PROVE  QueueInv'
<1>1. PICK k \in Keys :
          /\ jobs[k].status = "queued"
          /\ jobs' = [jobs EXCEPT ![k] = Leased(@, w)]
          /\ held' = held \cup {[job |-> k, fence |-> jobs[k].fence + 1,
                                 attempts |-> jobs[k].attempts + 1, owner |-> w]}
          /\ UNCHANGED <<next_id, now, open, written>>
  BY DEF Claim, Claimable
<1> DEFINE row == Leased(jobs[k], w)
<1>2. jobs[k].attempts < MaxAttempts /\ jobs[k].attempts <= jobs[k].fence /\ ~Locked(k)
  BY <1>1 DEF QueueInv, AttemptsBounded, OpenTxOwnsLease, Owns, Locked
<1>3. jobs[k] \in Row /\ now + LeaseTTL \in Nat /\ jobs[k].fence \in Nat /\ jobs[k].attempts \in Nat
  BY RowFields, QueueConstants DEF QueueInv, TypeOK
<1>4. /\ row \in Row /\ row.status = "running"
      /\ row.fence = jobs[k].fence + 1 /\ row.attempts = jobs[k].attempts + 1
  BY <1>3, LeasedRow
<1>5. jobs' = [jobs EXCEPT ![k] = row]
  BY <1>1
<1> HIDE DEF row
<1>6. held \subseteq held' /\ held' \subseteq Handle
  BY <1>1, <1>3 DEF QueueInv, TypeOK, Handle
<1>7. next_id' \in Nat /\ now' = now /\ open' = open /\ written' = written
  BY <1>1 DEF QueueInv, TypeOK
<1>8. /\ row.status # "absent" /\ jobs[k].fence <= row.fence /\ row.attempts <= row.fence
      /\ row.status # "queued" /\ row.attempts \in 1..MaxAttempts
  BY <1>2, <1>3, <1>4, QueueConstants
<1> QED
  BY <1>2, <1>4, <1>5, <1>6, <1>7, <1>8, RowUpdate

\* Heartbeat, complete, fail and release: the holder rewrites its own row.
LEMMA HolderUpdate ==
    ASSUME QueueInv, NEW h \in held, Owns(h), ~Locked(h.job), NEW r \in Row,
           jobs' = [jobs EXCEPT ![h.job] = r],
           UNCHANGED <<next_id, now, held, open, written>>,
           r.fence = jobs[h.job].fence,
           r.status # "absent",
           r.attempts = jobs[h.job].attempts \/ r.attempts = jobs[h.job].attempts - 1,
           r.status = "queued" => r.attempts < MaxAttempts,
           r.status = "running" => r.attempts = jobs[h.job].attempts
    PROVE  QueueInv'
<1>1. h.job \in Keys
  BY HandleFields DEF QueueInv
<1>2. jobs[h.job].attempts \in 1..MaxAttempts /\ jobs[h.job].attempts <= jobs[h.job].fence
      /\ jobs[h.job].fence \in Nat /\ jobs[h.job].attempts \in Nat
  BY <1>1, RowFields DEF QueueInv, AttemptsBounded, Owns
<1>3. next_id' \in Nat /\ now' = now /\ open' = open /\ written' = written
      /\ held \subseteq held' /\ held' \subseteq Handle
  BY DEF QueueInv, TypeOK
<1>4. /\ jobs[h.job].fence <= r.fence /\ r.attempts <= r.fence
      /\ r.status = "running" => r.attempts \in 1..MaxAttempts
  BY <1>2
<1> QED
  BY <1>1, <1>3, <1>4, RowUpdate

LEMMA HeartbeatInv ==
    ASSUME QueueInv, NEW h \in held, Heartbeat(h)
    PROVE  QueueInv'
<1> DEFINE row == [jobs[h.job] EXCEPT !.lease_until = now + LeaseTTL]
<1>1. h.job \in Keys /\ jobs[h.job] \in Row /\ now + LeaseTTL \in Nat
  BY HandleFields, RowFields, QueueConstants DEF QueueInv, TypeOK
<1>2. /\ row \in Row /\ row.status = jobs[h.job].status /\ row.fence = jobs[h.job].fence
      /\ row.attempts = jobs[h.job].attempts
  BY <1>1 DEF Row
<1>3. jobs' = [jobs EXCEPT ![h.job] = row] /\ Owns(h) /\ ~Locked(h.job)
      /\ UNCHANGED <<next_id, now, held, open, written>>
  BY DEF Heartbeat
<1>4. row.status = "running"
  BY <1>2, <1>3 DEF Owns
<1> HIDE DEF row
<1> QED
  BY <1>2, <1>3, <1>4, HolderUpdate

LEMMA UnleasedRow ==
    ASSUME NEW row \in Row, NEW st \in Statuses
    PROVE  /\ Unleased(row, st) \in Row
           /\ Unleased(row, st).status = st
           /\ Unleased(row, st).attempts = row.attempts
           /\ Unleased(row, st).fence = row.fence
  BY DEF Unleased, Row

LEMMA CompleteInv ==
    ASSUME QueueInv, NEW h \in held, Complete(h)
    PROVE  QueueInv'
<1> DEFINE row == Unleased(jobs[h.job], "done")
<1>1. jobs[h.job] \in Row /\ "done" \in Statuses
  BY HandleFields, RowFields DEF QueueInv, Statuses
<1>2. row \in Row /\ row.status = "done" /\ row.fence = jobs[h.job].fence
      /\ row.attempts = jobs[h.job].attempts
  BY <1>1, UnleasedRow
<1>3. jobs' = [jobs EXCEPT ![h.job] = row] /\ Owns(h) /\ ~Locked(h.job)
      /\ UNCHANGED <<next_id, now, held, open, written>>
  BY DEF Complete
<1> HIDE DEF row
<1> QED
  BY <1>2, <1>3, HolderUpdate

LEMMA FailedRow ==
    ASSUME NEW row \in Row, NEW b \in BOOLEAN, NEW d \in Nat, now \in Nat
    PROVE  /\ Failed(row, b, d) \in Row
           /\ Failed(row, b, d).status \in {"queued", "dead"}
           /\ Failed(row, b, d).status = "queued" => row.attempts < MaxAttempts
           /\ Failed(row, b, d).attempts = row.attempts
           /\ Failed(row, b, d).fence = row.fence
<1> DEFINE st == IF b /\ row.attempts < MaxAttempts THEN "queued" ELSE "dead"
<1>1. st \in Statuses /\ st \in {"queued", "dead"} /\ (st = "queued" => row.attempts < MaxAttempts)
  BY DEF Statuses
<1>2. Failed(row, b, d) = [Unleased(row, st) EXCEPT !.run_after = now + d]
  BY DEF Failed
<1> HIDE DEF st
<1> QED BY <1>1, <1>2, UnleasedRow DEF Row

LEMMA FailInv ==
    ASSUME QueueInv, NEW h \in held, NEW b \in BOOLEAN, Fail(h, b)
    PROVE  QueueInv'
<1>1. PICK d \in BackoffDelays(h.attempts) : jobs' = [jobs EXCEPT ![h.job] = Failed(jobs[h.job], b, d)]
  BY DEF Fail
<1> DEFINE row == Failed(jobs[h.job], b, d)
<1>2. jobs[h.job] \in Row /\ d \in Nat /\ now \in Nat
  BY HandleFields, RowFields, QueueConstants DEF QueueInv, TypeOK, BackoffDelays
<1>3. /\ row \in Row /\ row.status \in {"queued", "dead"} /\ row.fence = jobs[h.job].fence
      /\ row.attempts = jobs[h.job].attempts /\ (row.status = "queued" => row.attempts < MaxAttempts)
  BY <1>2, FailedRow
<1>4. jobs' = [jobs EXCEPT ![h.job] = row]
  BY <1>1
<1>5. Owns(h) /\ ~Locked(h.job) /\ UNCHANGED <<next_id, now, held, open, written>>
  BY DEF Fail
<1> HIDE DEF row
<1> QED
  BY <1>3, <1>4, <1>5, HolderUpdate

LEMMA ReleasedRow ==
    ASSUME NEW row \in Row, row.attempts >= 1, now \in Nat
    PROVE  /\ Released(row) \in Row
           /\ Released(row).status = "queued"
           /\ Released(row).attempts = row.attempts - 1
           /\ Released(row).fence = row.fence
<1> DEFINE u == Unleased(row, "queued")
<1>1. row.attempts - 1 \in Nat /\ "queued" \in Statuses
  BY DEF Row, Statuses
<1>2. u \in Row /\ u.status = "queued" /\ u.attempts = row.attempts /\ u.fence = row.fence
  BY <1>1, UnleasedRow
<1>3. Released(row) = [u EXCEPT !.attempts = row.attempts - 1, !.run_after = now]
  BY DEF Released
<1> HIDE DEF u
<1> QED BY <1>1, <1>2, <1>3 DEF Row

LEMMA ReleaseInv ==
    ASSUME QueueInv, NEW h \in held, Release(h)
    PROVE  QueueInv'
<1> DEFINE row == Released(jobs[h.job])
<1>1. Owns(h) /\ ~Locked(h.job) /\ UNCHANGED <<next_id, now, held, open, written>>
      /\ jobs' = [jobs EXCEPT ![h.job] = row]
  BY DEF Release
<1>2. h.job \in Keys /\ jobs[h.job] \in Row /\ now \in Nat
  BY HandleFields, RowFields DEF QueueInv, TypeOK
<1>3. jobs[h.job].attempts \in 1..MaxAttempts
  BY <1>1, <1>2 DEF QueueInv, AttemptsBounded, Owns
<1>4. /\ row \in Row /\ row.status = "queued" /\ row.fence = jobs[h.job].fence
      /\ row.attempts = jobs[h.job].attempts - 1
  BY <1>2, <1>3, ReleasedRow
<1>5. row.attempts < MaxAttempts
  BY <1>3, <1>4, QueueConstants
<1> HIDE DEF row
<1> QED
  BY <1>1, <1>4, <1>5, HolderUpdate

\* assert_fence, commit and rollback leave the table alone.
LEMMA TransactionInv ==
    ASSUME QueueInv, NEW h \in held, AssertFence(h) \/ Commit(h) \/ Rollback(h)
    PROVE  QueueInv'
<1> USE DEF QueueInv
<1>1. h.job \in Keys /\ h.fence \in Nat
  BY HandleFields
<1>2. jobs' = jobs /\ next_id' = next_id /\ now' = now /\ held' = held
  BY DEF AssertFence, Commit, Rollback
<1>3. \A g \in open' : g \in held /\ Owns(g)
  BY DEF AssertFence, Commit, Rollback, OpenTxOwnsLease, TypeOK
<1>4. OpenTxOwnsLease'
  BY <1>2, <1>3 DEF OpenTxOwnsLease, Owns
<1>5. written' = written \/ (Owns(h) /\ written' = [written EXCEPT ![h.job] = h.fence])
  BY DEF AssertFence, Commit, Rollback, OpenTxOwnsLease
<1>6. TypeOK'
  BY <1>1, <1>2, <1>3, <1>5 DEF TypeOK
<1>7. WrittenGranted'
  BY <1>1, <1>2, <1>5 DEF WrittenGranted, Owns, TypeOK, Row
<1>8. AttemptsBounded' /\ AbsentBlank'
  BY <1>2 DEF AttemptsBounded, AbsentBlank
<1> QED BY <1>4, <1>6, <1>7, <1>8

LEMMA ReapInv == ASSUME QueueInv, Reap PROVE QueueInv'
<1> USE DEF QueueInv
<1>1. UNCHANGED <<next_id, now, held, open, written>>
  BY DEF Reap
<1>2. \A k \in Keys : jobs'[k] = IF k \in Expired THEN Reaped(jobs[k]) ELSE jobs[k]
  BY DEF Reap
<1>3. ASSUME NEW k \in Keys
      PROVE  /\ Reaped(jobs[k]) \in Row /\ Reaped(jobs[k]).status \in {"queued", "dead"}
             /\ Reaped(jobs[k]).status = "queued" => jobs[k].attempts < MaxAttempts
             /\ Reaped(jobs[k]).attempts = jobs[k].attempts
             /\ Reaped(jobs[k]).fence = jobs[k].fence
  <2> DEFINE st == IF jobs[k].attempts >= MaxAttempts THEN "dead" ELSE "queued"
  <2>1. jobs[k] \in Row /\ jobs[k].attempts \in Nat
    BY RowFields
  <2>2. st \in Statuses /\ st \in {"queued", "dead"} /\ (st = "queued" => jobs[k].attempts < MaxAttempts)
    BY <2>1, QueueConstants DEF Statuses
  <2>3. Reaped(jobs[k]) = Unleased(jobs[k], st)
    BY DEF Reaped
  <2> HIDE DEF st
  <2> QED BY <2>1, <2>2, <2>3, UnleasedRow
<1>4. TypeOK'
  <2>1. jobs' \in [Keys -> Row]
    BY <1>3 DEF TypeOK, Reap
  <2> QED BY <1>1, <2>1 DEF TypeOK
<1>5. OpenTxOwnsLease'
  <2> SUFFICES ASSUME NEW h \in open PROVE jobs'[h.job].status = "running" /\ jobs'[h.job].fence = h.fence
    BY <1>1 DEF OpenTxOwnsLease, Owns
  <2>1. h.job \in Keys /\ jobs[h.job].status = "running" /\ jobs[h.job].fence = h.fence
    BY HandleFields DEF OpenTxOwnsLease, Owns, TypeOK
  <2>2. h.job \notin Expired
    BY DEF Expired, Locked
  <2> QED BY <1>2, <2>1, <2>2
<1>6. AttemptsBounded'
  BY <1>2, <1>3 DEF AttemptsBounded
<1>7. WrittenGranted' /\ AbsentBlank'
  BY <1>1, <1>2, <1>3 DEF WrittenGranted, AbsentBlank
<1> QED BY <1>4, <1>5, <1>6, <1>7

LEMMA CrashInv == ASSUME QueueInv, NEW w \in Workers, Crash(w) PROVE QueueInv'
  BY DEF QueueInv, Crash, TypeOK, OpenTxOwnsLease, Owns, AttemptsBounded, WrittenGranted, AbsentBlank

LEMMA TickInv == ASSUME QueueInv, Tick PROVE QueueInv'
  BY DEF QueueInv, Tick, TypeOK, OpenTxOwnsLease, Owns, AttemptsBounded, WrittenGranted, AbsentBlank

LEMMA StutterInv == ASSUME QueueInv, UNCHANGED vars PROVE QueueInv'
  BY DEF QueueInv, vars, TypeOK, OpenTxOwnsLease, Owns, AttemptsBounded, WrittenGranted, AbsentBlank

LEMMA NextInv == QueueInv /\ [Next]_vars => QueueInv'
<1> SUFFICES ASSUME QueueInv, [Next]_vars PROVE QueueInv'
  OBVIOUS
<1>1. ASSUME NEW k \in Keys, NEW p \in Priorities, NEW d \in Delays, Enqueue(k, p, d) PROVE QueueInv'
  BY <1>1, EnqueueInv
<1>2. ASSUME NEW w \in Workers, NEW m \in {0, 3}, Claim(w, m) PROVE QueueInv'
  BY <1>2, ClaimInv
<1>3. ASSUME NEW h \in held, Heartbeat(h) PROVE QueueInv'
  BY <1>3, HeartbeatInv
<1>4. ASSUME NEW h \in held, AssertFence(h) \/ Commit(h) \/ Rollback(h) PROVE QueueInv'
  BY <1>4, TransactionInv
<1>5. ASSUME NEW h \in held, Complete(h) PROVE QueueInv'
  BY <1>5, CompleteInv
<1>6. ASSUME NEW h \in held, NEW b \in BOOLEAN, Fail(h, b) PROVE QueueInv'
  BY <1>6, FailInv
<1>7. ASSUME NEW h \in held, Release(h) PROVE QueueInv'
  BY <1>7, ReleaseInv
<1>8. ASSUME NEW w \in Workers, Crash(w) PROVE QueueInv'
  BY <1>8, CrashInv
<1> QED
  BY <1>1, <1>2, <1>3, <1>4, <1>5, <1>6, <1>7, <1>8, ReapInv, TickInv, StutterInv DEF Next

\* The inductive invariant holds in every reachable state.
THEOREM Invariance == Spec => []QueueInv
  BY InitInv, NextInv, PTL DEF Spec

\* Type correctness: in particular a release never takes the attempts of a
\* job below zero and a process that died leaves no open transaction.
THEOREM Typing == Spec => []TypeOK
  BY Invariance, PTL DEF QueueInv

\* A zombie has no open transaction: whoever may commit a fenced write is the
\* current holder of a running job.
THEOREM Fencing == Spec => []OpenTxOwnsLease
  BY Invariance, PTL DEF QueueInv

\* The attempt limit holds for every mix of crashes, failures and releases.
THEOREM BoundedAttempts == Spec => []AttemptsBounded
  BY Invariance, PTL DEF QueueInv

-----------------------------------------------------------------------------
(* JobQueue: what a step may never do                                      *)

\* A settled row is rewritten by no statement.
LEMMA RowStep ==
    ASSUME QueueInv, Next, NEW k \in Keys, jobs[k].status \in {"done", "dead"}
    PROVE  jobs'[k] = jobs[k]
<1> USE DEF QueueInv
<1>1. ASSUME NEW j \in Keys, NEW p \in Priorities, NEW d \in Delays, Enqueue(j, p, d) PROVE jobs'[k] = jobs[k]
  BY <1>1 DEF Enqueue, TypeOK
<1>2. ASSUME NEW w \in Workers, NEW m \in {0, 3}, Claim(w, m) PROVE jobs'[k] = jobs[k]
  BY <1>2 DEF Claim, Claimable, TypeOK
<1>3. ASSUME NEW h \in held, Heartbeat(h) \/ Complete(h) \/ Release(h) PROVE jobs'[k] = jobs[k]
  BY <1>3, HandleFields DEF Heartbeat, Complete, Release, Owns, TypeOK
<1>4. ASSUME NEW h \in held, NEW b \in BOOLEAN, Fail(h, b) PROVE jobs'[k] = jobs[k]
  BY <1>4, HandleFields DEF Fail, Owns, TypeOK
<1>5. ASSUME NEW h \in held, AssertFence(h) \/ Commit(h) \/ Rollback(h) PROVE jobs'[k] = jobs[k]
  BY <1>5 DEF AssertFence, Commit, Rollback
<1>6. CASE Reap
  BY <1>6 DEF Reap, Expired
<1>7. ASSUME NEW w \in Workers, Crash(w) PROVE jobs'[k] = jobs[k]
  BY <1>7 DEF Crash
<1>8. CASE Tick
  BY <1>8 DEF Tick
<1> QED BY <1>1, <1>2, <1>3, <1>4, <1>5, <1>6, <1>7, <1>8 DEF Next

\* A job that is done or dead is never queued or run again.
THEOREM Settled == Spec => SettledForGood
<1>1. QueueInv /\ [Next]_vars =>
        [\A k \in Keys : jobs[k].status \in {"done", "dead"} => jobs'[k].status = jobs[k].status]_vars
  BY RowStep
<1> QED BY <1>1, Invariance, PTL DEF Spec, SettledForGood

\* Committed writes never go back to an older claim of the job.
THEOREM NoStaleWrites == Spec => NoStaleWrite
<1> DEFINE A == \A k \in Keys : written'[k] >= written[k] /\ written'[k] <= jobs[k].fence
<1>1. QueueInv /\ [Next]_vars => [A]_vars
  <2> SUFFICES ASSUME QueueInv, Next PROVE A
    OBVIOUS
  <2>1. \/ written' = written
        \/ \E h \in open : written' = [written EXCEPT ![h.job] = h.fence]
    BY DEF Next, Enqueue, Claim, Heartbeat, AssertFence, Commit, Rollback, Complete, Fail, Release, Reap, Crash, Tick
  <2>2. \A h \in open : h.job \in Keys /\ h.fence = jobs[h.job].fence
    BY HandleFields DEF QueueInv, TypeOK, OpenTxOwnsLease, Owns
  <2>3. \A k \in Keys : written[k] \in Nat /\ jobs[k].fence \in Nat /\ written[k] <= jobs[k].fence
    BY RowFields DEF QueueInv, TypeOK, WrittenGranted
  <2> QED BY <2>1, <2>2, <2>3 DEF QueueInv, TypeOK
<1> QED BY <1>1, Invariance, PTL DEF Spec, NoStaleWrite

-----------------------------------------------------------------------------
(* JobQueue: claim order                                                   *)

\* A job's place in line is fixed when it is enqueued.
PlaceKept == \A k \in Keys : jobs[k].sort_key = jobs[k].enqueued_at + jobs[k].priority * AgingStep

SamePlace(r, s) == r.sort_key = s.sort_key /\ r.enqueued_at = s.enqueued_at /\ r.priority = s.priority

LEMMA RowsKeepPlace ==
    ASSUME NEW row \in Row, NEW st, NEW w, NEW b, NEW d
    PROVE  /\ SamePlace(Leased(row, w), row)
           /\ SamePlace(Unleased(row, st), row)
           /\ SamePlace(Failed(row, b, d), row)
           /\ SamePlace(Released(row), row)
           /\ SamePlace(Reaped(row), row)
<1>1. SamePlace(Leased(row, w), row)
  BY DEF SamePlace, Leased, Row
<1>2. \A s : SamePlace(Unleased(row, s), row)
  BY DEF SamePlace, Unleased, Row
<1>3. SamePlace(Failed(row, b, d), row)
  BY DEF SamePlace, Failed, Unleased, Row
<1>4. SamePlace(Released(row), row)
  BY DEF SamePlace, Released, Unleased, Row
<1>5. SamePlace(Reaped(row), row)
  BY <1>2 DEF Reaped
<1> QED BY <1>1, <1>2, <1>3, <1>4, <1>5

LEMMA PlaceStep == QueueInv /\ PlaceKept /\ [Next]_vars => PlaceKept'
<1> SUFFICES ASSUME QueueInv, PlaceKept, [Next]_vars, NEW k \in Keys
             PROVE  jobs'[k].sort_key = jobs'[k].enqueued_at + jobs'[k].priority * AgingStep
  BY DEF PlaceKept
<1> DEFINE Kept == SamePlace(jobs'[k], jobs[k])
<1>0. SamePlace(jobs[k], jobs[k]) /\ jobs[k] \in Row /\ jobs \in [Keys -> Row]
  BY RowFields DEF SamePlace, QueueInv, TypeOK
<1>1. ASSUME NEW j \in Keys, NEW p \in Priorities, NEW d \in Delays, Enqueue(j, p, d)
      PROVE  Kept \/ jobs'[k].sort_key = jobs'[k].enqueued_at + jobs'[k].priority * AgingStep
  BY <1>0, <1>1 DEF Enqueue, NoRow
<1>2. ASSUME NEW w \in Workers, NEW m \in {0, 3}, Claim(w, m) PROVE Kept
  BY <1>0, <1>2, RowsKeepPlace DEF Claim
<1>3. ASSUME NEW h \in held, Heartbeat(h) PROVE Kept
  BY <1>0, <1>3 DEF Heartbeat, SamePlace, Row
<1>4. ASSUME NEW h \in held, Complete(h) PROVE Kept
  BY <1>0, <1>4, RowsKeepPlace DEF Complete
<1>5. ASSUME NEW h \in held, Release(h) PROVE Kept
  BY <1>0, <1>5, RowsKeepPlace DEF Release
<1>6. ASSUME NEW h \in held, NEW b \in BOOLEAN, Fail(h, b) PROVE Kept
  <2>1. PICK d : jobs' = [jobs EXCEPT ![h.job] = Failed(jobs[h.job], b, d)]
    BY <1>6 DEF Fail
  <2>2. SamePlace(Failed(jobs[k], b, d), jobs[k])
    BY <1>0, RowsKeepPlace
  <2> QED BY <1>0, <2>1, <2>2
<1>7. ASSUME Reap PROVE Kept
  BY <1>0, <1>7, RowsKeepPlace DEF Reap
<1>8. CASE jobs' = jobs
  BY <1>8 DEF PlaceKept
<1>9. ASSUME Kept PROVE jobs'[k].sort_key = jobs'[k].enqueued_at + jobs'[k].priority * AgingStep
  BY <1>9 DEF PlaceKept, SamePlace
<1>10. ASSUME \/ \E h \in held : AssertFence(h) \/ Commit(h) \/ Rollback(h)
              \/ \E w \in Workers : Crash(w)
              \/ Tick \/ UNCHANGED vars
       PROVE  jobs' = jobs
  BY <1>10 DEF AssertFence, Commit, Rollback, Crash, Tick, vars
<1> HIDE DEF Kept
<1> QED BY <1>1, <1>2, <1>3, <1>4, <1>5, <1>6, <1>7, <1>8, <1>9, <1>10 DEF Next

\* A claim takes the first in line of those it may take.
LEMMA ClaimedFirst ==
    ASSUME QueueInv, NEW w \in Workers, NEW m \in {0, 3}, NEW j \in Keys, NEW k \in Keys,
           PassedOver(w, m, j, k)
    PROVE  k = j \/ Before(k, j)
<1>0. jobs \in [Keys -> Row]
  BY DEF QueueInv, TypeOK
<1>1. PICK i \in Claimable(w, m) :
        /\ \A l \in Claimable(w, m) \ {i} : Before(i, l)
        /\ jobs' = [jobs EXCEPT ![i] = Leased(@, w)]
  BY DEF PassedOver, Claim
<1>2. i = k
  BY <1>0, <1>1 DEF PassedOver, Claimed
<1> QED BY <1>1, <1>2 DEF PassedOver

\* Ageing is never undone: see NoOvertaking.
THEOREM ClaimOrder == Spec => NoOvertaking
<1>1. QueueInv /\ PlaceKept /\ [Next]_vars =>
        [\A w \in Workers, max_priority \in {0, 3}, j, k \in Keys :
            PassedOver(w, max_priority, j, k) =>
              jobs[k].enqueued_at + jobs[k].priority * AgingStep
                <= jobs[j].enqueued_at + jobs[j].priority * AgingStep]_vars
  <2> SUFFICES ASSUME QueueInv, PlaceKept, NEW w \in Workers, NEW m \in {0, 3},
                      NEW j \in Keys, NEW k \in Keys, PassedOver(w, m, j, k)
               PROVE  jobs[k].enqueued_at + jobs[k].priority * AgingStep
                        <= jobs[j].enqueued_at + jobs[j].priority * AgingStep
    OBVIOUS
  <2>1. jobs[k].sort_key <= jobs[j].sort_key
    <3>1. k = j \/ Before(k, j)
      BY ClaimedFirst
    <3>2. jobs[k].sort_key \in Nat /\ jobs[j].sort_key \in Nat
      BY RowFields DEF QueueInv
    <3> QED BY <3>1, <3>2 DEF Before
  <2> QED BY <2>1 DEF PlaceKept
<1>2. Init => PlaceKept
  BY QueueConstants DEF Init, PlaceKept, NoRow
<1> QED BY <1>1, <1>2, PlaceStep, Invariance, PTL DEF Spec, NoOvertaking

-----------------------------------------------------------------------------
(* The queue implements FencedJobs.  Time, locks, handles and crashes are   *)
(* invisible there; a committed transaction is a Write of the current run.  *)

LEMMA PromiseInit == Init => Promise!Init
  BY DEF Init, Promise!Init, NoRow

LEMMA PromiseStep == QueueInv /\ [Next]_vars => [Promise!Next]_(Promise!vars)
<1> SUFFICES ASSUME QueueInv, [Next]_vars PROVE Promise!Next \/ UNCHANGED Promise!vars
  OBVIOUS
<1>0. jobs \in [Keys -> Row]
  BY DEF QueueInv, TypeOK
<1>1. ASSUME NEW k \in Keys, NEW p \in Priorities, NEW d \in Delays, Enqueue(k, p, d)
      PROVE  Promise!Submit(k)
  <2> DEFINE row == [NoRow EXCEPT !.status = "queued", !.id = next_id, !.priority = p,
                       !.enqueued_at = now, !.sort_key = now + p * AgingStep, !.run_after = now + d]
  <2>1. jobs' = [jobs EXCEPT ![k] = row] /\ written' = written /\ jobs[k].status = "absent"
    BY <1>1 DEF Enqueue
  <2>2. row.status = "queued" /\ row.fence = 0 /\ row.attempts = 0
    BY DEF NoRow
  <2> HIDE DEF row
  <2>3. jobs[k].fence = 0 /\ jobs[k].attempts = 0
    BY <2>1, RowFields DEF QueueInv, AbsentBlank, AttemptsBounded
  <2> QED BY <1>0, <2>1, <2>2, <2>3 DEF Promise!Submit
<1>2. ASSUME NEW w \in Workers, NEW m \in {0, 3}, Claim(w, m)
      PROVE  \E k \in Keys : Promise!Grant(k)
  <2>1. PICK k \in Keys : jobs[k].status = "queued" /\ jobs' = [jobs EXCEPT ![k] = Leased(jobs[k], w)]
                          /\ written' = written
    BY <1>2 DEF Claim, Claimable
  <2> DEFINE row == Leased(jobs[k], w)
  <2>2. row.status = "running" /\ row.fence = jobs[k].fence + 1 /\ row.attempts = jobs[k].attempts + 1
    BY <1>0 DEF Leased, Row
  <2>3. jobs' = [jobs EXCEPT ![k] = row]
    BY <2>1
  <2> HIDE DEF row
  <2>4. jobs[k].attempts < MaxAttempts
    BY <2>1 DEF QueueInv, AttemptsBounded
  <2>5. Promise!Grant(k)
    BY <1>0, <2>1, <2>2, <2>3, <2>4 DEF Promise!Grant
  <2> QED BY <2>5
<1>3. ASSUME NEW h \in held, Heartbeat(h) PROVE UNCHANGED Promise!vars
  <2> DEFINE row == [jobs[h.job] EXCEPT !.lease_until = now + LeaseTTL]
  <2>1. h.job \in Keys /\ jobs' = [jobs EXCEPT ![h.job] = row] /\ written' = written
    BY <1>3, HandleFields DEF Heartbeat, QueueInv
  <2>2. row.status = jobs[h.job].status /\ row.fence = jobs[h.job].fence /\ row.attempts = jobs[h.job].attempts
    BY <1>0, <2>1 DEF Row
  <2> HIDE DEF row
  <2> QED BY <1>0, <2>1, <2>2 DEF Promise!vars
<1>4. ASSUME NEW h \in held, AssertFence(h) \/ Rollback(h) PROVE UNCHANGED Promise!vars
  BY <1>4 DEF AssertFence, Rollback, Promise!vars
<1>5. ASSUME NEW h \in held, Commit(h) PROVE Promise!Write(h.job) /\ h.job \in Keys
  <2>1. h.job \in Keys /\ jobs[h.job].status = "running" /\ jobs[h.job].fence = h.fence
    BY <1>5, HandleFields DEF Commit, QueueInv, OpenTxOwnsLease, Owns
  <2>2. jobs' = jobs /\ written' = [written EXCEPT ![h.job] = h.fence]
    BY <1>5 DEF Commit
  <2> QED BY <2>1, <2>2 DEF Promise!Write
<1>6. ASSUME NEW h \in held, Complete(h) PROVE Promise!Finish(h.job) /\ h.job \in Keys
  <2> DEFINE row == Unleased(jobs[h.job], "done")
  <2>1. h.job \in Keys /\ jobs[h.job].status = "running" /\ jobs' = [jobs EXCEPT ![h.job] = row]
        /\ written' = written
    BY <1>6, HandleFields DEF Complete, QueueInv, Owns
  <2>2. row.status = "done" /\ row.fence = jobs[h.job].fence /\ row.attempts = jobs[h.job].attempts
    BY <1>0, <2>1, UnleasedRow DEF Statuses
  <2> HIDE DEF row
  <2> QED BY <1>0, <2>1, <2>2 DEF Promise!Finish
<1>7. ASSUME NEW h \in held, NEW b \in BOOLEAN, Fail(h, b) PROVE Promise!Lose(h.job) /\ h.job \in Keys
  <2>1. PICK d \in BackoffDelays(h.attempts) : jobs' = [jobs EXCEPT ![h.job] = Failed(jobs[h.job], b, d)]
    BY <1>7 DEF Fail
  <2> DEFINE row == Failed(jobs[h.job], b, d)
  <2>2. h.job \in Keys /\ jobs[h.job].status = "running" /\ written' = written
    BY <1>7, HandleFields DEF Fail, QueueInv, Owns
  <2>3. jobs[h.job] \in Row /\ d \in Nat /\ now \in Nat
    BY <1>0, <2>2, QueueConstants DEF QueueInv, TypeOK, BackoffDelays
  <2>4. /\ row.status \in {"queued", "dead"} /\ row.fence = jobs[h.job].fence
        /\ row.attempts = jobs[h.job].attempts /\ (row.status = "queued" => jobs[h.job].attempts < MaxAttempts)
    BY <2>3, FailedRow
  <2>5. jobs' = [jobs EXCEPT ![h.job] = row]
    BY <2>1
  <2> HIDE DEF row
  <2> QED BY <1>0, <2>2, <2>4, <2>5 DEF Promise!Lose
<1>8. ASSUME NEW h \in held, Release(h) PROVE Promise!HandBack(h.job) /\ h.job \in Keys
  <2> DEFINE row == Released(jobs[h.job])
  <2>1. h.job \in Keys /\ jobs[h.job].status = "running" /\ jobs' = [jobs EXCEPT ![h.job] = row]
        /\ written' = written
    BY <1>8, HandleFields DEF Release, QueueInv, Owns
  <2>2. jobs[h.job] \in Row /\ now \in Nat /\ jobs[h.job].attempts >= 1
    BY <1>0, <2>1 DEF QueueInv, TypeOK, AttemptsBounded
  <2>3. row.status = "queued" /\ row.fence = jobs[h.job].fence /\ row.attempts = jobs[h.job].attempts - 1
    BY <2>2, ReleasedRow
  <2> HIDE DEF row
  <2> QED BY <1>0, <2>1, <2>3 DEF Promise!HandBack
<1>9. ASSUME Reap PROVE \E S \in SUBSET Keys : Promise!Revoke(S)
  <2>0. PICK S \in SUBSET Keys : S = Expired
    BY DEF Expired
  <2>1. \A k \in Keys : jobs'[k] = IF k \in Expired THEN Reaped(jobs[k]) ELSE jobs[k]
    BY <1>9 DEF Reap
  <2>2. ASSUME NEW k \in Keys
        PROVE  /\ Reaped(jobs[k]).status = IF jobs[k].attempts < MaxAttempts THEN "queued" ELSE "dead"
               /\ Reaped(jobs[k]).attempts = jobs[k].attempts
               /\ Reaped(jobs[k]).fence = jobs[k].fence
    <3> DEFINE st == IF jobs[k].attempts >= MaxAttempts THEN "dead" ELSE "queued"
    <3>1. jobs[k] \in Row /\ jobs[k].attempts \in Nat
      BY RowFields DEF QueueInv
    <3>2. st \in Statuses /\ st = IF jobs[k].attempts < MaxAttempts THEN "queued" ELSE "dead"
      BY <3>1, QueueConstants DEF Statuses
    <3>3. Reaped(jobs[k]) = Unleased(jobs[k], st)
      BY DEF Reaped
    <3> HIDE DEF st
    <3> QED BY <3>1, <3>2, <3>3, UnleasedRow
  <2>3. \A k \in Expired : k \in Keys /\ jobs[k].status = "running"
    BY DEF Expired
  <2>4. written' = written
    BY <1>9 DEF Reap
  <2>5. \A k \in Keys : jobs'[k] = IF k \in S THEN Reaped(jobs[k]) ELSE jobs[k]
    BY <2>0, <2>1
  <2>6. \A k \in S : k \in Keys /\ jobs[k].status = "running"
    BY <2>0, <2>3
  <2> QED BY <2>2, <2>4, <2>5, <2>6 DEF Promise!Revoke
<1>10. ASSUME \/ \E w \in Workers : Crash(w)
              \/ Tick \/ UNCHANGED vars
       PROVE  UNCHANGED Promise!vars
  BY <1>10 DEF Crash, Tick, vars, Promise!vars
<1>12. ASSUME NEW k \in Keys, \/ Promise!Submit(k) \/ Promise!Grant(k) \/ Promise!Write(k)
                                \/ Promise!Finish(k) \/ Promise!Lose(k) \/ Promise!HandBack(k)
       PROVE  Promise!Next
  BY <1>12 DEF Promise!Next
<1>13. ASSUME NEW S \in SUBSET Keys, Promise!Revoke(S) PROVE Promise!Next
  BY <1>13 DEF Promise!Next
<1> DEFINE Goal == Promise!Next \/ UNCHANGED Promise!vars
<1>14. ASSUME NEW k \in Keys, NEW p \in Priorities, NEW d \in Delays, Enqueue(k, p, d) PROVE Goal
  BY <1>1, <1>12, <1>14
<1>15. ASSUME NEW w \in Workers, NEW m \in {0, 3}, Claim(w, m) PROVE Goal
  BY <1>2, <1>12, <1>15
<1>16. ASSUME NEW h \in held, Heartbeat(h) \/ AssertFence(h) \/ Rollback(h) PROVE Goal
  BY <1>3, <1>4, <1>16
<1>17. ASSUME NEW h \in held, Commit(h) \/ Complete(h) \/ Release(h) PROVE Goal
  BY <1>5, <1>6, <1>8, <1>12, <1>17
<1>18. ASSUME NEW h \in held, NEW b \in BOOLEAN, Fail(h, b) PROVE Goal
  BY <1>7, <1>12, <1>18
<1>19. ASSUME Reap \/ Tick \/ (\E w \in Workers : Crash(w)) \/ UNCHANGED vars PROVE Goal
  BY <1>9, <1>10, <1>13, <1>19
<1> HIDE DEF Goal
<1>20. Goal
  BY <1>14, <1>15, <1>16, <1>17, <1>18, <1>19 DEF Next
<1> QED BY <1>20 DEF Goal

\* The queue implements the abstract specification FencedJobs.
THEOREM Refinement == Spec => KeepsPromise
<1>1. QueueInv /\ [Next]_vars => [Promise!Next]_(Promise!vars)
  BY PromiseStep
<1> QED BY <1>1, PromiseInit, Invariance, PTL DEF Spec, KeepsPromise, Promise!Spec

-----------------------------------------------------------------------------
(* Worker: the invariant                                                   *)

\* A task has a record, and works with a handle its process holds.
TaskRecord == [stage: {"handler", "complete", "fail", "fail_permanent", "release"},
               lost: BOOLEAN, cancelled: BOOLEAN, beats: Nat]
TasksOK == DOMAIN tasks \subseteq held /\ \A h \in DOMAIN tasks : tasks[h] \in TaskRecord

\* A handle carries a fence that was given out.
HeldGranted == \A h \in held : h.fence <= jobs[h.job].fence

WorkerInv == QueueInv /\ HeldGranted /\ TasksOK /\ NoAbandonedLock /\ DeadAudited

\* A task that goes on at another stage is a task.
LEMMA GoToRecord ==
    ASSUME TasksOK, NEW h \in DOMAIN tasks,
           NEW stage \in {"handler", "complete", "fail", "fail_permanent", "release"}, GoTo(h, stage)
    PROVE  /\ DOMAIN tasks' = DOMAIN tasks
           /\ \A g \in DOMAIN tasks : tasks'[g] \in TaskRecord /\ (g # h => tasks'[g] = tasks[g])
           /\ tasks'[h].stage = stage
<1>1. tasks[h] \in TaskRecord
  BY DEF TasksOK
<1>2. tasks'[h] = [tasks[h] EXCEPT !.stage = stage]
  BY DEF GoTo
<1>3. tasks'[h] \in TaskRecord /\ tasks'[h].stage = stage
  BY <1>1, <1>2 DEF TaskRecord
<1> QED  BY <1>3 DEF GoTo, TasksOK

\* A task that ends leaves the others as they are.
LEMMA EndRecord ==
    ASSUME TasksOK, NEW h, End(h)
    PROVE  /\ DOMAIN tasks' = DOMAIN tasks \ {h}
           /\ \A g \in DOMAIN tasks' : tasks'[g] = tasks[g]
BY DEF End, Without

-----------------------------------------------------------------------------
(* Worker: what the process does to the queue                              *)

\* Every step of a worker process is a step of the queue, or none: it uses
\* the queue only through its operations and with handles it holds.
LEMMA QueueUse ==
    ASSUME QueueInv, TasksOK, [WNext]_allvars
    PROVE  [Next]_vars
<1>0. open \subseteq held /\ DOMAIN tasks \subseteq held
  BY DEF QueueInv, TypeOK, TasksOK
<1>1. ASSUME NEW w \in Workers, ClaimLoop(w) PROVE [Next]_vars
  <2>1. \E m \in {0, 3} : Claim(w, m)
    BY <1>1 DEF ClaimLoop
  <2> QED  BY <2>1 DEF Next
<1>2. ASSUME NEW w \in Workers, ReapLoop(w) PROVE [Next]_vars
  BY <1>2 DEF ReapLoop, Next
<1>3. ASSUME NEW w \in Workers, Stop(w) \/ CancelPending(w) \/ Stopped(w) PROVE [Next]_vars
  BY <1>3 DEF Stop, CancelPending, Stopped
<1>4. ASSUME NEW w \in Workers, Gone(w) PROVE [Next]_vars
  <2>1. CASE \E h \in held : h.owner = w
    <3>1. Crash(w)
      BY <1>4, <2>1 DEF Gone, Crash
    <3> QED  BY <3>1 DEF Next
  <2>2. CASE ~\E h \in held : h.owner = w
    <3>1. held' = held /\ open' = open
      BY <1>0, <1>4, <2>2 DEF Gone
    <3> QED  BY <1>4, <3>1 DEF Gone, vars
  <2> QED  BY <2>1, <2>2
<1>5. ASSUME NEW h \in held, open' = open \ {h}, UNCHANGED <<jobs, next_id, now, held, written>>
      PROVE  [Next]_vars
  <2>1. CASE h \in open
    <3>1. Rollback(h)
      BY <1>5, <2>1 DEF Rollback
    <3> QED  BY <3>1 DEF Next
  <2>2. CASE h \notin open
    BY <1>5, <2>2 DEF vars
  <2> QED  BY <2>1, <2>2
<1>6. ASSUME NEW h \in DOMAIN tasks, HandlerBegin(h) \/ HandlerCommit(h) \/ DoHeartbeat(h) \/ Task(h)
      PROVE  [Next]_vars
  <2>0. h \in held
    BY <1>0
  <2>1. CASE HandlerBegin(h)
    <3>1. AssertFence(h) \/ UNCHANGED vars
      BY <2>1 DEF HandlerBegin
    <3> QED  BY <2>0, <3>1 DEF Next
  <2>2. CASE HandlerCommit(h)
    BY <2>0, <2>2 DEF HandlerCommit, Next
  <2>3. CASE DoHeartbeat(h)
    <3>1. Heartbeat(h) \/ UNCHANGED vars
      BY <2>3 DEF DoHeartbeat
    <3> QED  BY <2>0, <3>1 DEF Next
  <2>4. CASE HandlerReturn(h)
    BY <2>4 DEF HandlerReturn
  <2>5. CASE HandlerRaise(h) \/ Cancelled(h)
    BY <1>5, <2>0, <2>5 DEF HandlerRaise, Cancelled
  <2>6. CASE DoComplete(h)
    <3>1. Complete(h) \/ UNCHANGED vars
      BY <2>6 DEF DoComplete
    <3> QED  BY <2>0, <3>1 DEF Next
  <2>7. CASE DoFail(h)
    <3>1. Fail(h, tasks[h].stage = "fail") \/ UNCHANGED vars
      BY <2>7 DEF DoFail
    <3>2. (tasks[h].stage = "fail") \in BOOLEAN
      OBVIOUS
    <3> QED  BY <2>0, <3>1, <3>2 DEF Next
  <2>8. CASE DoRelease(h)
    <3>1. Release(h) \/ UNCHANGED vars
      BY <2>8 DEF DoRelease
    <3> QED  BY <2>0, <3>1 DEF Next
  <2> QED  BY <1>6, <2>1, <2>2, <2>3, <2>4, <2>5, <2>6, <2>7, <2>8 DEF Task
<1>7. CASE Clock \/ Submit
  BY <1>7 DEF Clock, Submit, Next
<1>8. CASE UNCHANGED allvars
  BY <1>8 DEF allvars
<1> QED  BY <1>1, <1>2, <1>3, <1>4, <1>6, <1>7, <1>8 DEF WNext

\* What a step of the queue does to its handles and fences.
LEMMA GrantedStep ==
    ASSUME QueueInv, HeldGranted, [Next]_vars
    PROVE  HeldGranted'
<1>0. /\ jobs \in [Keys -> Row] /\ \A h \in held : h.job \in Keys /\ h.fence \in Nat
      /\ \A k \in Keys : jobs[k].fence \in Nat
  BY DEF QueueInv, TypeOK, Handle, Row
<1>1. ASSUME NEW k \in Keys, NEW p \in Priorities, NEW d \in Delays, Enqueue(k, p, d) PROVE HeldGranted'
  <2>1. jobs[k].fence = 0
    BY <1>1 DEF Enqueue, QueueInv, AbsentBlank
  <2>2. \A j \in Keys : jobs'[j].fence = jobs[j].fence
    BY <1>0, <1>1, <2>1 DEF Enqueue, NoRow
  <2> QED  BY <1>0, <1>1, <2>2 DEF Enqueue, HeldGranted
<1>2. ASSUME NEW w \in Workers, NEW m \in {0, 3}, Claim(w, m) PROVE HeldGranted'
  <2>1. PICK k \in Keys :
            /\ jobs' = [jobs EXCEPT ![k] = Leased(@, w)]
            /\ held' = held \cup {[job |-> k, fence |-> jobs[k].fence + 1,
                                   attempts |-> jobs[k].attempts + 1, owner |-> w]}
    BY <1>2 DEF Claim, Claimable
  <2>2. \A j \in Keys : jobs'[j].fence = IF j = k THEN jobs[j].fence + 1 ELSE jobs[j].fence
    BY <1>0, <2>1 DEF Leased, Row
  <2> QED  BY <1>0, <2>1, <2>2 DEF HeldGranted
<1>3. ASSUME held' \subseteq held, \A k \in Keys : jobs'[k].fence = jobs[k].fence PROVE HeldGranted'
  BY <1>0, <1>3 DEF HeldGranted
<1>4. ASSUME NEW h \in held, Heartbeat(h) \/ Complete(h) \/ Release(h) PROVE HeldGranted'
  <2>0. h.job \in Keys /\ jobs[h.job] \in Row
    BY <1>0
  <2>1. CASE Heartbeat(h)
    <3>1. jobs' = [jobs EXCEPT ![h.job].lease_until = now + LeaseTTL] /\ held' = held
      BY <2>1 DEF Heartbeat
    <3>2. \A k \in Keys : jobs'[k].fence = jobs[k].fence
      BY <1>0, <2>0, <3>1 DEF Row
    <3> QED  BY <1>3, <3>1, <3>2
  <2>2. CASE Complete(h)
    <3>1. jobs' = [jobs EXCEPT ![h.job] = Unleased(@, "done")] /\ held' = held
      BY <2>2 DEF Complete
    <3>2. Unleased(jobs[h.job], "done").fence = jobs[h.job].fence
      BY <2>0 DEF Unleased, Row
    <3>3. \A k \in Keys : jobs'[k].fence = jobs[k].fence
      BY <1>0, <2>0, <3>1, <3>2
    <3> QED  BY <1>3, <3>1, <3>3
  <2>3. CASE Release(h)
    <3>1. jobs' = [jobs EXCEPT ![h.job] = Released(@)] /\ held' = held
      BY <2>3 DEF Release
    <3>2. Released(jobs[h.job]).fence = jobs[h.job].fence
      BY <2>0 DEF Released, Unleased, Row
    <3>3. \A k \in Keys : jobs'[k].fence = jobs[k].fence
      BY <1>0, <2>0, <3>1, <3>2
    <3> QED  BY <1>3, <3>1, <3>3
  <2> QED  BY <1>4, <2>1, <2>2, <2>3
<1>5. ASSUME NEW h \in held, NEW b \in BOOLEAN, Fail(h, b) PROVE HeldGranted'
  <2>1. PICK d \in BackoffDelays(h.attempts) : jobs' = [jobs EXCEPT ![h.job] = Failed(@, b, d)]
    BY <1>5 DEF Fail
  <2>2. \A k \in Keys : jobs'[k].fence = jobs[k].fence
    BY <1>0, <2>1 DEF Failed, Unleased, Row
  <2> QED  BY <1>3, <1>5, <2>2 DEF Fail
<1>6. ASSUME NEW h \in held, AssertFence(h) \/ Commit(h) \/ Rollback(h) PROVE HeldGranted'
  BY <1>3, <1>6 DEF AssertFence, Commit, Rollback
<1>7. CASE Reap
  <2>1. \A k \in Keys : jobs'[k].fence = jobs[k].fence
    BY <1>0, <1>7 DEF Reap, Reaped, Unleased, Row
  <2> QED  BY <1>3, <1>7, <2>1 DEF Reap
<1>8. ASSUME NEW w \in Workers, Crash(w) PROVE HeldGranted'
  BY <1>3, <1>8 DEF Crash
<1>9. CASE Tick \/ UNCHANGED vars
  BY <1>3, <1>9 DEF Tick, vars
<1> QED  BY <1>1, <1>2, <1>4, <1>5, <1>6, <1>7, <1>8, <1>9 DEF Next

\* The handle of a claim is new: its fence is one more than any given out.
LEMMA NewHandle ==
    ASSUME QueueInv, HeldGranted, NEW w \in Workers, NEW m \in {0, 3}, Claim(w, m)
    PROVE  \E h \in held' \ held :
              held' = held \cup {h} /\ (\A g \in held' : g \notin held => g = h)
<1>1. PICK k \in Keys :
          held' = held \cup {[job |-> k, fence |-> jobs[k].fence + 1,
                               attempts |-> jobs[k].attempts + 1, owner |-> w]}
  BY DEF Claim, Claimable
<1> DEFINE h == [job |-> k, fence |-> jobs[k].fence + 1,
                 attempts |-> jobs[k].attempts + 1, owner |-> w]
<1>2. h \notin held
  <2>1. jobs[k].fence \in Nat
    BY DEF QueueInv, TypeOK, Row
  <2>2. h.job = k /\ h.fence = jobs[k].fence + 1
    OBVIOUS
  <2>3. h \in held => h.fence <= jobs[h.job].fence
    BY DEF HeldGranted
  <2> QED  BY <2>1, <2>2, <2>3
<1>3. held' = held \cup {h}
  BY <1>1
<1> HIDE DEF h
<1> QED  BY <1>2, <1>3

-----------------------------------------------------------------------------
(* Tasks, row locks and the audit log, step by step                        *)

\* A claim adds a task in its handler to those that were there.
LEMMA ClaimTask ==
    ASSUME QueueInv, HeldGranted, NEW w \in Workers, ClaimLoop(w)
    PROVE  \E h \in held' \ held :
              /\ DOMAIN tasks' = DOMAIN tasks \cup {h}
              /\ tasks'[h] \in TaskRecord
              /\ \A g \in DOMAIN tasks : g # h => tasks'[g] = tasks[g]
              /\ held' = held \cup {h}
              /\ open' = open
<1>1. PICK m \in {0, 3} : Claim(w, m)
  BY DEF ClaimLoop
<1>2. PICK h \in held' \ held :
          held' = held \cup {h} /\ (\A g \in held' : g \notin held => g = h)
  BY <1>1, NewHandle
<1> DEFINE c == CHOOSE g \in held' : g \notin held
           begun == [stage |-> "handler", lost |-> FALSE, cancelled |-> FALSE, beats |-> 0]
<1>3. c = h
  BY <1>2
<1>4. tasks' = With(tasks, c, begun)
  BY DEF ClaimLoop
<1>5. begun \in TaskRecord
  BY DEF TaskRecord
<1>6. open' = open
  BY <1>1 DEF Claim
<1> HIDE DEF c, begun
<1> QED  BY <1>2, <1>3, <1>4, <1>5, <1>6 DEF With

\* What a step makes of one task: a record still, and in its handler as long
\* as its transaction is open.
StillTask(g) == tasks'[g] \in TaskRecord /\ (g \in open' => tasks'[g].stage = "handler")

\* After a step, tasks are tasks of handles held, and a transaction is open
\* only in a handler.
LEMMA TaskStep ==
    ASSUME QueueInv, HeldGranted, TasksOK, NoAbandonedLock, [WNext]_allvars
    PROVE  TasksOK' /\ NoAbandonedLock'
<1>0. open \subseteq held /\ DOMAIN tasks \subseteq held /\ (\A g \in DOMAIN tasks : tasks[g] \in TaskRecord)
  BY DEF QueueInv, TypeOK, TasksOK
<1>1. \A g \in open : g \in DOMAIN tasks /\ tasks[g].stage = "handler"
  BY DEF NoAbandonedLock, At, Alive
<1>s. ASSUME DOMAIN tasks' \subseteq held', open' \subseteq DOMAIN tasks',
             \A g \in DOMAIN tasks' : StillTask(g)
      PROVE  TasksOK' /\ NoAbandonedLock'
  BY <1>s DEF TasksOK, NoAbandonedLock, At, Alive, StillTask
<1>k. ASSUME tasks' = tasks, held' = held, open' \subseteq open
      PROVE  TasksOK' /\ NoAbandonedLock'
  BY <1>0, <1>1, <1>k, <1>s DEF StillTask
<1>e. ASSUME NEW h \in DOMAIN tasks, End(h), held' = held, open' \subseteq open, h \notin open'
      PROVE  TasksOK' /\ NoAbandonedLock'
  BY <1>0, <1>1, <1>e, <1>s, EndRecord DEF StillTask
<1>g. ASSUME NEW h \in DOMAIN tasks, held' = held, open' \subseteq open, h \notin open',
             NEW stage \in {"handler", "complete", "fail", "fail_permanent", "release"}, GoTo(h, stage)
      PROVE  TasksOK' /\ NoAbandonedLock'
  BY <1>0, <1>1, <1>g, <1>s, GoToRecord DEF StillTask
<1>2. ASSUME NEW w \in Workers, ClaimLoop(w) PROVE TasksOK' /\ NoAbandonedLock'
  <2>1. PICK h \in held' \ held :
              /\ DOMAIN tasks' = DOMAIN tasks \cup {h}
              /\ tasks'[h] \in TaskRecord
              /\ \A g \in DOMAIN tasks : g # h => tasks'[g] = tasks[g]
              /\ held' = held \cup {h}
              /\ open' = open
    BY <1>2, ClaimTask
  <2> QED  BY <1>0, <1>1, <1>s, <2>1 DEF StillTask
<1>3. ASSUME NEW w \in Workers, ReapLoop(w) \/ Stop(w) \/ Stopped(w) PROVE TasksOK' /\ NoAbandonedLock'
  BY <1>3, <1>k DEF ReapLoop, Reap, Stop, Stopped, vars
<1>4. ASSUME NEW w \in Workers, CancelPending(w) PROVE TasksOK' /\ NoAbandonedLock'
  <2>1. held' = held /\ open' = open /\ DOMAIN tasks' = DOMAIN tasks
    BY <1>4 DEF CancelPending, vars
  <2>2. \A g \in DOMAIN tasks : \/ tasks'[g] = tasks[g]
                                \/ tasks'[g] = [tasks[g] EXCEPT !.cancelled = TRUE]
    BY <1>4 DEF CancelPending
  <2>3. \A g \in DOMAIN tasks : tasks'[g] \in TaskRecord /\ tasks'[g].stage = tasks[g].stage
    BY <1>0, <2>2 DEF TaskRecord
  <2> QED  BY <1>0, <1>1, <1>s, <2>1, <2>3 DEF StillTask
<1>5. ASSUME NEW w \in Workers, Gone(w) PROVE TasksOK' /\ NoAbandonedLock'
  <2>1. /\ held' = {h \in held : h.owner # w}
        /\ open' = {h \in open : h.owner # w}
        /\ tasks' = [h \in {g \in DOMAIN tasks : g.owner # w} |-> tasks[h]]
    BY <1>5 DEF Gone
  <2> QED  BY <1>0, <1>1, <1>s, <2>1 DEF StillTask
<1>6. ASSUME NEW h \in DOMAIN tasks, HandlerBegin(h) PROVE TasksOK' /\ NoAbandonedLock'
  <2>1. CASE AssertFence(h) /\ UNCHANGED <<running, tasks>>
    BY <1>0, <1>1, <1>6, <1>s, <2>1 DEF HandlerBegin, AssertFence, At, StillTask
  <2>2. CASE End(h) /\ UNCHANGED vars
    BY <1>6, <1>e, <2>2 DEF HandlerBegin, vars
  <2> QED  BY <1>6, <2>1, <2>2 DEF HandlerBegin
<1>7. ASSUME NEW h \in DOMAIN tasks, HandlerCommit(h) PROVE TasksOK' /\ NoAbandonedLock'
  BY <1>7, <1>k DEF HandlerCommit, Commit, wvars
<1>8. ASSUME NEW h \in DOMAIN tasks, DoHeartbeat(h) PROVE TasksOK' /\ NoAbandonedLock'
  <2>1. held' = held /\ open' = open
    BY <1>8 DEF DoHeartbeat, Heartbeat, vars
  <2>2. /\ DOMAIN tasks' = DOMAIN tasks
        /\ \A g \in DOMAIN tasks : g # h => tasks'[g] = tasks[g]
        /\ \/ tasks'[h] = [tasks[h] EXCEPT !.beats = tasks[h].beats + 1]
           \/ tasks'[h] = [tasks[h] EXCEPT !.lost = TRUE, !.cancelled = TRUE]
    BY <1>8 DEF DoHeartbeat
  <2>3. tasks[h] \in TaskRecord
    BY <1>0
  <2>4. CASE tasks'[h] = [tasks[h] EXCEPT !.beats = tasks[h].beats + 1]
    <3>1. tasks[h].beats + 1 \in Nat
      BY <2>3 DEF TaskRecord
    <3>2. tasks'[h] \in TaskRecord /\ tasks'[h].stage = tasks[h].stage
      BY <2>3, <2>4, <3>1 DEF TaskRecord
    <3> QED  BY <1>0, <1>1, <1>s, <2>1, <2>2, <3>2 DEF StillTask
  <2>5. CASE tasks'[h] = [tasks[h] EXCEPT !.lost = TRUE, !.cancelled = TRUE]
    <3>1. tasks'[h] \in TaskRecord /\ tasks'[h].stage = tasks[h].stage
      BY <2>3, <2>5 DEF TaskRecord
    <3> QED  BY <1>0, <1>1, <1>s, <2>1, <2>2, <3>1 DEF StillTask
  <2> QED  BY <2>2, <2>4, <2>5
<1>9. ASSUME NEW h \in DOMAIN tasks, HandlerReturn(h) PROVE TasksOK' /\ NoAbandonedLock'
  BY <1>9, <1>g DEF HandlerReturn, vars
<1>10. ASSUME NEW h \in DOMAIN tasks, HandlerRaise(h) PROVE TasksOK' /\ NoAbandonedLock'
  <2>1. PICK stage \in {"fail", "fail_permanent"} : GoTo(h, stage)
    BY <1>10 DEF HandlerRaise
  <2>2. held' = held /\ open' = open \ {h}
    BY <1>10 DEF HandlerRaise
  <2>3. stage \in {"handler", "complete", "fail", "fail_permanent", "release"}
    OBVIOUS
  <2> QED  BY <1>g, <2>1, <2>2, <2>3
<1>11. ASSUME NEW h \in DOMAIN tasks, DoComplete(h) PROVE TasksOK' /\ NoAbandonedLock'
  <2>1. h \notin open /\ held' = held /\ open' = open
    BY <1>1, <1>11 DEF DoComplete, Complete, vars, At
  <2>2. End(h) \/ GoTo(h, "fail")
    BY <1>11 DEF DoComplete
  <2> QED  BY <1>e, <1>g, <2>1, <2>2
<1>12. ASSUME NEW h \in DOMAIN tasks, DoFail(h) \/ DoRelease(h) PROVE TasksOK' /\ NoAbandonedLock'
  <2>1. h \notin open /\ held' = held /\ open' = open
    BY <1>1, <1>12 DEF DoFail, DoRelease, Fail, Release, vars, At
  <2>2. End(h)
    BY <1>12 DEF DoFail, DoRelease
  <2> QED  BY <1>e, <2>1, <2>2
<1>13. ASSUME NEW h \in DOMAIN tasks, Cancelled(h) PROVE TasksOK' /\ NoAbandonedLock'
  <2>1. held' = held /\ open' = open \ {h}
    BY <1>13 DEF Cancelled
  <2>2. CASE End(h)
    BY <1>e, <2>1, <2>2
  <2>3. CASE tasks' = [tasks EXCEPT ![h].stage = "release", ![h].cancelled = FALSE]
    <3>1. /\ DOMAIN tasks' = DOMAIN tasks
          /\ \A g \in DOMAIN tasks : g # h => tasks'[g] = tasks[g]
          /\ tasks'[h] = [tasks[h] EXCEPT !.stage = "release", !.cancelled = FALSE]
      BY <2>3
    <3>2. tasks'[h] \in TaskRecord
      BY <1>0, <3>1 DEF TaskRecord
    <3> QED  BY <1>0, <1>1, <1>s, <2>1, <3>1, <3>2 DEF StillTask
  <2> QED  BY <1>13, <2>2, <2>3 DEF Cancelled
<1>14. CASE Clock \/ Submit
  BY <1>14, <1>k DEF Clock, Submit, Tick, Enqueue, wvars
<1>15. CASE UNCHANGED allvars
  BY <1>15, <1>k DEF allvars, vars, wvars
<1> QED  BY <1>2, <1>3, <1>4, <1>5, <1>6, <1>7, <1>8, <1>9, <1>10, <1>11, <1>12, <1>13,
            <1>14, <1>15 DEF WNext, Task

\* Rows die only in a reap and in a failure, and both audit the death.
LEMMA DeathStep ==
    ASSUME QueueInv, TasksOK, DeadAudited, [WNext]_allvars
    PROVE  DeadAudited'
<1>0. DOMAIN tasks \subseteq held /\ open \subseteq held /\ jobs \in [Keys -> Row]
      /\ (\A h \in held : h.job \in Keys)
  BY DEF QueueInv, TypeOK, TasksOK, Handle
<1>1. \A k \in Keys : jobs[k].status = "dead" => jobs'[k].status = "dead"
  <2>1. [Next]_vars
    BY QueueUse
  <2> QED  BY <2>1, RowStep DEF vars
<1>a. ASSUME AuditDead PROVE DeadAudited'
  BY <1>1, <1>a DEF AuditDead, DeadAudited
<1>n. ASSUME audited' = audited, \A k \in Keys : jobs'[k].status = "dead" => jobs[k].status = "dead"
      PROVE  DeadAudited'
  BY <1>1, <1>n DEF DeadAudited
<1>u. ASSUME audited' = audited, jobs' = jobs PROVE DeadAudited'
  BY <1>n, <1>u
<1>2. ASSUME NEW w \in Workers, ClaimLoop(w) PROVE DeadAudited'
  <2>1. PICK m \in {0, 3} : Claim(w, m)
    BY <1>2 DEF ClaimLoop
  <2>2. PICK k \in Keys : jobs' = [jobs EXCEPT ![k] = Leased(@, w)]
    BY <2>1 DEF Claim, Claimable
  <2>3. Leased(jobs[k], w).status = "running"
    BY <1>0 DEF Leased, Row
  <2>4. \A j \in Keys : jobs'[j].status = "dead" => jobs[j].status = "dead"
    BY <1>0, <2>2, <2>3
  <2> QED  BY <1>2, <1>n, <2>4 DEF ClaimLoop
<1>3. ASSUME NEW w \in Workers, ReapLoop(w) PROVE DeadAudited'
  BY <1>3, <1>a DEF ReapLoop
<1>4. ASSUME NEW w \in Workers, Stop(w) \/ CancelPending(w) \/ Stopped(w) \/ Gone(w) PROVE DeadAudited'
  BY <1>4, <1>u DEF Stop, CancelPending, Stopped, Gone, vars
<1>5. ASSUME NEW h \in DOMAIN tasks, HandlerBegin(h) \/ HandlerCommit(h) \/ HandlerReturn(h)
                                    \/ HandlerRaise(h) \/ Cancelled(h)
      PROVE  DeadAudited'
  BY <1>5, <1>u DEF HandlerBegin, HandlerCommit, HandlerReturn, HandlerRaise, Cancelled,
                    AssertFence, Commit, vars, wvars
<1>6. ASSUME NEW h \in DOMAIN tasks, DoHeartbeat(h) PROVE DeadAudited'
  <2>1. h.job \in Keys /\ jobs[h.job] \in Row /\ audited' = audited
    BY <1>0, <1>6 DEF DoHeartbeat
  <2>2. CASE UNCHANGED vars
    BY <1>u, <2>1, <2>2 DEF vars
  <2>3. CASE Heartbeat(h)
    <3>1. jobs' = [jobs EXCEPT ![h.job].lease_until = now + LeaseTTL]
      BY <2>3 DEF Heartbeat
    <3>2. \A k \in Keys : jobs'[k].status = jobs[k].status
      BY <1>0, <2>1, <3>1 DEF Row
    <3> QED  BY <1>n, <2>1, <3>2
  <2> QED  BY <1>6, <2>2, <2>3 DEF DoHeartbeat
<1>7. ASSUME NEW h \in DOMAIN tasks, DoComplete(h) PROVE DeadAudited'
  <2>1. h.job \in Keys /\ jobs[h.job] \in Row /\ audited' = audited
    BY <1>0, <1>7 DEF DoComplete
  <2>2. CASE UNCHANGED vars
    BY <1>u, <2>1, <2>2 DEF vars
  <2>3. CASE Complete(h)
    <3>1. jobs' = [jobs EXCEPT ![h.job] = Unleased(@, "done")]
      BY <2>3 DEF Complete
    <3>2. Unleased(jobs[h.job], "done").status = "done"
      BY <2>1 DEF Unleased, Row
    <3>3. \A k \in Keys : jobs'[k].status = "dead" => jobs[k].status = "dead"
      BY <1>0, <2>1, <3>1, <3>2
    <3> QED  BY <1>n, <2>1, <3>3
  <2> QED  BY <1>7, <2>2, <2>3 DEF DoComplete
<1>8. ASSUME NEW h \in DOMAIN tasks, DoFail(h) PROVE DeadAudited'
  <2>1. AuditDead \/ (audited' = audited /\ jobs' = jobs)
    BY <1>8 DEF DoFail, vars
  <2> QED  BY <1>a, <1>u, <2>1
<1>9. ASSUME NEW h \in DOMAIN tasks, DoRelease(h) PROVE DeadAudited'
  <2>1. h.job \in Keys /\ jobs[h.job] \in Row /\ audited' = audited
    BY <1>0, <1>9 DEF DoRelease
  <2>2. CASE UNCHANGED vars
    BY <1>u, <2>1, <2>2 DEF vars
  <2>3. CASE Release(h)
    <3>1. jobs' = [jobs EXCEPT ![h.job] = Released(@)]
      BY <2>3 DEF Release
    <3>2. Released(jobs[h.job]).status = "queued"
      BY <2>1 DEF Released, Unleased, Row
    <3>3. \A k \in Keys : jobs'[k].status = "dead" => jobs[k].status = "dead"
      BY <1>0, <2>1, <3>1, <3>2
    <3> QED  BY <1>n, <2>1, <3>3
  <2> QED  BY <1>9, <2>2, <2>3 DEF DoRelease
<1>10. CASE Clock
  BY <1>10, <1>u DEF Clock, Tick, wvars
<1>11. CASE Submit
  <2>1. PICK k \in Keys, p \in Priorities, d \in Delays : Enqueue(k, p, d)
    BY <1>11 DEF Submit
  <2> DEFINE r == [NoRow EXCEPT !.status = "queued", !.id = next_id, !.priority = p,
                                !.enqueued_at = now, !.sort_key = now + p * AgingStep,
                                !.run_after = now + d]
  <2>2. jobs' = [jobs EXCEPT ![k] = r]
    BY <2>1 DEF Enqueue
  <2>3. r.status = "queued"
    BY DEF NoRow
  <2> HIDE DEF r
  <2>4. \A j \in Keys : jobs'[j].status = "dead" => jobs[j].status = "dead"
    BY <1>0, <2>2, <2>3
  <2> QED  BY <1>11, <1>n, <2>4 DEF Submit, wvars
<1>12. CASE UNCHANGED allvars
  BY <1>12, <1>u DEF allvars, vars, wvars
<1> QED  BY <1>2, <1>3, <1>4, <1>5, <1>6, <1>7, <1>8, <1>9, <1>10, <1>11, <1>12 DEF WNext, Task

-----------------------------------------------------------------------------
(* Worker: the theorems                                                    *)

LEMMA WorkerInit == WInit => WorkerInv
<1> SUFFICES ASSUME WInit PROVE WorkerInv
  OBVIOUS
<1>1. QueueInv
  BY InitInv DEF WInit
<1>2. held = {} /\ open = {} /\ DOMAIN tasks = {}
  BY DEF WInit, Init, NoTasks
<1>3. \A k \in Keys : jobs[k].status = "absent" /\ audited[k] = 0
  BY DEF WInit, Init, NoRow
<1> QED  BY <1>1, <1>2, <1>3 DEF WorkerInv, HeldGranted, TasksOK, NoAbandonedLock, DeadAudited

LEMMA WorkerNext == WorkerInv /\ [WNext]_allvars => WorkerInv'
<1> SUFFICES ASSUME WorkerInv, [WNext]_allvars PROVE WorkerInv'
  OBVIOUS
<1>1. [Next]_vars
  BY QueueUse DEF WorkerInv
<1>2. QueueInv'
  BY <1>1, NextInv DEF WorkerInv
<1>3. HeldGranted'
  BY <1>1, GrantedStep DEF WorkerInv
<1>4. TasksOK' /\ NoAbandonedLock'
  BY TaskStep DEF WorkerInv
<1>5. DeadAudited'
  BY DeathStep DEF WorkerInv
<1> QED  BY <1>2, <1>3, <1>4, <1>5 DEF WorkerInv

\* What the code keeps in step (the queue's rows, _running, the handles and
\* transactions of tasks, the audit) stays in step, whichever task acts, is
\* cancelled or dies.
THEOREM WorkerInvariance == WSpec => []WorkerInv
  BY WorkerInit, WorkerNext, PTL DEF WSpec

\* The worker process uses the queue as the queue's own specification
\* allows, whatever its tasks, timeouts, cancellations, shutdowns and
\* crashes do: so all that is proved of the queue (fencing, stale writes,
\* attempts, order of claims, FencedJobs) holds of the worker too.
THEOREM WorkerUsesQueue == WSpec => Spec
<1>1. WInit => Init
  BY DEF WInit
<1>2. WorkerInv /\ [WNext]_allvars => [Next]_vars
  BY QueueUse DEF WorkerInv
<1> QED  BY <1>1, <1>2, WorkerInvariance, PTL DEF WSpec, Spec

\* No fenced transaction, and so no row lock, outlives the handler that
\* opened it (_execute rolls back on every way out of a handler).
THEOREM LocksEnd == WSpec => []NoAbandonedLock
  BY WorkerInvariance, PTL DEF WorkerInv

\* A job that was given up has one job.dead entry and no other job has one:
\* fail and reap_expired write it with the status.
THEOREM DeathsAudited == WSpec => []DeadAudited
  BY WorkerInvariance, PTL DEF WorkerInv
=============================================================================
