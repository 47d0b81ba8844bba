----------------------------- MODULE FencedJobs -----------------------------
(***************************************************************************)
(* What the job queue promises its users, without leases, clocks, row      *)
(* locks or handles: a job is granted to one run at a time, every run has  *)
(* a number of its own, only the current run can write, and a job is       *)
(* started a bounded number of times.  JobQueue implements this.           *)
(***************************************************************************)
EXTENDS Naturals

CONSTANTS Keys, MaxAttempts

VARIABLES
    state,     \* where the job is in its life
    epoch,     \* number of the current, or the last, run
    tries,     \* runs that count against MaxAttempts
    written    \* the run that made the last accepted write

vars == <<state, epoch, tries, written>>

Init ==
    /\ state = [k \in Keys |-> "absent"]
    /\ epoch = [k \in Keys |-> 0]
    /\ tries = [k \in Keys |-> 0]
    /\ written = [k \in Keys |-> 0]

Submit(k) ==
    /\ state[k] = "absent"
    /\ state' = [state EXCEPT ![k] = "queued"]
    /\ UNCHANGED <<epoch, tries, written>>

Grant(k) ==
    /\ state[k] = "queued" /\ tries[k] < MaxAttempts
    /\ state' = [state EXCEPT ![k] = "running"]
    /\ epoch' = [epoch EXCEPT ![k] = @ + 1]
    /\ tries' = [tries EXCEPT ![k] = @ + 1]
    /\ UNCHANGED written

Write(k) ==
    /\ state[k] = "running"
    /\ written' = [written EXCEPT ![k] = epoch[k]]
    /\ UNCHANGED <<state, epoch, tries>>

Finish(k) ==
    /\ state[k] = "running"
    /\ state' = [state EXCEPT ![k] = "done"]
    /\ UNCHANGED <<epoch, tries, written>>

\* The run is over without a result: another one if there is a try left.
Lose(k) ==
    /\ state[k] = "running"
    /\ \/ state' = [state EXCEPT ![k] = "dead"]
       \/ tries[k] < MaxAttempts /\ state' = [state EXCEPT ![k] = "queued"]
    /\ UNCHANGED <<epoch, tries, written>>

HandBack(k) ==
    /\ state[k] = "running"
    /\ state' = [state EXCEPT ![k] = "queued"]
    /\ tries' = [tries EXCEPT ![k] = @ - 1]
    /\ UNCHANGED <<epoch, written>>

\* Several runs are given up at once.
Revoke(S) ==
    /\ \A k \in S : state[k] = "running"
    /\ state' = [k \in Keys |-> IF k \notin S THEN state[k]
                                ELSE IF tries[k] < MaxAttempts THEN "queued" ELSE "dead"]
    /\ UNCHANGED <<epoch, tries, written>>

Next ==
    \/ \E k \in Keys : Submit(k) \/ Grant(k) \/ Write(k) \/ Finish(k) \/ Lose(k) \/ HandBack(k)
    \/ \E S \in SUBSET Keys : Revoke(S)

Spec == Init /\ [][Next]_vars

=============================================================================
