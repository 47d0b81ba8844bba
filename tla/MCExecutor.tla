----------------------------- MODULE MCExecutor -----------------------------
(***************************************************************************)
(* Remediation for TLC, with jobs of one kind interrupted in a behaviour:  *)
(* any of Interrupted, chosen at the start.  The execute job is            *)
(* interrupted in plans of up to MaxActions actions; other jobs only       *)
(* before plans of one, and only they are handed back.                     *)
(***************************************************************************)
EXTENDS Remediation

VARIABLE kind   \* of the jobs whose runs fail, stall, stop or die

RunsOf(j) == {r \in runs : r.job = j}

\* A run of j ends without having returned, or loses its lease.
Disturbed(j) ==
    \/ queue[j].status = "running" /\ queue'[j].status \in {"queued", "dead"}
    \/ Cardinality(RunsOf(j)') < Cardinality(RunsOf(j)) /\ queue'[j].status # "done"

HandedBack(j) == queue'[j].tries < queue[j].tries

MCInit == Init /\ kind \in Interrupted
MCNext ==
    /\ Next
    /\ UNCHANGED kind
    /\ \A j \in Jobs : Disturbed(j) => j.kind = kind
    /\ \A j \in Jobs : HandedBack(j) => j.kind # "execute"
    /\ kind # "execute" => \A p \in 1..nplans' : plans'[p].n <= 1

MCSpec == MCInit /\ [][MCNext]_<<vars, kind>> /\ Fairness

=============================================================================
