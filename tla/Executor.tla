------------------------------ MODULE Executor ------------------------------
(***************************************************************************)
(* The execute job, app/executor/job.py, with the client it changes the    *)
(* cluster through (app/executor/k8s.py).  The cluster is external: it may *)
(* take a patch, or refuse it with an answer of 4xx (the resourceVersion   *)
(* test of the patch failed, for one), which then stored nothing.  After   *)
(* an answer of 5xx, a time-out of the API server for one, it may have     *)
(* taken it or not, as when the connection breaks; the code takes every    *)
(* answer from 400 up for a refusal.                                       *)
(***************************************************************************)
EXTENDS Incident

\* A fenced transaction that leaves the incident, the plans and the queue alone.
ExecTx(r, pc) == Tx(r, "execute", pc) /\ UNCHANGED <<nplans, plans, approvals>>

\* _refusal, with the policy's verdict on the plan now.
Refused_Slip(r, p, verdict) ==
    \/ r.job.plan # p
    \/ plans[p].verdict = "deny"
    \/ verdict = "deny"
Refused(r, p, verdict) ==
    \/ r.job.plan # p
    \/ plans[p].verdict = "deny"
    \/ verdict = "deny"
    \/ /\ "require_approval" \in {plans[p].verdict, verdict}
       /\ \/ approvals[p].decision # "approve"
          \/ approvals[p].hash # p
          \/ approvals[p].by = plans[p].by

\* The unfenced reads the run starts with.
ExecuteRead(r) ==
    /\ Unfenced(r, "execute", "start")
    /\ IF incident.state # "EXECUTING"
       THEN Goto(r, "return")
       ELSE \E verdict \in Verdicts :
              runs' = (runs \ {r}) \cup
                {[r EXCEPT !.pc = IF Refused(r, nplans, verdict) THEN "escalate" ELSE "action",
                           !.plan = nplans, !.review = verdict, !.act = 1]}
    /\ UNCHANGED landed

Step(r) == <<r.plan, r.act>>

\* Read the execution of the next action; after the last one, the plan is done.
ActionRead(r) ==
    /\ Unfenced(r, "execute", "action")
    /\ IF r.act > plans[r.plan].n THEN Goto(r, "verifying")
       ELSE CASE executions[Step(r)] = "succeeded" ->
                   runs' = (runs \ {r}) \cup {[r EXCEPT !.act = r.act + 1]}
              [] executions[Step(r)] = "started" -> Goto(r, "mark_unknown")
              [] executions[Step(r)] = "none" -> Goto(r, "prepare")
              [] OTHER -> Goto(r, "escalate")
    /\ UNCHANGED landed

\* An earlier attempt may have sent the patch: nobody knows.
MarkUnknown_Slip(r) ==
    /\ ExecTx(r, "mark_unknown")
    /\ executions' = [executions EXCEPT ![Step(r)] = "none"]
    /\ Goto(r, "prepare")
    /\ UNCHANGED <<incident, queue>>
MarkUnknown(r) ==
    /\ ExecTx(r, "mark_unknown")
    /\ executions' = [executions EXCEPT ![Step(r)] = "unknown"]
    /\ Goto(r, "escalate")
    /\ UNCHANGED <<incident, queue>>

\* prepare and the dry run: the cluster is read, nothing is changed.
Prepare(r) ==
    /\ Unfenced(r, "execute", "prepare")
    /\ \/ Goto(r, "record_failed")
       \/ \E noop \in BOOLEAN :
            runs' = (runs \ {r}) \cup {[r EXCEPT !.pc = "record", !.noop = noop]}
    /\ UNCHANGED landed

\* The unique key makes the insert fail if there is a row already.
Record(r, pc, status, next) ==
    /\ ExecTx(r, pc)
    /\ executions[Step(r)] = "none"
    /\ executions' = [executions EXCEPT ![Step(r)] = status]
    /\ Goto(r, next)
    /\ UNCHANGED <<incident, queue>>

RecordFailed(r) == Record(r, "record_failed", "failed", "escalate")
RecordStarted(r) == Record(r, "record", "started", "audit_started")

Audit(r, pc, next) ==
    /\ ExecTx(r, pc)
    /\ runs' = (runs \ {r}) \cup {next}
    /\ UNCHANGED <<incident, executions, queue>>

AuditStarted(r) == Audit(r, "audit_started", [r EXCEPT !.pc = "patch"])
AuditSucceeded(r) == Audit(r, "audit_succeeded", [r EXCEPT !.pc = "action", !.act = r.act + 1])

\* _apply: the one write that no fence guards.
Patch_Slip(r) ==
    /\ Unfenced(r, "execute", "patch")
    /\ \/ r.noop /\ Goto(r, "finish_succeeded") /\ UNCHANGED landed
       \/ ~r.noop /\ Goto(r, "finish_succeeded") /\ landed' = [landed EXCEPT ![Step(r)] = @ + 1]
       \/ ~r.noop /\ Goto(r, "finish_failed") /\ UNCHANGED landed
       \/ ~r.noop /\ Goto(r, "finish_error") /\ UNCHANGED landed
       \/ ~r.noop /\ Goto(r, "finish_error") /\ landed' = [landed EXCEPT ![Step(r)] = @ + 1]
       \/ ~r.noop /\ Goto(r, "finish_failed") /\ landed' = [landed EXCEPT ![Step(r)] = @ + 1]
Patch(r) ==
    /\ Unfenced(r, "execute", "patch")
    /\ \/ r.noop /\ Goto(r, "finish_succeeded") /\ UNCHANGED landed
       \/ ~r.noop /\ Goto(r, "finish_succeeded") /\ landed' = [landed EXCEPT ![Step(r)] = @ + 1]
       \/ ~r.noop /\ Goto(r, "finish_failed") /\ UNCHANGED landed
       \/ ~r.noop /\ Goto(r, "finish_error") /\ UNCHANGED landed
       \/ ~r.noop /\ Goto(r, "finish_error") /\ landed' = [landed EXCEPT ![Step(r)] = @ + 1]
       \/ ~r.noop /\ Goto(r, "finish_unknown") /\ UNCHANGED landed
       \/ ~r.noop /\ Goto(r, "finish_unknown") /\ landed' = [landed EXCEPT ![Step(r)] = @ + 1]

\* _finish overwrites whatever the row says.
Finish(r, pc, status, next) ==
    /\ ExecTx(r, pc)
    /\ executions' = [executions EXCEPT ![Step(r)] = status]
    /\ Goto(r, next)
    /\ UNCHANGED <<incident, queue>>

FinishSucceeded(r) == Finish(r, "finish_succeeded", "succeeded", "audit_succeeded")
\* The status is failed in both cases, with the answer as its error.
FinishFailed(r) ==
    \/ Finish(r, "finish_failed", "failed", "escalate")
    \/ Finish(r, "finish_error", "server_error", "escalate")
FinishUnknown(r) == Finish(r, "finish_unknown", "unknown", "escalate")

\* Every action succeeded, in this run or in an earlier one.
Executed_Slip(r) ==
    /\ ExecTx(r, "verifying")
    /\ IF incident.state = "EXECUTING"
       THEN Transition("EXECUTING", "VERIFYING", incident.version)
       ELSE UNCHANGED incident
    /\ Goto(r, "return")
    /\ UNCHANGED <<executions, queue>>
Executed(r) ==
    /\ ExecTx(r, "verifying")
    /\ IF incident.state = "EXECUTING"
       THEN /\ Transition("EXECUTING", "VERIFYING", incident.version)
            /\ queue' = Enqueued(Job("verify", r.plan))
       ELSE UNCHANGED <<incident, queue>>
    /\ Goto(r, "return")
    /\ UNCHANGED executions

\* _escalate, from whatever state the incident is in by now.
Escalate(r) ==
    /\ ExecTx(r, "escalate")
    /\ IF incident.state \in Terminal
       THEN UNCHANGED incident
       ELSE Transition(incident.state, "ESCALATED", incident.version)
    /\ Goto(r, "return")
    /\ UNCHANGED <<executions, queue>>

=============================================================================
