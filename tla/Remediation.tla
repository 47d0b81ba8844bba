---------------------------- MODULE Remediation ----------------------------
(***************************************************************************)
(* The whole remediation flow of an incident: the worker's and the         *)
(* executor's handlers, the API that revises a plan and decides on it      *)
(* (app/api/remediation.py, app/remediation/flow.py), and time.            *)
(***************************************************************************)
EXTENDS Executor

rest == <<executions, landed, runs>>

\* A request reads the incident row; the row is not locked.
Open(q) ==
    /\ incident.state = "AWAITING_APPROVAL"
    /\ Cardinality(requests) < MaxRequests
    /\ requests' = requests \cup {q}
    /\ UNCHANGED <<db, landed, queue, runs>>

ReviseRead(who) ==
    /\ nplans < MaxPlans
    /\ Open([op |-> "revise", who |-> who, version |-> incident.version,
             decision |-> "none", hash |-> 0, plan |-> 0])

\* hash: the plan the person looked at, at any time before.
DecideRead(who, decision, hash) ==
    Open([op |-> "check", who |-> who, version |-> incident.version,
          decision |-> decision, hash |-> hash, plan |-> 0])

\* 409, 403 or 500: the transaction is rolled back.
Refuse(q) ==
    /\ requests' = requests \ {q}
    /\ UNCHANGED <<db, landed, queue, runs>>

ReviseWrite(q) ==
    /\ q.op = "revise"
    /\ \E n \in 0..MaxActions, verdict \in Verdicts :
         Submit("AWAITING_APPROVAL", q.version, q.who, n, verdict)
    /\ requests' = requests \ {q}
    /\ UNCHANGED <<landed, runs>>

\* The checks of decide, on the current plan as this transaction sees it.
MayDecide(q) ==
    /\ plans[nplans].verdict = "require_approval"
    /\ q.hash = nplans
    /\ ~plans[nplans].expired
    /\ q.decision = "approve" => q.who # plans[nplans].by

DecideCheck(q) ==
    /\ q.op = "check"
    /\ MayDecide(q)
    /\ requests' = (requests \ {q}) \cup {[q EXCEPT !.op = "decide", !.plan = nplans]}
    /\ UNCHANGED <<db, landed, queue, runs>>

\* The approval and the transition, or neither.
DecideWrite(q) ==
    /\ q.op = "decide"
    /\ approvals[q.plan] = Undecided
    /\ approvals' = [approvals EXCEPT ![q.plan] =
                        [decision |-> q.decision, by |-> q.who, hash |-> q.plan,
                         seen |-> q.hash]]
    /\ IF q.decision = "approve"
       THEN /\ Transition("AWAITING_APPROVAL", "EXECUTING", q.version)
            /\ queue' = Enqueued(Job("execute", q.plan))
       ELSE /\ Transition("AWAITING_APPROVAL", "ESCALATED", q.version)
            /\ UNCHANGED queue
    /\ requests' = requests \ {q}
    /\ UNCHANGED <<nplans, plans, rest>>

\* The approval window of a plan closes, and its timeout job becomes due.
Expire(p) ==
    /\ p <= nplans /\ plans[p].verdict = "require_approval" /\ ~plans[p].expired
    /\ plans' = [plans EXCEPT ![p].expired = TRUE]
    /\ UNCHANGED <<incident, nplans, approvals, landed, queue, runs, executions, requests>>

-----------------------------------------------------------------------------

Handler(r) ==
    \/ Triage(r) \/ InvestigateBegin(r) \/ InvestigateEnd(r) \/ PlanRead(r) \/ PlanSubmit(r)
    \/ ApprovalTimeout(r) \/ VerifyRead(r) \/ Verified(r)
    \/ ExecuteRead(r) \/ ActionRead(r) \/ MarkUnknown(r) \/ Prepare(r) \/ RecordFailed(r)
    \/ RecordStarted(r) \/ AuditStarted(r) \/ Patch(r) \/ FinishSucceeded(r) \/ FinishFailed(r)
    \/ FinishUnknown(r) \/ AuditSucceeded(r) \/ Executed(r) \/ Escalate(r) \/ Return(r)

Next ==
    \/ \E r \in runs : Handler(r) \/ RunFails(r) \/ Release(r) \/ RunVanishes(r)
    \/ \E j \in Jobs : Claim(j) \/ Reap(j)
    \/ \E who \in People : ReviseRead(who)
    \/ \E who \in People, decision \in {"approve", "reject"}, hash \in 1..nplans :
          DecideRead(who, decision, hash)
    \/ \E q \in requests : ReviseWrite(q) \/ DecideCheck(q) \/ DecideWrite(q) \/ Refuse(q)
    \/ \E p \in PlanIds : Expire(p)

Spec == Init /\ [][Next]_vars

\* Workers claim what is due and their runs go on; a lease nobody renews runs
\* out; time passes.  Nothing is assumed of people.
RunOf(j, e) == {r \in runs : r.job = j /\ r.epoch = e}
Abandoned(j) == RunOf(j, queue[j].epoch) = {}
Fairness ==
    /\ \A j \in Jobs : WF_vars(Claim(j)) /\ WF_vars(Abandoned(j) /\ Reap(j))
    /\ \A j \in Jobs, e \in 1..(MaxAttempts + MaxReleases) : WF_vars(\E r \in RunOf(j, e) : Handler(r))
    /\ \A p \in PlanIds : WF_vars(Expire(p))

FairSpec == Spec /\ Fairness

-----------------------------------------------------------------------------
(* Properties                                                              *)

\* Each action runs at most once: crashes, lost leases, reruns and broken
\* connections never make the executor send a patch the cluster already took.
AtMostOnce == \A s \in Steps : landed[s] <= 1

\* Someone other than its author approved exactly this plan, having seen it.
Approved(p) ==
    /\ approvals[p].decision = "approve"
    /\ approvals[p].hash = p /\ approvals[p].seen = p
    /\ approvals[p].by # plans[p].by

\* The policy's verdict lets p run.
Authorised(p, verdict) == verdict # "deny" /\ (verdict = "require_approval" => Approved(p))

\* A run that is about to change the cluster, however long ago it lost its
\* lease, does so for the current plan, authorised by the policy as it was at
\* submission and as it was when the executor asked again.
OnlyAuthorisedChanges ==
    \A r \in runs : r.pc = "patch" =>
        /\ r.plan = nplans
        /\ Authorised(r.plan, plans[r.plan].verdict)
        /\ Authorised(r.plan, r.review)

\* An incident that is being executed or was executed is so with an authorised
\* current plan: approving, revising, rejecting and timing out exclude one
\* another, whatever each of them read before.
ExecutesWhatWasApproved ==
    incident.state \in {"EXECUTING", "VERIFYING", "RESOLVED"} =>
        nplans > 0 /\ Authorised(nplans, plans[nplans].verdict)

\* The executions table tells the truth: no row, and a row of a change that was
\* never sent or that the API refused with 4xx, mean that the cluster did not
\* take it; and an incident is verified or resolved only after every action of
\* its plan succeeded, in whichever run.  A row that failed with 5xx means
\* nothing of the kind, although job.py and ExecError.applied (k8s.py:31) treat
\* it as a refusal: the change may be there.
HonestRecord ==
    /\ \A s \in Steps : executions[s] \in {"failed", "none"} => landed[s] = 0
    /\ incident.state \in {"VERIFYING", "RESOLVED"} =>
          \A a \in 1..plans[nplans].n : executions[<<nplans, a>>] = "succeeded"

\* The job that moves an incident on from a state.
Driver ==
    CASE incident.state = "RECEIVED" -> Job("triage", 0)
      [] incident.state \in {"TRIAGED", "INVESTIGATING"} -> Job("investigate", 0)
      [] incident.state = "DIAGNOSED" -> Job("plan", 0)
      [] incident.state = "AWAITING_APPROVAL" -> Job("approval_timeout", nplans)
      [] incident.state = "EXECUTING" -> Job("execute", nplans)
      [] incident.state = "VERIFYING" -> Job("verify", nplans)

\* An open incident is never left without the job that moves it on: the job is
\* waiting, running, or given up (dead, which is audited), but never done and
\* never forgotten.
NeverForgotten ==
    incident.state \notin Terminal => queue[Driver].status \in {"queued", "running", "dead"}

\* A closed incident and a settled execution stay as they are, although
\* _finish and _escalate overwrite whatever they find.
ClosedForGood ==
    [][ /\ incident.state \in Terminal => incident' = incident
        /\ \A s \in Steps : executions[s] \in {"succeeded", "failed", "server_error", "unknown"} =>
              executions'[s] = executions[s] ]_vars

\* If no job is given up, every incident ends, with or without people.
Closes == [](\A j \in Jobs : queue[j].status # "dead") => <>(incident.state \in Terminal)

\* What the worker says of every handler it runs: "a worker that lost its
\* lease cannot change anything".
ZombieChangesNothing == [][\A r \in runs : Patch(r) /\ landed' # landed => Owns(r)]_vars

=============================================================================
