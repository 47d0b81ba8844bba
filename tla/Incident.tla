------------------------------ MODULE Incident ------------------------------
(***************************************************************************)
(* The life of one incident: the state machine of app/db/incidents.py, the *)
(* plans, approvals and executions hanging off it, its jobs, and the       *)
(* worker's handlers (app/worker/handlers.py, investigate.py,              *)
(* remediate.py).  Executor adds the execute job, Remediation the API and  *)
(* the specification.  auto_investigate and auto_remediate are on.         *)
(*                                                                         *)
(* The queue is used through what FencedJobs promises of it (JobQueue      *)
(* implements FencedJobs): a fenced transaction commits only for the       *)
(* current run of its job, so it is one atomic step here.  A run that lost *)
(* its lease does not know it yet and goes on until it next asks the       *)
(* database; the reads, the model calls and the cluster calls of a handler *)
(* are unfenced steps of their own.  The API's transactions are not fenced *)
(* and are interleaved statement by statement.                             *)
(*                                                                         *)
(* A plan is named by its seq, which is also its id and, being part of     *)
(* what is hashed, stands for its plan_hash.                               *)
(***************************************************************************)
EXTENDS Naturals, FiniteSets

CONSTANTS
    People,          \* responders and approvers
    Planner,         \* flow.PLANNER_ACTOR
    NoOne,           \* no approver
    MaxAttempts,     \* queue_max_attempts
    MaxActions,      \* actions per plan
    Interrupted,     \* bound: kinds of job whose runs fail, stall, stop or die
    MaxPlans,        \* bound: plans per incident
    MaxReleases,     \* bound: shutdowns that hand back the same job
    MaxRequests      \* bound: concurrent API requests

ASSUME RemediationConstants ==
    /\ Planner \notin People
    /\ NoOne \notin People \cup {Planner}
    /\ MaxAttempts \in Nat \ {0}
    /\ MaxActions \in Nat \ {0}
    /\ Interrupted \subseteq {"triage", "investigate", "plan", "approval_timeout", "execute", "verify"}
    /\ MaxPlans \in Nat \ {0}
    /\ MaxReleases \in Nat
    /\ MaxRequests \in Nat

VARIABLES
    incident,     \* the incidents row: state and version
    nplans,       \* plans submitted so far; the last one is the current plan
    plans,        \* remediation_plans
    approvals,    \* approvals, unique per plan
    executions,   \* executions, unique per plan and action
    landed,       \* how many times the cluster took the patch of an action
    queue,        \* the jobs of the incident
    runs,         \* handler runs in the memory of workers and executors
    requests      \* API requests in progress

vars == <<incident, nplans, plans, approvals, executions, landed, queue, runs, requests>>

Terminal == {"RESOLVED", "ESCALATED"}
States == Terminal \cup {"RECEIVED", "TRIAGED", "INVESTIGATING", "DIAGNOSED", "PLANNED",
                         "SAFETY_REVIEWED", "AWAITING_APPROVAL", "EXECUTING", "VERIFYING"}
Verdicts == {"deny", "require_approval", "allow"}
PlanIds == 1..MaxPlans
Actions == 1..MaxActions
Steps == PlanIds \X Actions

Plan == [by: People \cup {Planner}, n: 0..MaxActions, verdict: Verdicts, expired: BOOLEAN]
\* seen is history: the plan the approver had looked at.
Approval == [decision: {"none", "approve", "reject"}, by: People \cup {NoOne},
             hash: 0..MaxPlans, seen: 0..MaxPlans]
\* A row's status with what its error says: "server_error" is the status failed
\* with the error HTTP 5xx.
Execution == {"none", "started", "succeeded", "failed", "server_error", "unknown"}

Job(kind, p) == [kind |-> kind, plan |-> p]
Jobs == {Job(kind, 0) : kind \in {"triage", "investigate", "plan"}}
        \cup {Job(kind, p) : kind \in {"approval_timeout", "execute", "verify"}, p \in PlanIds}
JobState == [status: {"absent", "queued", "running", "done", "dead"}, epoch: Nat, tries: Nat]

Pcs == {"start", "think", "action", "mark_unknown", "prepare", "record_failed",
        "record", "audit_started", "patch", "finish_succeeded", "finish_failed",
        "finish_error", "finish_unknown", "audit_succeeded", "verifying", "escalate", "return"}
\* The local variables of a handler: the plan it executes, the verdict of its
\* own review, the action it is at, the version it read, the change it prepared.
Run == [job: Jobs, epoch: Nat, pc: Pcs, plan: 0..MaxPlans, review: Verdicts \cup {"none"},
        act: 0..(MaxActions + 1), version: Nat, noop: BOOLEAN]
\* An API request: the row version it read, the hash in its body, and the
\* current plan as it read it later.
Request == [op: {"revise", "check", "decide"}, who: People, version: Nat,
            decision: {"none", "approve", "reject"}, hash: 0..MaxPlans, plan: 0..MaxPlans]

TypeOK ==
    /\ incident \in [state: States, version: Nat]
    /\ nplans \in 0..MaxPlans
    /\ plans \in [PlanIds -> Plan]
    /\ approvals \in [PlanIds -> Approval]
    /\ executions \in [Steps -> Execution]
    /\ landed \in [Steps -> Nat]
    /\ queue \in [Jobs -> JobState]
    /\ runs \subseteq Run
    /\ requests \subseteq Request

NoPlan == [by |-> Planner, n |-> 0, verdict |-> "deny", expired |-> FALSE]
Undecided == [decision |-> "none", by |-> NoOne, hash |-> 0, seen |-> 0]
Absent == [status |-> "absent", epoch |-> 0, tries |-> 0]
Queued == [status |-> "queued", epoch |-> 0, tries |-> 0]

\* The incident and its triage job are inserted in one transaction.
Init ==
    /\ incident = [state |-> "RECEIVED", version |-> 1]
    /\ nplans = 0
    /\ plans = [p \in PlanIds |-> NoPlan]
    /\ approvals = [p \in PlanIds |-> Undecided]
    /\ executions = [s \in Steps |-> "none"]
    /\ landed = [s \in Steps |-> 0]
    /\ queue = [j \in Jobs |-> IF j = Job("triage", 0) THEN Queued ELSE Absent]
    /\ runs = {}
    /\ requests = {}

-----------------------------------------------------------------------------
(* Transactions                                                            *)

db == <<incident, nplans, plans, approvals, executions>>

\* TRANSITIONS and check_transition
Allowed(from, to) ==
    /\ from \notin Terminal
    /\ \/ to = "ESCALATED"
       \/ <<from, to>> \in {<<"RECEIVED", "TRIAGED">>, <<"TRIAGED", "INVESTIGATING">>,
                            <<"INVESTIGATING", "DIAGNOSED">>, <<"DIAGNOSED", "PLANNED">>,
                            <<"DIAGNOSED", "INVESTIGATING">>, <<"PLANNED", "SAFETY_REVIEWED">>,
                            <<"SAFETY_REVIEWED", "AWAITING_APPROVAL">>,
                            <<"SAFETY_REVIEWED", "EXECUTING">>, <<"AWAITING_APPROVAL", "EXECUTING">>,
                            <<"AWAITING_APPROVAL", "PLANNED">>, <<"EXECUTING", "VERIFYING">>,
                            <<"VERIFYING", "RESOLVED">>}

\* The WHERE clause of transition; otherwise StaleVersion undoes everything.
Current_Slip(from, version) == incident.state = from
Current(from, version) == incident.state = from /\ incident.version = version

Transition(from, to, version) ==
    /\ Allowed(from, to)
    /\ Current(from, version)
    /\ incident' = [state |-> to, version |-> version + 1]

\* ON CONFLICT (idempotency_key) DO NOTHING
Enqueued(j) == IF queue[j].status = "absent" THEN [queue EXCEPT ![j] = Queued] ELSE queue

\* The state submit leaves the incident in, and the job that goes with it.
AfterReview(verdict) ==
    CASE verdict = "deny" -> "ESCALATED"
      [] verdict = "require_approval" -> "AWAITING_APPROVAL"
      [] verdict = "allow" -> "EXECUTING"

\* submit: the plan, the verdict and three transitions, PLANNED and
\* SAFETY_REVIEWED among them, in one transaction.
Submit(from, version, who, n, verdict) ==
    LET p == nplans + 1
        to == AfterReview(verdict)
    IN  /\ nplans < MaxPlans
        /\ n = 0 => verdict = "deny"
        /\ Allowed(from, "PLANNED") /\ Allowed("PLANNED", "SAFETY_REVIEWED")
        /\ Allowed("SAFETY_REVIEWED", to)
        /\ Current(from, version)
        /\ nplans' = p
        /\ plans' = [plans EXCEPT ![p] = [by |-> who, n |-> n, verdict |-> verdict, expired |-> FALSE]]
        /\ incident' = [state |-> to, version |-> version + 3]
        /\ queue' = CASE verdict = "deny" -> queue
                      [] verdict = "require_approval" -> Enqueued(Job("approval_timeout", p))
                      [] verdict = "allow" -> Enqueued(Job("execute", p))
        /\ UNCHANGED <<approvals, executions>>

-----------------------------------------------------------------------------
(* The queue, as FencedJobs promises it                                    *)

\* assert_fence
Owns_Slip(r) == TRUE
Owns(r) == queue[r.job].status = "running" /\ queue[r.job].epoch = r.epoch

\* The approval timeout is enqueued with a delay.
Due(j) == j.kind = "approval_timeout" => plans[j.plan].expired

Claim(j) ==
    /\ queue[j].status = "queued" /\ Due(j)
    /\ queue[j].tries < MaxAttempts
    /\ queue' = [queue EXCEPT ![j] = [status |-> "running", epoch |-> queue[j].epoch + 1,
                                      tries |-> queue[j].tries + 1]]
    /\ runs' = runs \cup {[job |-> j, epoch |-> queue[j].epoch + 1, pc |-> "start",
                           plan |-> 0, review |-> "none", act |-> 0, version |-> 0, noop |-> FALSE]}
    /\ UNCHANGED <<db, landed, requests>>

\* The run is over without a result.
GivenUp(j) == [queue EXCEPT ![j].status = IF queue[j].tries < MaxAttempts THEN "queued" ELSE "dead"]

\* The lease ran out, because the worker died or because it stalls.
Reap(j) ==
    /\ queue[j].status = "running" /\ j.kind \in Interrupted
    /\ queue' = GivenUp(j)
    /\ UNCHANGED <<db, landed, runs, requests>>

\* An exception, the job timeout, a StaleVersion: the attempt failed.
RunFails(r) ==
    /\ Owns(r) /\ r.job.kind \in Interrupted
    /\ queue' = GivenUp(r.job)
    /\ runs' = runs \ {r}
    /\ UNCHANGED <<db, landed, requests>>

\* A shutdown cancels the run and hands the job back.
Release(r) ==
    /\ Owns(r) /\ r.job.kind \in Interrupted
    /\ queue[r.job].epoch < queue[r.job].tries + MaxReleases
    /\ queue' = [queue EXCEPT ![r.job] = [status |-> "queued", epoch |-> queue[r.job].epoch,
                                          tries |-> queue[r.job].tries - 1]]
    /\ runs' = runs \ {r}
    /\ UNCHANGED <<db, landed, requests>>

\* The process dies, or the run learns that its lease is gone.
RunVanishes(r) ==
    /\ r.job.kind \in Interrupted
    /\ runs' = runs \ {r}
    /\ UNCHANGED <<db, landed, queue, requests>>

Return(r) ==
    /\ r.pc = "return" /\ Owns(r)
    /\ queue' = [queue EXCEPT ![r.job].status = "done"]
    /\ runs' = runs \ {r}
    /\ UNCHANGED <<db, landed, requests>>

\* Run r goes on at pc.
Goto(r, pc) == runs' = (runs \ {r}) \cup {[r EXCEPT !.pc = pc]}

\* A fenced transaction of run r, at this point of its handler.
Tx(r, kind, pc) == r.job.kind = kind /\ r.pc = pc /\ Owns(r) /\ UNCHANGED <<landed, requests>>

\* A step outside any transaction: it reads, or calls the model or the cluster.
Unfenced(r, kind, pc) ==
    r.job.kind = kind /\ r.pc = pc /\ UNCHANGED <<db, queue, requests>>

-----------------------------------------------------------------------------
(* The worker's handlers                                                   *)

Triage(r) ==
    /\ Tx(r, "triage", "start")
    /\ IF incident.state = "RECEIVED"
       THEN /\ Transition("RECEIVED", "TRIAGED", incident.version)
            /\ queue' = Enqueued(Job("investigate", 0))
       ELSE UNCHANGED <<incident, queue>>
    /\ Goto(r, "return")
    /\ UNCHANGED <<nplans, plans, approvals, executions>>

InvestigateBegin_Slip(r) ==
    /\ Tx(r, "investigate", "start")
    /\ IF incident.state = "TRIAGED"
       THEN Transition("TRIAGED", "INVESTIGATING", incident.version)
       ELSE UNCHANGED incident
    /\ runs' = (runs \ {r}) \cup
         {[r EXCEPT !.pc = IF incident.state = "TRIAGED" THEN "think" ELSE "return",
                    !.version = incident'.version]}
    /\ UNCHANGED <<nplans, plans, approvals, executions, queue>>

\* A rerun resumes; either way the run remembers the version it works on.
InvestigateBegin(r) ==
    /\ Tx(r, "investigate", "start")
    /\ IF incident.state = "TRIAGED"
       THEN Transition("TRIAGED", "INVESTIGATING", incident.version)
       ELSE UNCHANGED incident
    /\ runs' = (runs \ {r}) \cup
         {[r EXCEPT !.pc = IF incident.state \in {"TRIAGED", "INVESTIGATING"} THEN "think" ELSE "return",
                    !.version = incident'.version]}
    /\ UNCHANGED <<nplans, plans, approvals, executions, queue>>

InvestigateEnd(r) ==
    /\ Tx(r, "investigate", "think")
    /\ \/ /\ Transition("INVESTIGATING", "DIAGNOSED", r.version)
          /\ queue' = Enqueued(Job("plan", 0))
       \/ /\ Transition("INVESTIGATING", "ESCALATED", r.version)
          /\ UNCHANGED queue
    /\ Goto(r, "return")
    /\ UNCHANGED <<nplans, plans, approvals, executions>>

PlanRead(r) ==
    /\ Unfenced(r, "plan", "start")
    /\ Goto(r, IF incident.state = "DIAGNOSED" THEN "think" ELSE "return")
    /\ UNCHANGED landed

PlanSubmit(r) ==
    /\ Tx(r, "plan", "think")
    /\ IF incident.state = "DIAGNOSED"
       THEN \/ /\ Transition("DIAGNOSED", "ESCALATED", incident.version)
               /\ UNCHANGED <<nplans, plans, approvals, executions, queue>>
            \/ \E n \in 0..MaxActions, verdict \in Verdicts :
                 Submit("DIAGNOSED", incident.version, Planner, n, verdict)
       ELSE UNCHANGED <<db, queue>>
    /\ Goto(r, "return")

ApprovalTimeout(r) ==
    /\ Tx(r, "approval_timeout", "start")
    /\ IF /\ incident.state = "AWAITING_APPROVAL"
          /\ nplans = r.job.plan
          /\ approvals[nplans] = Undecided
       THEN Transition("AWAITING_APPROVAL", "ESCALATED", incident.version)
       ELSE UNCHANGED incident
    /\ Goto(r, "return")
    /\ UNCHANGED <<nplans, plans, approvals, executions, queue>>

VerifyRead(r) ==
    /\ Unfenced(r, "verify", "start")
    /\ Goto(r, IF incident.state = "VERIFYING" THEN "think" ELSE "return")
    /\ UNCHANGED landed

\* What the samples say is arbitrary here; module Verify has the sampling.
Verified(r) ==
    /\ Tx(r, "verify", "think")
    /\ IF incident.state = "VERIFYING"
       THEN \E to \in Terminal : Transition("VERIFYING", to, incident.version)
       ELSE UNCHANGED incident
    /\ Goto(r, "return")
    /\ UNCHANGED <<nplans, plans, approvals, executions, queue>>

=============================================================================
