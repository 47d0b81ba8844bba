------------------------- MODULE RemediationProofs -------------------------
(***************************************************************************)
(* Proofs about Remediation, for any number of people, plans, actions,     *)
(* attempts and concurrent requests.                                       *)
(***************************************************************************)
EXTENDS Remediation, TLAPS

-----------------------------------------------------------------------------
(* Types                                                                   *)

\* Where an execute run is past its refusal check.
ActionPcs == {"action", "mark_unknown", "prepare", "record_failed", "record", "audit_started",
              "patch", "finish_succeeded", "finish_failed", "finish_error", "finish_unknown",
              "audit_succeeded", "verifying"}

\* Such a run belongs to the execute job of the plan it executes, and between
\* two actions it is at an action of that plan.
RunOK(r) ==
    r.pc \in ActionPcs =>
        /\ r.job.kind = "execute" /\ r.plan = r.job.plan
        /\ r.plan \in 1..nplans
        /\ r.act \in Nat \ {0}
        /\ r.pc \notin {"action", "verifying"} => r.act <= plans[r.plan].n
RunsOK == \A r \in runs : RunOK(r)

\* A running job has used an attempt, which a hand-back may return.
LeasesOK == \A j \in Jobs : queue[j].status = "running" => queue[j].tries > 0

\* A decision that passed its checks names the plan its approver saw and did
\* not write, and the policy wants it approved; that plan is still the current
\* one if the row has not changed.
RequestOK(q) ==
    /\ q.version <= incident.version
    /\ q.op = "check" => q.hash # 0
    /\ q.op = "decide" =>
          /\ q.plan \in 1..nplans /\ q.hash = q.plan
          /\ plans[q.plan].verdict = "require_approval"
          /\ q.decision = "approve" => q.who # plans[q.plan].by
          /\ q.version = incident.version => q.plan = nplans
RequestsOK == \A q \in requests : RequestOK(q)

\* The jobs the handlers and the API enqueue are jobs of the incident.
LEMMA JobFacts ==
    /\ Job("triage", 0) \in Jobs /\ Job("investigate", 0) \in Jobs /\ Job("plan", 0) \in Jobs
    /\ \A p \in PlanIds : /\ Job("approval_timeout", p) \in Jobs
                          /\ Job("execute", p) \in Jobs
                          /\ Job("verify", p) \in Jobs
BY DEF Jobs

\* Every job is of one of the six kinds, and the last three name a plan.
LEMMA JobShape ==
    ASSUME NEW j \in Jobs
    PROVE  /\ j = Job(j.kind, j.plan)
           /\ j.kind \in {"approval_timeout", "execute", "verify"} => j.plan \in PlanIds
BY DEF Jobs, Job

\* enqueue keeps the type of the queue.
LEMMA EnqueuedType ==
    ASSUME queue \in [Jobs -> JobState], NEW j \in Jobs
    PROVE  Enqueued(j) \in [Jobs -> JobState]
BY DEF Enqueued, Queued, JobState

\* Giving a run up keeps the type of the queue.
LEMMA GivenUpType ==
    ASSUME queue \in [Jobs -> JobState], NEW j \in Jobs
    PROVE  GivenUp(j) \in [Jobs -> JobState]
BY RemediationConstants DEF GivenUp, JobState

\* A run that goes on is still a run.
LEMMA GotoType ==
    ASSUME runs \subseteq Run, NEW r \in runs, NEW pc \in Pcs, Goto(r, pc)
    PROVE  runs' \subseteq Run
BY DEF Goto, Run

\* What submit leaves behind has the right types.
LEMMA SubmitType ==
    ASSUME TypeOK, NEW from \in States, NEW version \in Nat, NEW who \in People \cup {Planner},
           NEW n \in 0..MaxActions, NEW verdict \in Verdicts,
           Submit(from, version, who, n, verdict)
    PROVE  /\ incident' \in [state: States, version: Nat]
           /\ nplans' \in 0..MaxPlans
           /\ plans' \in [PlanIds -> Plan]
           /\ queue' \in [Jobs -> JobState]
<1> DEFINE p == nplans + 1
<1>1. p \in PlanIds /\ nplans' = p
  BY RemediationConstants DEF Submit, TypeOK, PlanIds
<1>2. AfterReview(verdict) \in States
  BY DEF AfterReview, Verdicts, States, Terminal
<1>3. incident' \in [state: States, version: Nat]
  BY <1>2 DEF Submit
<1>4. plans' \in [PlanIds -> Plan]
  <2>1. [by |-> who, n |-> n, verdict |-> verdict, expired |-> FALSE] \in Plan
    BY DEF Plan
  <2>2. plans \in [PlanIds -> Plan]
    BY DEF TypeOK
  <2> QED  BY <1>1, <2>1, <2>2 DEF Submit
<1>5. queue' \in [Jobs -> JobState]
  <2>1. Job("approval_timeout", p) \in Jobs /\ Job("execute", p) \in Jobs
    BY <1>1, JobFacts
  <2>2. queue \in [Jobs -> JobState]
    BY DEF TypeOK
  <2>3. /\ Enqueued(Job("approval_timeout", p)) \in [Jobs -> JobState]
        /\ Enqueued(Job("execute", p)) \in [Jobs -> JobState]
    BY <2>1, <2>2, EnqueuedType
  <2>4. queue' = CASE verdict = "deny" -> queue
                   [] verdict = "require_approval" -> Enqueued(Job("approval_timeout", p))
                   [] verdict = "allow" -> Enqueued(Job("execute", p))
    BY DEF Submit
  <2> HIDE DEF p
  <2> QED  BY <2>2, <2>3, <2>4 DEF Verdicts
<1> QED  BY <1>1, <1>3, <1>4, <1>5 DEF PlanIds

\* Every step keeps the types.
LEMMA TypeStep == TypeOK /\ RunsOK /\ LeasesOK /\ RequestsOK /\ [Next]_vars => TypeOK'
<1> SUFFICES ASSUME TypeOK, RunsOK, LeasesOK, RequestsOK, [Next]_vars PROVE TypeOK'
  OBVIOUS
<1> USE RemediationConstants
<1>0. /\ runs \subseteq Run /\ queue \in [Jobs -> JobState]
      /\ \A r \in runs : r.job \in Jobs
  BY DEF TypeOK, Run
<1>1. ASSUME NEW r \in runs, Triage(r) PROVE TypeOK'
  <2>1. runs' \subseteq Run
    BY <1>1, <1>0, GotoType DEF Triage, Pcs
  <2>2. Enqueued(Job("investigate", 0)) \in [Jobs -> JobState]
    BY <1>0, JobFacts, EnqueuedType
  <2> QED  BY <1>1, <2>1, <2>2 DEF Triage, TypeOK, Tx, Transition, States, Terminal
<1>2. ASSUME NEW r \in runs, InvestigateBegin(r) PROVE TypeOK'
  <2>1. incident' \in [state: States, version: Nat]
    BY <1>2 DEF InvestigateBegin, Transition, TypeOK, States, Terminal
  <2>2. runs' \subseteq Run
    BY <1>2, <1>0, <2>1 DEF InvestigateBegin, Run, Pcs
  <2> QED  BY <1>2, <2>1, <2>2 DEF InvestigateBegin, TypeOK, Tx
<1>3. ASSUME NEW r \in runs, InvestigateEnd(r) PROVE TypeOK'
  <2>1. runs' \subseteq Run
    BY <1>3, <1>0, GotoType DEF InvestigateEnd, Pcs
  <2>2. Enqueued(Job("plan", 0)) \in [Jobs -> JobState]
    BY <1>0, JobFacts, EnqueuedType
  <2> QED  BY <1>3, <2>1, <1>0, <2>2 DEF InvestigateEnd, TypeOK, Tx, Transition, States, Terminal, Run
<1>4. ASSUME NEW r \in runs, PlanRead(r) PROVE TypeOK'
  <2>1. runs' \subseteq Run
    BY <1>4, <1>0, GotoType DEF PlanRead, Pcs
  <2> QED  BY <1>4, <2>1 DEF PlanRead, TypeOK, Unfenced, db
<1>5. ASSUME NEW r \in runs, PlanSubmit(r) PROVE TypeOK'
  <2>1. runs' \subseteq Run
    BY <1>5, <1>0, GotoType DEF PlanSubmit, Pcs
  <2>2. CASE \E k \in 0..MaxActions, verdict \in Verdicts :
               Submit("DIAGNOSED", incident.version, Planner, k, verdict)
    <3>1. PICK k \in 0..MaxActions, verdict \in Verdicts :
               Submit("DIAGNOSED", incident.version, Planner, k, verdict)
      BY <2>2
    <3>2. "DIAGNOSED" \in States /\ incident.version \in Nat
      BY DEF TypeOK, States
    <3>3. /\ incident' \in [state: States, version: Nat] /\ nplans' \in 0..MaxPlans
          /\ plans' \in [PlanIds -> Plan] /\ queue' \in [Jobs -> JobState]
      BY <3>1, <3>2, SubmitType
    <3>4. UNCHANGED <<approvals, executions>>
      BY <3>1 DEF Submit
    <3> QED  BY <1>5, <2>1, <3>3, <3>4 DEF PlanSubmit, TypeOK, Tx
  <2>3. CASE ~\E k \in 0..MaxActions, verdict \in Verdicts :
               Submit("DIAGNOSED", incident.version, Planner, k, verdict)
    BY <1>5, <2>1, <2>3 DEF PlanSubmit, TypeOK, Tx, Transition, States, Terminal, db
  <2> QED  BY <2>2, <2>3
<1>6. ASSUME NEW r \in runs, ApprovalTimeout(r) PROVE TypeOK'
  <2>1. runs' \subseteq Run
    BY <1>6, <1>0, GotoType DEF ApprovalTimeout, Pcs
  <2> QED  BY <1>6, <2>1 DEF ApprovalTimeout, TypeOK, Tx, Transition, States, Terminal
<1>7. ASSUME NEW r \in runs, VerifyRead(r) PROVE TypeOK'
  <2>1. runs' \subseteq Run
    BY <1>7, <1>0, GotoType DEF VerifyRead, Pcs
  <2> QED  BY <1>7, <2>1 DEF VerifyRead, TypeOK, Unfenced, db
<1>8. ASSUME NEW r \in runs, Verified(r) PROVE TypeOK'
  <2>1. runs' \subseteq Run
    BY <1>8, <1>0, GotoType DEF Verified, Pcs
  <2> QED  BY <1>8, <2>1 DEF Verified, TypeOK, Tx, Transition, States, Terminal
<1>9. ASSUME NEW r \in runs, ExecuteRead(r) PROVE TypeOK'
  <2>0. nplans \in 0..MaxPlans /\ 1 \in 0..(MaxActions + 1)
    BY DEF TypeOK
  <2>1. runs' \subseteq Run
    <3>1. CASE incident.state # "EXECUTING"
      BY <1>9, <1>0, <3>1, GotoType DEF ExecuteRead, Pcs
    <3>2. CASE incident.state = "EXECUTING"
      <4>1. PICK verdict \in Verdicts : runs' = (runs \ {r}) \cup
              {[r EXCEPT !.pc = IF Refused(r, nplans, verdict) THEN "escalate" ELSE "action",
                         !.plan = nplans, !.review = verdict, !.act = 1]}
        BY <1>9, <3>2 DEF ExecuteRead
      <4>2. [r EXCEPT !.pc = IF Refused(r, nplans, verdict) THEN "escalate" ELSE "action",
                      !.plan = nplans, !.review = verdict, !.act = 1] \in Run
        BY <1>0, <2>0 DEF Run, Pcs
      <4> QED  BY <1>0, <4>1, <4>2
    <3> QED  BY <3>1, <3>2
  <2> QED  BY <1>9, <2>1 DEF ExecuteRead, TypeOK, Unfenced, db
<1>10. ASSUME NEW r \in runs, ActionRead(r) PROVE TypeOK'
  <2> DEFINE t == [r EXCEPT !.act = r.act + 1]
  <2>0. r.plan \in PlanIds /\ plans[r.plan].n \in 0..MaxActions /\ r.act \in Nat
    BY <1>10, <1>0 DEF ActionRead, Unfenced, RunsOK, RunOK, ActionPcs, TypeOK, Plan, PlanIds
  <2>1. \/ \E pc \in Pcs : Goto(r, pc)
        \/ r.act <= plans[r.plan].n /\ runs' = (runs \ {r}) \cup {t}
    <3>1. r.act > plans[r.plan].n \/ r.act <= plans[r.plan].n
      BY <2>0
    <3> QED  BY <1>10, <3>1 DEF ActionRead, Pcs
  <2>2. CASE \E pc \in Pcs : Goto(r, pc)
    BY <1>10, <1>0, <2>2, GotoType DEF ActionRead, TypeOK, Unfenced, db
  <2>3. CASE r.act <= plans[r.plan].n /\ runs' = (runs \ {r}) \cup {t}
    <3>1. r \in Run /\ r.act + 1 \in 0..(MaxActions + 1)
      BY <1>0, <2>0, <2>3
    <3>2. t \in Run
      BY <3>1 DEF Run
    <3> QED  BY <1>10, <1>0, <2>3, <3>2 DEF ActionRead, TypeOK, Unfenced, db
  <2> QED  BY <2>1, <2>2, <2>3
<1>11. ASSUME NEW r \in runs, MarkUnknown(r) PROVE TypeOK'
  <2>1. runs' \subseteq Run
    BY <1>11, <1>0, GotoType DEF MarkUnknown, Pcs
  <2> QED  BY <1>11, <2>1 DEF MarkUnknown, TypeOK, ExecTx, Tx, Execution
<1>12. ASSUME NEW r \in runs, Prepare(r) PROVE TypeOK'
  <2>1. runs' \subseteq Run
    <3>1. CASE Goto(r, "record_failed")
      BY <1>0, <3>1, GotoType DEF Pcs
    <3>2. ASSUME NEW noop \in BOOLEAN,
                 runs' = (runs \ {r}) \cup {[r EXCEPT !.pc = "record", !.noop = noop]}
          PROVE  runs' \subseteq Run
      <4>1. [r EXCEPT !.pc = "record", !.noop = noop] \in Run
        BY <1>0 DEF Run, Pcs
      <4> QED  BY <1>0, <3>2, <4>1
    <3> QED  BY <1>12, <3>1, <3>2 DEF Prepare
  <2> QED  BY <1>12, <2>1 DEF Prepare, TypeOK, Unfenced, db
<1>13. ASSUME NEW r \in runs, RecordFailed(r) PROVE TypeOK'
  <2>1. runs' \subseteq Run
    BY <1>13, <1>0, GotoType DEF RecordFailed, Pcs, Record
  <2> QED  BY <1>13, <2>1 DEF RecordFailed, TypeOK, Record, ExecTx, Tx, Execution
<1>14. ASSUME NEW r \in runs, RecordStarted(r) PROVE TypeOK'
  <2>1. runs' \subseteq Run
    BY <1>14, <1>0, GotoType DEF RecordStarted, Pcs, Record
  <2> QED  BY <1>14, <2>1 DEF RecordStarted, TypeOK, Record, ExecTx, Tx, Execution
<1>15. ASSUME NEW r \in runs, AuditStarted(r) PROVE TypeOK'
  <2>1. runs' \subseteq Run
    BY <1>15, <1>0 DEF AuditStarted, Audit, Pcs, Run
  <2> QED  BY <1>15, <2>1 DEF AuditStarted, Audit, TypeOK, ExecTx, Tx
<1>16. ASSUME NEW r \in runs, Patch(r) PROVE TypeOK'
  <2>1. runs' \subseteq Run
    BY <1>16, <1>0, GotoType DEF Patch, Pcs
  <2> QED  BY <1>16, <2>1 DEF Patch, TypeOK, Unfenced, db
<1>17. ASSUME NEW r \in runs, FinishSucceeded(r) PROVE TypeOK'
  <2>1. runs' \subseteq Run
    BY <1>17, <1>0, GotoType DEF FinishSucceeded, Pcs, Finish
  <2> QED  BY <1>17, <2>1 DEF FinishSucceeded, TypeOK, Finish, ExecTx, Tx, Execution
<1>18. ASSUME NEW r \in runs, FinishFailed(r) PROVE TypeOK'
  <2>1. runs' \subseteq Run
    BY <1>18, <1>0, GotoType DEF FinishFailed, Pcs, Finish
  <2> QED  BY <1>18, <2>1 DEF FinishFailed, TypeOK, Finish, ExecTx, Tx, Execution
<1>19. ASSUME NEW r \in runs, FinishUnknown(r) PROVE TypeOK'
  <2>1. runs' \subseteq Run
    BY <1>19, <1>0, GotoType DEF FinishUnknown, Pcs, Finish
  <2> QED  BY <1>19, <2>1 DEF FinishUnknown, TypeOK, Finish, ExecTx, Tx, Execution
<1>20. ASSUME NEW r \in runs, AuditSucceeded(r) PROVE TypeOK'
  <2> DEFINE t == [r EXCEPT !.pc = "action", !.act = r.act + 1]
  <2>0. r.plan \in PlanIds /\ plans[r.plan].n \in 0..MaxActions /\ r.act \in Nat
        /\ r.act <= plans[r.plan].n
    <3>1. r.pc = "audit_succeeded"
      BY <1>20 DEF AuditSucceeded, Audit, ExecTx, Tx
    <3>2. r.plan \in 1..nplans /\ r.act \in Nat /\ r.act <= plans[r.plan].n
      BY <3>1 DEF RunsOK, RunOK, ActionPcs
    <3>3. r.plan \in PlanIds
      BY <3>2 DEF TypeOK, PlanIds
    <3>4. plans[r.plan].n \in 0..MaxActions
      BY <3>3 DEF TypeOK, Plan
    <3> QED  BY <3>2, <3>3, <3>4
  <2>1. r \in Run /\ r.act + 1 \in 0..(MaxActions + 1)
    BY <1>0, <2>0
  <2>2. t \in Run
    BY <2>1 DEF Run, Pcs
  <2>3. runs' \subseteq Run
    BY <1>20, <1>0, <2>2 DEF AuditSucceeded, Audit
  <2> QED  BY <1>20, <2>3 DEF AuditSucceeded, Audit, TypeOK, ExecTx, Tx
<1>21. ASSUME NEW r \in runs, Executed(r) PROVE TypeOK'
  <2>1. runs' \subseteq Run
    BY <1>21, <1>0, GotoType DEF Executed, Pcs
  <2>2. r.plan \in PlanIds
    BY <1>21 DEF Executed, ExecTx, Tx, RunsOK, RunOK, ActionPcs, TypeOK, PlanIds
  <2>3. Enqueued(Job("verify", r.plan)) \in [Jobs -> JobState]
    BY <1>0, <2>2, JobFacts, EnqueuedType
  <2> QED  BY <1>21, <2>1, <2>3 DEF Executed, TypeOK, ExecTx, Tx, Transition, States, Terminal
<1>22. ASSUME NEW r \in runs, Escalate(r) PROVE TypeOK'
  <2>1. runs' \subseteq Run
    BY <1>22, <1>0, GotoType DEF Escalate, Pcs
  <2> QED  BY <1>22, <2>1 DEF Escalate, TypeOK, ExecTx, Tx, Transition, States, Terminal
<1>23. ASSUME NEW r \in runs, Return(r) PROVE TypeOK'
  <2>1. queue' \in [Jobs -> JobState]
    BY <1>23, <1>0 DEF Return, JobState
  <2> QED  BY <1>23, <2>1 DEF Return, TypeOK, db
<1>24. ASSUME NEW r \in runs, RunFails(r) PROVE TypeOK'
  <2>1. queue' \in [Jobs -> JobState]
    BY <1>24, <1>0, GivenUpType DEF RunFails
  <2> QED  BY <1>24, <2>1 DEF RunFails, TypeOK, db
<1>25. ASSUME NEW r \in runs, Release(r) PROVE TypeOK'
  <2>1. queue[r.job].tries - 1 \in Nat
    BY <1>25, <1>0 DEF Release, Owns, LeasesOK, JobState
  <2>2. queue' \in [Jobs -> JobState]
    BY <1>25, <1>0, <2>1 DEF Release, JobState
  <2> QED  BY <1>25, <2>2 DEF Release, TypeOK, db
<1>26. ASSUME NEW r \in runs, RunVanishes(r) PROVE TypeOK'
  BY <1>26, <1>0 DEF RunVanishes, TypeOK, db
<1>27. ASSUME NEW j \in Jobs, Claim(j) PROVE TypeOK'
  <2>1. queue' \in [Jobs -> JobState]
    BY <1>27, <1>0 DEF Claim, JobState
  <2>2. [job |-> j, epoch |-> queue[j].epoch + 1, pc |-> "start", plan |-> 0, review |-> "none",
         act |-> 0, version |-> 0, noop |-> FALSE] \in Run
    BY <1>0 DEF Run, JobState, Pcs
  <2>3. runs' \subseteq Run
    BY <1>27, <1>0, <2>2 DEF Claim
  <2> QED  BY <1>27, <2>1, <2>3 DEF Claim, TypeOK, db
<1>28. ASSUME NEW j \in Jobs, Reap(j) PROVE TypeOK'
  <2>1. queue' \in [Jobs -> JobState]
    BY <1>28, <1>0, GivenUpType DEF Reap
  <2> QED  BY <1>28, <2>1 DEF Reap, TypeOK, db
<1>29. ASSUME NEW who \in People, ReviseRead(who) PROVE TypeOK'
  BY <1>29, <1>0 DEF ReviseRead, TypeOK, Open, Request, db
<1>30. ASSUME NEW who \in People, NEW decision \in {"approve", "reject"}, NEW hash \in 1..nplans, DecideRead(who, decision, hash) PROVE TypeOK'
  BY <1>30, <1>0 DEF DecideRead, TypeOK, Open, Request, db
<1>31. ASSUME NEW q \in requests, ReviseWrite(q) PROVE TypeOK'
  <2>1. PICK k \in 0..MaxActions, verdict \in Verdicts :
           Submit("AWAITING_APPROVAL", q.version, q.who, k, verdict)
    BY <1>31 DEF ReviseWrite
  <2>2. "AWAITING_APPROVAL" \in States /\ q.version \in Nat /\ q.who \in People \cup {Planner}
    BY DEF TypeOK, States, Request
  <2>3. /\ incident' \in [state: States, version: Nat] /\ nplans' \in 0..MaxPlans
        /\ plans' \in [PlanIds -> Plan] /\ queue' \in [Jobs -> JobState]
    BY <2>1, <2>2, SubmitType
  <2>4. UNCHANGED <<approvals, executions>>
    BY <2>1 DEF Submit
  <2> QED  BY <1>31, <2>3, <2>4 DEF ReviseWrite, TypeOK
<1>32. ASSUME NEW q \in requests, DecideCheck(q) PROVE TypeOK'
  <2>0. q \in Request /\ nplans \in 0..MaxPlans
    BY DEF TypeOK
  <2>1. [q EXCEPT !.op = "decide", !.plan = nplans] \in Request
    BY <2>0 DEF Request
  <2> QED  BY <1>32, <2>1 DEF DecideCheck, TypeOK, db
<1>33. ASSUME NEW q \in requests, DecideWrite(q) PROVE TypeOK'
  <2>1. q.plan \in PlanIds /\ q \in Request
    BY <1>33 DEF DecideWrite, RequestsOK, RequestOK, TypeOK, PlanIds
  <2>2. Enqueued(Job("execute", q.plan)) \in [Jobs -> JobState]
    BY <1>0, <2>1, JobFacts, EnqueuedType
  <2>3. [decision |-> q.decision, by |-> q.who, hash |-> q.plan, seen |-> q.hash] \in Approval
    BY <2>1 DEF Request, Approval
  <2>4. approvals' \in [PlanIds -> Approval]
    BY <1>33, <2>3 DEF DecideWrite, TypeOK
  <2>5. incident' \in [state: States, version: Nat]
    BY <1>33, <2>1 DEF DecideWrite, Transition, States, Terminal, Request
  <2>6. queue' \in [Jobs -> JobState]
    BY <1>33, <1>0, <2>2 DEF DecideWrite
  <2>7. UNCHANGED <<plans, nplans, executions, landed, runs>> /\ requests' \subseteq requests
    BY <1>33 DEF DecideWrite, rest
  <2> QED  BY <2>4, <2>5, <2>6, <2>7 DEF TypeOK
<1>34. ASSUME NEW q \in requests, Refuse(q) PROVE TypeOK'
  BY <1>34 DEF Refuse, TypeOK, db
<1>35. ASSUME NEW p \in PlanIds, Expire(p) PROVE TypeOK'
  <2>0. [plans[p] EXCEPT !.expired = TRUE] \in Plan
    <3>1. plans[p] \in Plan
      BY DEF TypeOK
    <3> QED BY <3>1 DEF Plan
  <2>1. plans' \in [PlanIds -> Plan]
    BY <1>35, <2>0 DEF Expire, TypeOK
  <2> QED  BY <1>35, <2>1 DEF Expire, TypeOK
<1>36. CASE UNCHANGED vars
  BY <1>36 DEF vars, TypeOK
<1> QED  BY <1>1, <1>2, <1>3, <1>4, <1>5, <1>6, <1>7, <1>8, <1>9, <1>10, <1>11, <1>12, <1>13, <1>14, <1>15, <1>16, <1>17, <1>18, <1>19, <1>20, <1>21, <1>22, <1>23, <1>24, <1>25, <1>26, <1>27, <1>28, <1>29, <1>30, <1>31, <1>32, <1>33, <1>34, <1>35, <1>36 DEF Next, Handler

-----------------------------------------------------------------------------
(* What a step may change                                                  *)

\* At most one run goes on, and not at an action of a plan.
Idle == \E t : runs' \subseteq runs \cup {t} /\ t.pc \notin ActionPcs

\* The steps of a run outside the execution of an action.
Elsewhere(r) ==
    \/ Triage(r) \/ InvestigateBegin(r) \/ InvestigateEnd(r) \/ PlanRead(r) \/ PlanSubmit(r)
    \/ ApprovalTimeout(r) \/ VerifyRead(r) \/ Verified(r) \/ Executed(r) \/ Escalate(r)
    \/ Return(r) \/ RunFails(r) \/ Release(r) \/ RunVanishes(r)

\* The steps of the queue, of the API and of time.
Outside ==
    \/ \E j \in Jobs : Claim(j) \/ Reap(j)
    \/ \E who \in People : ReviseRead(who)
    \/ \E who \in People, decision \in {"approve", "reject"}, hash \in 1..nplans :
          DecideRead(who, decision, hash)
    \/ \E q \in requests : ReviseWrite(q) \/ DecideCheck(q) \/ DecideWrite(q) \/ Refuse(q)
    \/ \E p \in PlanIds : Expire(p)

\* A run that merely goes on at another place is idle there.
LEMMA GotoIdle ==
    ASSUME runs \subseteq Run, NEW r \in runs, NEW pc, pc \notin ActionPcs, Goto(r, pc)
    PROVE  Idle
<1>1. runs' \subseteq runs \cup {[r EXCEPT !.pc = pc]}
  BY DEF Goto
<1>2. [r EXCEPT !.pc = pc].pc = pc
  BY DEF Run
<1> QED  BY <1>1, <1>2 DEF Idle

\* Where no run goes on at all.
LEMMA FewerIdle == ASSUME runs' \subseteq runs PROVE Idle
<1>1. [pc |-> "return"].pc \notin ActionPcs
  BY DEF ActionPcs
<1> QED  BY <1>1 DEF Idle

\* Outside the execution of an action nothing is recorded or changed in the
\* cluster, and no run gets to an action.
LEMMA ElsewhereStep ==
    ASSUME TypeOK, NEW r \in runs, Elsewhere(r)
    PROVE  Idle /\ UNCHANGED <<executions, landed>>
<1>0. runs \subseteq Run /\ "return" \notin ActionPcs /\ "think" \notin ActionPcs
  BY DEF TypeOK, ActionPcs
<1>1. CASE Triage(r) \/ InvestigateEnd(r) \/ ApprovalTimeout(r) \/ Verified(r)
  BY <1>0, <1>1, GotoIdle DEF Triage, InvestigateEnd, ApprovalTimeout, Verified, Tx
<1>2. CASE Executed(r) \/ Escalate(r)
  BY <1>0, <1>2, GotoIdle DEF Executed, Escalate, ExecTx, Tx
<1>3. CASE PlanSubmit(r)
  <2>1. Goto(r, "return") /\ UNCHANGED landed
    BY <1>3 DEF PlanSubmit, Tx
  <2>2. UNCHANGED executions
    BY <1>3 DEF PlanSubmit, Submit, db
  <2> QED  BY <1>0, <2>1, <2>2, GotoIdle
<1>4. CASE PlanRead(r) \/ VerifyRead(r)
  BY <1>0, <1>4, GotoIdle DEF PlanRead, VerifyRead, Unfenced, db
<1>5. CASE InvestigateBegin(r)
  <2>1. PICK pc \in {"think", "return"} :
           runs' = (runs \ {r}) \cup {[r EXCEPT !.pc = pc, !.version = incident'.version]}
    BY <1>5 DEF InvestigateBegin
  <2>2. [r EXCEPT !.pc = pc, !.version = incident'.version].pc = pc
    BY <1>0 DEF Run
  <2>3. Idle
    BY <1>0, <2>1, <2>2 DEF Idle
  <2> QED  BY <1>5, <2>3 DEF InvestigateBegin, Tx
<1>6. CASE Return(r) \/ RunFails(r) \/ Release(r) \/ RunVanishes(r)
  BY <1>6, FewerIdle DEF Return, RunFails, Release, RunVanishes, db
<1> QED  BY <1>1, <1>2, <1>3, <1>4, <1>5, <1>6 DEF Elsewhere

\* The same of the queue, the API and time.
LEMMA OutsideStep ==
    ASSUME TypeOK, Outside
    PROVE  Idle /\ UNCHANGED <<executions, landed>>
<1>1. ASSUME NEW j \in Jobs, Claim(j)
      PROVE  Idle /\ UNCHANGED <<executions, landed>>
  <2> DEFINE t == [job |-> j, epoch |-> queue[j].epoch + 1, pc |-> "start", plan |-> 0,
                   review |-> "none", act |-> 0, version |-> 0, noop |-> FALSE]
  <2>1. runs' = runs \cup {t} /\ t.pc \notin ActionPcs
    BY <1>1 DEF Claim, ActionPcs
  <2>2. Idle
    BY <2>1 DEF Idle
  <2> QED  BY <1>1, <2>2 DEF Claim, db
<1>2. ASSUME NEW j \in Jobs, Reap(j)
      PROVE  Idle /\ UNCHANGED <<executions, landed>>
  BY <1>2, FewerIdle DEF Reap, db
<1>3. ASSUME NEW who \in People, ReviseRead(who)
      PROVE  Idle /\ UNCHANGED <<executions, landed>>
  BY <1>3, FewerIdle DEF ReviseRead, Open, db
<1>4. ASSUME NEW who \in People, NEW decision \in {"approve", "reject"}, NEW hash \in 1..nplans,
             DecideRead(who, decision, hash)
      PROVE  Idle /\ UNCHANGED <<executions, landed>>
  BY <1>4, FewerIdle DEF DecideRead, Open, db
<1>5. ASSUME NEW q \in requests, ReviseWrite(q) \/ DecideCheck(q) \/ DecideWrite(q) \/ Refuse(q)
      PROVE  Idle /\ UNCHANGED <<executions, landed>>
  BY <1>5, FewerIdle DEF ReviseWrite, Submit, DecideCheck, DecideWrite, Refuse, rest, db
<1>6. ASSUME NEW p \in PlanIds, Expire(p)
      PROVE  Idle /\ UNCHANGED <<executions, landed>>
  BY <1>6, FewerIdle DEF Expire
<1> QED  BY <1>1, <1>2, <1>3, <1>4, <1>5, <1>6 DEF Outside

\* The steps of a run that executes an action, and of nothing else.
ExecStep(r) ==
    \/ ExecuteRead(r) \/ ActionRead(r) \/ MarkUnknown(r) \/ Prepare(r) \/ RecordFailed(r)
    \/ RecordStarted(r) \/ AuditStarted(r) \/ Patch(r) \/ FinishSucceeded(r) \/ FinishFailed(r)
    \/ FinishUnknown(r) \/ AuditSucceeded(r)

\* Every step is one of these.
LEMMA NextSplit ==
    ASSUME [Next]_vars
    PROVE  \/ \E r \in runs : Elsewhere(r) \/ ExecStep(r)
           \/ Outside
           \/ UNCHANGED vars
BY DEF Next, Handler, Elsewhere, ExecStep, Outside

\* The execution of an action leaves the flow alone.
LEMMA ExecFrame ==
    ASSUME NEW r \in runs, ExecStep(r)
    PROVE  UNCHANGED <<incident, nplans, plans, approvals, queue, requests>>
<1>1. CASE ExecuteRead(r) \/ ActionRead(r) \/ Prepare(r) \/ Patch(r)
  BY <1>1 DEF ExecuteRead, ActionRead, Prepare, Patch, Unfenced, db
<1>2. CASE MarkUnknown(r) \/ RecordFailed(r) \/ RecordStarted(r) \/ AuditStarted(r) \/ AuditSucceeded(r)
  BY <1>2 DEF MarkUnknown, RecordFailed, RecordStarted, Record, AuditStarted, AuditSucceeded, Audit, ExecTx, Tx
<1>3. CASE FinishSucceeded(r) \/ FinishFailed(r) \/ FinishUnknown(r)
  BY <1>3 DEF FinishSucceeded, FinishFailed, FinishUnknown, Finish, ExecTx, Tx
<1> QED  BY <1>1, <1>2, <1>3 DEF ExecStep

\* What the flow may do to the plans: add one, or close an approval window.
PlansKept ==
    /\ nplans' \in Nat /\ nplans <= nplans'
    /\ \A p \in 1..nplans : /\ plans'[p].n = plans[p].n /\ plans'[p].by = plans[p].by
                            /\ plans'[p].verdict = plans[p].verdict

\* submit writes the row after the last one.
LEMMA SubmitKeeps ==
    ASSUME TypeOK, NEW from, NEW version, NEW who, NEW n, NEW verdict,
           Submit(from, version, who, n, verdict)
    PROVE  PlansKept
<1>1. nplans \in 0..MaxPlans /\ plans \in [PlanIds -> Plan]
  BY DEF TypeOK
<1>2. nplans' = nplans + 1
  BY DEF Submit
<1>3. \A p \in 1..nplans : plans'[p] = plans[p]
  BY <1>1, RemediationConstants DEF Submit, PlanIds
<1> QED  BY <1>1, <1>2, <1>3, RemediationConstants DEF PlansKept

\* A plan, once submitted, keeps its actions, its author and its verdict.
LEMMA PlansStep == ASSUME TypeOK, [Next]_vars PROVE PlansKept
<1>0. nplans \in Nat
  BY RemediationConstants DEF TypeOK
<1>1. ASSUME UNCHANGED <<nplans, plans>> PROVE PlansKept
  BY <1>0, <1>1 DEF PlansKept
<1>2. ASSUME NEW r \in runs, Elsewhere(r) PROVE PlansKept
  <2>1. CASE PlanSubmit(r)
    <3>1. CASE UNCHANGED <<nplans, plans>>
      BY <3>1, <1>1
    <3>2. CASE ~UNCHANGED <<nplans, plans>>
      <4>1. PICK k \in 0..MaxActions, verdict \in Verdicts :
               Submit("DIAGNOSED", incident.version, Planner, k, verdict)
        BY <2>1, <3>2 DEF PlanSubmit, db
      <4> QED  BY <4>1, SubmitKeeps
    <3> QED  BY <3>1, <3>2
  <2>2. CASE Triage(r) \/ InvestigateBegin(r) \/ InvestigateEnd(r) \/ PlanRead(r)
              \/ ApprovalTimeout(r) \/ VerifyRead(r) \/ Verified(r)
    <3>1. UNCHANGED <<nplans, plans>>
      BY <2>2 DEF Triage, InvestigateBegin, InvestigateEnd, PlanRead, ApprovalTimeout, VerifyRead,
                  Verified, Unfenced, db
    <3> QED  BY <1>1, <3>1
  <2>3. CASE Executed(r) \/ Escalate(r) \/ Return(r) \/ RunFails(r) \/ Release(r) \/ RunVanishes(r)
    <3>1. UNCHANGED <<nplans, plans>>
      BY <2>3 DEF Executed, Escalate, ExecTx, Return, RunFails, Release, RunVanishes, db
    <3> QED  BY <1>1, <3>1
  <2> QED  BY <1>2, <2>1, <2>2, <2>3 DEF Elsewhere
<1>3. ASSUME NEW r \in runs, ExecStep(r) PROVE PlansKept
  BY <1>1, <1>3, ExecFrame
<1>4. ASSUME Outside PROVE PlansKept
  <2>1. ASSUME NEW q \in requests, ReviseWrite(q) PROVE PlansKept
    <3>1. PICK k \in 0..MaxActions, verdict \in Verdicts :
             Submit("AWAITING_APPROVAL", q.version, q.who, k, verdict)
      BY <2>1 DEF ReviseWrite
    <3> QED  BY <3>1, SubmitKeeps
  <2>2. ASSUME NEW q \in requests, DecideCheck(q) \/ DecideWrite(q) \/ Refuse(q) PROVE PlansKept
    <3>1. UNCHANGED <<nplans, plans>>
      BY <2>2 DEF DecideCheck, DecideWrite, Refuse, db
    <3> QED  BY <1>1, <3>1
  <2>3. ASSUME NEW p \in PlanIds, Expire(p) PROVE PlansKept
    <3>1. plans \in [PlanIds -> Plan] /\ UNCHANGED nplans
      BY <2>3 DEF TypeOK, Expire
    <3>2. \A i \in PlanIds : /\ plans'[i].n = plans[i].n /\ plans'[i].by = plans[i].by
                             /\ plans'[i].verdict = plans[i].verdict
      BY <2>3, <3>1 DEF Expire, Plan
    <3>3. 1..nplans \subseteq PlanIds
      BY RemediationConstants DEF TypeOK, PlanIds
    <3> QED  BY <1>0, <3>1, <3>2, <3>3 DEF PlansKept
  <2>4. ASSUME NEW j \in Jobs, Claim(j) \/ Reap(j) PROVE PlansKept
    <3>1. UNCHANGED <<nplans, plans>>
      BY <2>4 DEF Claim, Reap, db
    <3> QED  BY <1>1, <3>1
  <2>5. ASSUME NEW who \in People, ReviseRead(who) PROVE PlansKept
    <3>1. UNCHANGED <<nplans, plans>>
      BY <2>5 DEF ReviseRead, Open, db
    <3> QED  BY <1>1, <3>1
  <2>6. ASSUME NEW who \in People, NEW decision \in {"approve", "reject"}, NEW hash \in 1..nplans,
               DecideRead(who, decision, hash)
        PROVE  PlansKept
    <3>1. UNCHANGED <<nplans, plans>>
      BY <2>6 DEF DecideRead, Open, db
    <3> QED  BY <1>1, <3>1
  <2> QED  BY <1>4, <2>1, <2>2, <2>3, <2>4, <2>5, <2>6 DEF Outside
<1>5. CASE UNCHANGED vars
  BY <1>1, <1>5 DEF vars
<1> QED  BY <1>2, <1>3, <1>4, <1>5, NextSplit

-----------------------------------------------------------------------------
(* Where the runs are                                                      *)

\* If the one run that goes on is in order, all are.
LEMMA RunsFrame ==
    ASSUME TypeOK, RunsOK, PlansKept, NEW t, RunOK(t)', runs' \subseteq runs \cup {t}
    PROVE  RunsOK'
<1>1. ASSUME NEW r \in runs PROVE RunOK(r)'
  <2>1. RunOK(r) /\ nplans \in Nat
    BY RemediationConstants DEF RunsOK, TypeOK
  <2> QED  BY <2>1 DEF RunOK, PlansKept
<1> QED  BY <1>1 DEF RunsOK

\* A run at an action that goes on at the same action.
LEMMA SameAction ==
    ASSUME TypeOK, RunsOK, UNCHANGED <<nplans, plans>>, NEW r \in runs,
           r.pc \in ActionPcs \ {"action", "verifying"},
           NEW pc \in ActionPcs \cup {"escalate"}, NEW noop,
           NEW t, t.pc = pc, t.job = r.job, t.plan = r.plan, t.act = r.act,
           runs' = (runs \ {r}) \cup {t}
    PROVE  RunsOK'
<1>1. RunOK(r)
  BY DEF RunsOK
<1>2. RunOK(t)'
  BY <1>1 DEF RunOK
<1>3. PlansKept
  BY RemediationConstants DEF PlansKept, TypeOK
<1> QED  BY <1>2, <1>3, RunsFrame

\* The same, where only the place changes.
LEMMA SameActionGoto ==
    ASSUME TypeOK, RunsOK, UNCHANGED <<nplans, plans>>, NEW r \in runs,
           r.pc \in ActionPcs \ {"action", "verifying"},
           NEW pc \in ActionPcs \cup {"escalate"}, Goto(r, pc)
    PROVE  RunsOK'
<1> DEFINE t == [r EXCEPT !.pc = pc]
<1>1. r \in Run
  BY DEF TypeOK
<1>2. t.pc = pc /\ t.job = r.job /\ t.plan = r.plan /\ t.act = r.act
  BY <1>1 DEF Run
<1>3. runs' = (runs \ {r}) \cup {t}
  BY DEF Goto
<1> HIDE DEF t
<1> QED  BY <1>2, <1>3, SameAction

\* Every step keeps the runs in order.
LEMMA RunsStep == ASSUME TypeOK, RunsOK, [Next]_vars PROVE RunsOK'
<1>0. PlansKept /\ runs \subseteq Run
  BY PlansStep DEF TypeOK
<1>1. ASSUME Idle PROVE RunsOK'
  <2>1. PICK t : runs' \subseteq runs \cup {t} /\ t.pc \notin ActionPcs
    BY <1>1 DEF Idle
  <2>2. RunOK(t)'
    BY <2>1 DEF RunOK
  <2> QED  BY <1>0, <2>1, <2>2, RunsFrame
<1>2. ASSUME NEW r \in runs, ExecStep(r) PROVE RunsOK'
  <2>0. r \in Run /\ RunOK(r) /\ UNCHANGED <<nplans, plans>> /\ nplans \in 0..MaxPlans
    BY <1>2, <1>0, ExecFrame DEF RunsOK, TypeOK
  <2>1. CASE ExecuteRead(r)
    <3>1. CASE incident.state # "EXECUTING"
      <4>1. Idle
        BY <1>0, <2>1, <3>1, GotoIdle DEF ExecuteRead, ActionPcs
      <4> QED  BY <1>1, <4>1
    <3>2. CASE incident.state = "EXECUTING"
      <4>1. PICK verdict \in Verdicts : runs' = (runs \ {r}) \cup
              {[r EXCEPT !.pc = IF Refused(r, nplans, verdict) THEN "escalate" ELSE "action",
                         !.plan = nplans, !.review = verdict, !.act = 1]}
        BY <2>1, <3>2 DEF ExecuteRead
      <4>2. PICK t : t = [r EXCEPT !.pc = IF Refused(r, nplans, verdict) THEN "escalate" ELSE "action",
                                   !.plan = nplans, !.review = verdict, !.act = 1]
        OBVIOUS
      <4>3. /\ t.pc = IF Refused(r, nplans, verdict) THEN "escalate" ELSE "action"
            /\ t.plan = nplans /\ t.act = 1 /\ t.job = r.job
        BY <2>0, <4>2 DEF Run
      <4>6. runs' \subseteq runs \cup {t}
        BY <4>1, <4>2
      <4>4. CASE Refused(r, nplans, verdict)
        <5>1. RunOK(t)'
          BY <4>3, <4>4 DEF RunOK, ActionPcs
        <5> QED  BY <1>0, <4>6, <5>1, RunsFrame
      <4>5. CASE ~Refused(r, nplans, verdict)
        <5>1. r.job.plan = nplans
          BY <4>5 DEF Refused
        <5>2. r.job.kind = "execute" /\ r.job \in Jobs
          BY <2>0, <2>1 DEF ExecuteRead, Unfenced, Run
        <5>3. nplans \in 1..nplans
          BY <5>1, <5>2, JobShape DEF PlanIds
        <5>4. RunOK(t)'
          BY <2>0, <4>3, <4>5, <5>1, <5>2, <5>3 DEF RunOK, ActionPcs
        <5> QED  BY <1>0, <4>6, <5>4, RunsFrame
      <4> QED  BY <4>4, <4>5
    <3> QED  BY <3>1, <3>2
  <2>2. CASE ActionRead(r)
    <3>0. r.pc = "action" /\ r.act \in Nat \ {0} /\ r.plan \in 1..nplans
          /\ r.job.kind = "execute" /\ r.plan = r.job.plan
      BY <2>0, <2>2 DEF ActionRead, Unfenced, RunOK, ActionPcs
    <3>1. plans[r.plan].n \in Nat
      BY <2>0, <3>0, RemediationConstants DEF TypeOK, PlanIds, Plan
    <3>2. CASE r.act > plans[r.plan].n
      <4> DEFINE t == [r EXCEPT !.pc = "verifying"]
      <4>1. t.pc = "verifying" /\ t.job = r.job /\ t.plan = r.plan /\ t.act = r.act
        BY <2>0 DEF Run
      <4>2. runs' \subseteq runs \cup {t}
        BY <2>2, <3>2 DEF ActionRead, Goto
      <4> HIDE DEF t
      <4>3. RunOK(t)'
        BY <2>0, <3>0, <4>1 DEF RunOK
      <4> QED  BY <1>0, <4>2, <4>3, RunsFrame
    <3>3. CASE r.act <= plans[r.plan].n /\ executions[Step(r)] = "succeeded"
      <4> DEFINE t == [r EXCEPT !.act = r.act + 1]
      <4>1. t.pc = "action" /\ t.job = r.job /\ t.plan = r.plan /\ t.act = r.act + 1
        BY <2>0, <3>0 DEF Run
      <4>2. ~(r.act > plans[r.plan].n)
        BY <3>0, <3>1, <3>3
      <4>3. runs' \subseteq runs \cup {t}
        BY <2>2, <3>3, <4>2 DEF ActionRead
      <4> HIDE DEF t
      <4>4. RunOK(t)'
        BY <2>0, <3>0, <4>1 DEF RunOK
      <4> QED  BY <1>0, <4>3, <4>4, RunsFrame
    <3>4. CASE r.act <= plans[r.plan].n /\ executions[Step(r)] # "succeeded"
      <4>1. ~(r.act > plans[r.plan].n)
        BY <3>0, <3>1, <3>4
      <4>2. PICK pc \in {"mark_unknown", "prepare", "escalate"} : Goto(r, pc)
        BY <2>2, <3>4, <4>1 DEF ActionRead
      <4> DEFINE t == [r EXCEPT !.pc = pc]
      <4>3. t.pc = pc /\ t.job = r.job /\ t.plan = r.plan /\ t.act = r.act
        BY <2>0 DEF Run
      <4>4. runs' \subseteq runs \cup {t}
        BY <4>2 DEF Goto
      <4> HIDE DEF t
      <4>5. RunOK(t)'
        BY <2>0, <3>0, <3>4, <4>3 DEF RunOK
      <4> QED  BY <1>0, <4>4, <4>5, RunsFrame
    <3> QED  BY <3>0, <3>1, <3>2, <3>3, <3>4
  <2>3. CASE MarkUnknown(r) \/ RecordFailed(r) \/ RecordStarted(r) \/ Patch(r)
             \/ FinishSucceeded(r) \/ FinishFailed(r) \/ FinishUnknown(r)
    <3>1. /\ r.pc \in {"mark_unknown", "record_failed", "record", "patch",
                       "finish_succeeded", "finish_failed", "finish_error", "finish_unknown"}
          /\ \E pc \in {"escalate", "audit_started", "finish_succeeded", "finish_failed",
                        "finish_error", "finish_unknown", "audit_succeeded"} : Goto(r, pc)
      BY <2>3 DEF MarkUnknown, RecordFailed, RecordStarted, Record, Patch, FinishSucceeded,
                  FinishFailed, FinishUnknown, Finish, ExecTx, Tx, Unfenced
    <3>2. PICK pc \in {"escalate", "audit_started", "finish_succeeded", "finish_failed",
                       "finish_error", "finish_unknown", "audit_succeeded"} : Goto(r, pc)
      BY <3>1
    <3>3. pc \in ActionPcs \cup {"escalate"} /\ r.pc \in ActionPcs \ {"action", "verifying"}
      BY <3>1 DEF ActionPcs
    <3> QED  BY <2>0, <3>2, <3>3, SameActionGoto
  <2>4. CASE Prepare(r)
    <3>0. r.pc = "prepare"
      BY <2>4 DEF Prepare, Unfenced
    <3>1. CASE Goto(r, "record_failed")
      BY <2>0, <3>0, <3>1, SameActionGoto DEF ActionPcs
    <3>2. ASSUME NEW noop \in BOOLEAN,
                 runs' = (runs \ {r}) \cup {[r EXCEPT !.pc = "record", !.noop = noop]}
          PROVE  RunsOK'
      <4> DEFINE t == [r EXCEPT !.pc = "record", !.noop = noop]
      <4>1. t.pc = "record" /\ t.job = r.job /\ t.plan = r.plan /\ t.act = r.act
        BY <2>0 DEF Run
      <4>2. runs' = (runs \ {r}) \cup {t}
        BY <3>2
      <4> HIDE DEF t
      <4> QED  BY <2>0, <3>0, <4>1, <4>2, SameAction DEF ActionPcs
    <3> QED  BY <2>4, <3>1, <3>2 DEF Prepare
  <2>5. CASE AuditStarted(r)
    <3>1. r.pc = "audit_started" /\ Goto(r, "patch")
      BY <2>5 DEF AuditStarted, Audit, ExecTx, Tx, Goto
    <3> QED  BY <2>0, <3>1, SameActionGoto DEF ActionPcs
  <2>6. CASE AuditSucceeded(r)
    <3> DEFINE t == [r EXCEPT !.pc = "action", !.act = r.act + 1]
    <3>1. r.pc = "audit_succeeded" /\ runs' \subseteq runs \cup {t}
      BY <2>6 DEF AuditSucceeded, Audit, ExecTx, Tx
    <3>2. t.pc = "action" /\ t.job = r.job /\ t.plan = r.plan /\ t.act = r.act + 1
      BY <2>0 DEF Run
    <3> HIDE DEF t
    <3>3. RunOK(t)'
      BY <2>0, <3>1, <3>2 DEF RunOK, ActionPcs
    <3> QED  BY <1>0, <3>1, <3>3, RunsFrame
  <2> QED  BY <1>2, <2>1, <2>2, <2>3, <2>4, <2>5, <2>6 DEF ExecStep
<1>3. CASE UNCHANGED vars
  <2>1. Idle
    BY <1>3, FewerIdle DEF vars
  <2> QED  BY <1>1, <2>1
<1> QED  BY <1>1, <1>2, <1>3, NextSplit, ElsewhereStep, OutsideStep

-----------------------------------------------------------------------------
(* Leases                                                                  *)

\* enqueue grants no lease.
LEMMA EnqueuedLease ==
    ASSUME TypeOK, LeasesOK, NEW j \in Jobs, queue' = Enqueued(j)
    PROVE  LeasesOK'
BY DEF Enqueued, Queued, LeasesOK, TypeOK

\* Neither does giving a run up.
LEMMA GivenUpLease ==
    ASSUME TypeOK, LeasesOK, NEW j \in Jobs, queue' = GivenUp(j)
    PROVE  LeasesOK'
BY DEF GivenUp, LeasesOK, TypeOK, JobState

\* Nor does submit.
LEMMA SubmitLease ==
    ASSUME TypeOK, LeasesOK, NEW from, NEW version, NEW who, NEW n, NEW verdict \in Verdicts,
           Submit(from, version, who, n, verdict)
    PROVE  LeasesOK'
<1> DEFINE p == nplans + 1
<1>1. p \in PlanIds
  BY RemediationConstants DEF Submit, TypeOK, PlanIds
<1>2. Job("approval_timeout", p) \in Jobs /\ Job("execute", p) \in Jobs
  BY <1>1, JobFacts
<1>3. queue' = CASE verdict = "deny" -> queue
                 [] verdict = "require_approval" -> Enqueued(Job("approval_timeout", p))
                 [] verdict = "allow" -> Enqueued(Job("execute", p))
  BY DEF Submit
<1> HIDE DEF p
<1>4. \/ queue' = queue
      \/ queue' = Enqueued(Job("approval_timeout", p))
      \/ queue' = Enqueued(Job("execute", p))
  BY <1>3 DEF Verdicts
<1> QED  BY <1>2, <1>4, EnqueuedLease DEF LeasesOK

\* A job is running only if a claim counted an attempt.
LEMMA LeasesStep == ASSUME TypeOK, RunsOK, LeasesOK, [Next]_vars PROVE LeasesOK'
<1>0. queue \in [Jobs -> JobState] /\ \A r \in runs : r.job \in Jobs
  BY DEF TypeOK, Run
<1>1. ASSUME UNCHANGED queue PROVE LeasesOK'
  BY <1>1 DEF LeasesOK
<1>2. ASSUME NEW r \in runs, Elsewhere(r) PROVE LeasesOK'
  <2>1. CASE PlanSubmit(r)
    <3>1. CASE UNCHANGED queue
      BY <3>1, <1>1
    <3>2. CASE ~UNCHANGED queue
      <4>1. PICK k \in 0..MaxActions, verdict \in Verdicts :
               Submit("DIAGNOSED", incident.version, Planner, k, verdict)
        BY <2>1, <3>2 DEF PlanSubmit
      <4> QED  BY <4>1, SubmitLease
    <3> QED  BY <3>1, <3>2
  <2>2. CASE Triage(r)
    <3>1. queue' = queue \/ queue' = Enqueued(Job("investigate", 0))
      BY <2>2 DEF Triage
    <3> QED  BY <1>1, <3>1, JobFacts, EnqueuedLease
  <2>3. CASE InvestigateEnd(r)
    <3>1. queue' = queue \/ queue' = Enqueued(Job("plan", 0))
      BY <2>3 DEF InvestigateEnd
    <3> QED  BY <1>1, <3>1, JobFacts, EnqueuedLease
  <2>4. CASE Executed(r)
    <3>1. r.plan \in PlanIds
      BY <2>4, RemediationConstants DEF Executed, ExecTx, Tx, RunsOK, RunOK, ActionPcs, TypeOK, PlanIds
    <3>2. queue' = queue \/ queue' = Enqueued(Job("verify", r.plan))
      BY <2>4 DEF Executed
    <3> QED  BY <1>1, <3>1, <3>2, JobFacts, EnqueuedLease
  <2>5. CASE InvestigateBegin(r) \/ PlanRead(r) \/ ApprovalTimeout(r) \/ VerifyRead(r)
              \/ Verified(r) \/ Escalate(r) \/ RunVanishes(r)
    <3>1. UNCHANGED queue
      BY <2>5 DEF InvestigateBegin, PlanRead, ApprovalTimeout, VerifyRead, Verified, Escalate,
                  RunVanishes, Unfenced
    <3> QED  BY <1>1, <3>1
  <2>6. CASE RunFails(r)
    BY <1>0, <2>6, GivenUpLease DEF RunFails
  <2>7. CASE Release(r)
    BY <1>0, <2>7 DEF Release, LeasesOK
  <2>8. CASE Return(r)
    BY <1>0, <2>8 DEF Return, LeasesOK, JobState
  <2> QED  BY <1>2, <2>1, <2>2, <2>3, <2>4, <2>5, <2>6, <2>7, <2>8 DEF Elsewhere
<1>3. ASSUME NEW r \in runs, ExecStep(r) PROVE LeasesOK'
  BY <1>1, <1>3, ExecFrame
<1>4. ASSUME Outside PROVE LeasesOK'
  <2>1. ASSUME NEW q \in requests, ReviseWrite(q) PROVE LeasesOK'
    <3>1. PICK k \in 0..MaxActions, verdict \in Verdicts :
             Submit("AWAITING_APPROVAL", q.version, q.who, k, verdict)
      BY <2>1 DEF ReviseWrite
    <3> QED  BY <3>1, SubmitLease
  <2>2. ASSUME NEW q \in requests, DecideWrite(q) PROVE LeasesOK'
    <3>1. CASE UNCHANGED queue
      BY <1>1, <3>1
    <3>2. CASE ~UNCHANGED queue
      <4>1. queue' = Enqueued(Job("execute", q.plan))
        BY <2>2, <3>2 DEF DecideWrite
      <4>2. CASE q.plan \in PlanIds
        BY <4>1, <4>2, JobFacts, EnqueuedLease
      <4>3. CASE q.plan \notin PlanIds
        BY <1>0, <4>1 DEF Enqueued, Queued, LeasesOK
      <4> QED  BY <4>2, <4>3
    <3> QED  BY <3>1, <3>2
  <2>3. ASSUME NEW q \in requests, DecideCheck(q) \/ Refuse(q) PROVE LeasesOK'
    BY <1>1, <2>3 DEF DecideCheck, Refuse
  <2>4. ASSUME NEW p \in PlanIds, Expire(p) PROVE LeasesOK'
    BY <1>1, <2>4 DEF Expire
  <2>5. ASSUME NEW j \in Jobs, Claim(j) PROVE LeasesOK'
    BY <1>0, <2>5 DEF Claim, LeasesOK, JobState
  <2>6. ASSUME NEW j \in Jobs, Reap(j) PROVE LeasesOK'
    BY <2>6, GivenUpLease DEF Reap
  <2>7. ASSUME NEW who \in People, ReviseRead(who) PROVE LeasesOK'
    BY <1>1, <2>7 DEF ReviseRead, Open
  <2>8. ASSUME NEW who \in People, NEW decision \in {"approve", "reject"}, NEW hash \in 1..nplans,
               DecideRead(who, decision, hash)
        PROVE  LeasesOK'
    BY <1>1, <2>8 DEF DecideRead, Open
  <2> QED  BY <1>4, <2>1, <2>2, <2>3, <2>4, <2>5, <2>6, <2>7, <2>8 DEF Outside
<1>5. CASE UNCHANGED vars
  BY <1>1, <1>5 DEF vars
<1> QED  BY <1>2, <1>3, <1>4, <1>5, NextSplit

-----------------------------------------------------------------------------
(* The incident row, its plans and its approvals                           *)

\* The states an incident gets to only with an authorised plan.
Decided == {"EXECUTING", "VERIFYING", "RESOLVED"}

\* The states from which no plan is submitted or decided any more.
Past == Decided \cup {"ESCALATED"}

\* How far an incident in state s is: it never goes back.
Rank(s) ==
    CASE s = "RECEIVED" -> 0 [] s = "TRIAGED" -> 1 [] s = "INVESTIGATING" -> 2
      [] s \in {"DIAGNOSED", "PLANNED", "SAFETY_REVIEWED"} -> 3 [] s = "AWAITING_APPROVAL" -> 4
      [] s = "EXECUTING" -> 5 [] s = "VERIFYING" -> 6 [] OTHER -> 7

\* One transition of the row, which alone never starts an execution.
Moved ==
    /\ incident.state \notin Terminal /\ Rank(incident.state) < Rank(incident'.state)
    /\ incident'.state \notin {"PLANNED", "SAFETY_REVIEWED", "AWAITING_APPROVAL"}
    /\ incident'.version = incident.version + 1
    /\ incident'.state \in Decided => incident.state \in Decided
    /\ incident.state \in Past => incident'.state \in Past
    /\ UNCHANGED <<nplans, approvals>>

\* A plan is submitted.
Submitted ==
    \E from \in States, version \in Nat, who \in People \cup {Planner},
       n \in 0..MaxActions, verdict \in Verdicts : Submit(from, version, who, n, verdict)

\* Every step leaves the row alone, moves it on, submits a plan or decides.
LEMMA FlowStep ==
    ASSUME TypeOK, [Next]_vars
    PROVE  \/ UNCHANGED <<incident, nplans, approvals>>
           \/ Moved
           \/ Submitted
           \/ \E q \in requests : DecideWrite(q)
<1> DEFINE Goal == \/ UNCHANGED <<incident, nplans, approvals>>
                   \/ Moved
                   \/ Submitted
                   \/ \E q \in requests : DecideWrite(q)
<1>0. incident \in [state: States, version: Nat]
  BY DEF TypeOK
<1>1. ASSUME NEW from, NEW to, NEW version, Transition(from, to, version),
             to \in Decided => from \in Decided, from \in Past => to \in Past,
             Rank(from) < Rank(to), to \notin {"PLANNED", "SAFETY_REVIEWED", "AWAITING_APPROVAL"},
             UNCHANGED <<nplans, approvals>>
      PROVE  Moved
  BY <1>1 DEF Transition, Allowed, Current, Moved
<1>2. ASSUME NEW r \in runs, Elsewhere(r) PROVE Goal
  <2>1. CASE PlanSubmit(r)
    <3>1. CASE \E k \in 0..MaxActions, verdict \in Verdicts :
                 Submit("DIAGNOSED", incident.version, Planner, k, verdict)
      <4>1. "DIAGNOSED" \in States /\ incident.version \in Nat /\ Planner \in People \cup {Planner}
        BY <1>0 DEF States
      <4> QED  BY <3>1, <4>1 DEF Submitted
    <3>2. CASE ~\E k \in 0..MaxActions, verdict \in Verdicts :
                 Submit("DIAGNOSED", incident.version, Planner, k, verdict)
      <4>1. \/ UNCHANGED <<incident, nplans, approvals>>
            \/ /\ Transition("DIAGNOSED", "ESCALATED", incident.version)
               /\ UNCHANGED <<nplans, approvals>>
        BY <2>1, <3>2 DEF PlanSubmit, db
      <4> QED  BY <1>1, <4>1 DEF Decided, Past, Rank
    <3> QED  BY <3>1, <3>2
  <2>2. CASE Triage(r)
    <3>1. \/ UNCHANGED <<incident, nplans, approvals>>
          \/ /\ Transition("RECEIVED", "TRIAGED", incident.version)
             /\ UNCHANGED <<nplans, approvals>>
      BY <2>2 DEF Triage
    <3> QED  BY <1>1, <3>1 DEF Decided, Past, Rank
  <2>3. CASE InvestigateBegin(r)
    <3>1. \/ UNCHANGED <<incident, nplans, approvals>>
          \/ /\ Transition("TRIAGED", "INVESTIGATING", incident.version)
             /\ UNCHANGED <<nplans, approvals>>
      BY <2>3 DEF InvestigateBegin
    <3> QED  BY <1>1, <3>1 DEF Decided, Past, Rank
  <2>4. CASE InvestigateEnd(r)
    <3>1. /\ \/ Transition("INVESTIGATING", "DIAGNOSED", r.version)
             \/ Transition("INVESTIGATING", "ESCALATED", r.version)
          /\ UNCHANGED <<nplans, approvals>>
      BY <2>4 DEF InvestigateEnd
    <3> QED  BY <1>1, <3>1 DEF Decided, Past, Rank
  <2>5. CASE ApprovalTimeout(r)
    <3>1. \/ UNCHANGED <<incident, nplans, approvals>>
          \/ /\ Transition("AWAITING_APPROVAL", "ESCALATED", incident.version)
             /\ UNCHANGED <<nplans, approvals>>
      BY <2>5 DEF ApprovalTimeout
    <3> QED  BY <1>1, <3>1 DEF Decided, Past, Rank
  <2>6. CASE Verified(r)
    <3>1. \/ UNCHANGED <<incident, nplans, approvals>>
          \/ \E to \in Terminal : /\ Transition("VERIFYING", to, incident.version)
                                  /\ UNCHANGED <<nplans, approvals>>
      BY <2>6 DEF Verified
    <3> QED  BY <1>1, <3>1 DEF Decided, Past, Rank, Terminal
  <2>7. CASE Executed(r)
    <3>1. \/ UNCHANGED <<incident, nplans, approvals>>
          \/ /\ Transition("EXECUTING", "VERIFYING", incident.version)
             /\ UNCHANGED <<nplans, approvals>>
      BY <2>7 DEF Executed, ExecTx
    <3> QED  BY <1>1, <3>1 DEF Decided, Past, Rank
  <2>8. CASE Escalate(r)
    <3>1. \/ UNCHANGED <<incident, nplans, approvals>>
          \/ /\ Transition(incident.state, "ESCALATED", incident.version)
             /\ UNCHANGED <<nplans, approvals>>
      BY <2>8 DEF Escalate, ExecTx
    <3>2. Transition(incident.state, "ESCALATED", incident.version)
            => Rank(incident.state) < Rank("ESCALATED")
      BY <1>0 DEF Transition, Allowed, Terminal, States, Rank
    <3> QED  BY <1>1, <3>1, <3>2 DEF Decided, Past
  <2>9. CASE PlanRead(r) \/ VerifyRead(r) \/ Return(r) \/ RunFails(r) \/ Release(r) \/ RunVanishes(r)
    BY <2>9 DEF PlanRead, VerifyRead, Unfenced, Return, RunFails, Release, RunVanishes, db
  <2> QED  BY <1>2, <2>1, <2>2, <2>3, <2>4, <2>5, <2>6, <2>7, <2>8, <2>9 DEF Elsewhere
<1>3. ASSUME NEW r \in runs, ExecStep(r) PROVE Goal
  BY <1>3, ExecFrame
<1>4. ASSUME Outside PROVE Goal
  <2>1. ASSUME NEW q \in requests, ReviseWrite(q) PROVE Goal
    <3>1. PICK k \in 0..MaxActions, verdict \in Verdicts :
             Submit("AWAITING_APPROVAL", q.version, q.who, k, verdict)
      BY <2>1 DEF ReviseWrite
    <3>2. "AWAITING_APPROVAL" \in States /\ q.version \in Nat /\ q.who \in People \cup {Planner}
      BY DEF TypeOK, States, Request
    <3> QED  BY <3>1, <3>2 DEF Submitted
  <2>2. ASSUME NEW q \in requests, DecideWrite(q) PROVE Goal
    BY <2>2
  <2>3. ASSUME NEW q \in requests, DecideCheck(q) \/ Refuse(q) PROVE Goal
    BY <2>3 DEF DecideCheck, Refuse, db
  <2>4. ASSUME NEW p \in PlanIds, Expire(p) PROVE Goal
    BY <2>4 DEF Expire
  <2>5. ASSUME NEW j \in Jobs, Claim(j) \/ Reap(j) PROVE Goal
    BY <2>5 DEF Claim, Reap, db
  <2>6. ASSUME NEW who \in People, ReviseRead(who) PROVE Goal
    BY <2>6 DEF ReviseRead, Open, db
  <2>7. ASSUME NEW who \in People, NEW decision \in {"approve", "reject"}, NEW hash \in 1..nplans,
               DecideRead(who, decision, hash)
        PROVE  Goal
    BY <2>7 DEF DecideRead, Open, db
  <2> QED  BY <1>4, <2>1, <2>2, <2>3, <2>4, <2>5, <2>6, <2>7 DEF Outside
<1>5. CASE UNCHANGED vars
  BY <1>5 DEF vars
<1> QED  BY <1>2, <1>3, <1>4, <1>5, NextSplit

\* The version of the row never goes back, and the current plan changes only
\* together with it.
LEMMA RowStep ==
    ASSUME TypeOK, [Next]_vars
    PROVE  \/ UNCHANGED <<incident, nplans>>
           \/ incident'.version \in Nat /\ incident'.version > incident.version
<1>0. incident.version \in Nat
  BY DEF TypeOK
<1>1. CASE Moved
  BY <1>0, <1>1 DEF Moved
<1>2. CASE Submitted
  BY <1>0, <1>2 DEF Submitted, Submit, Current
<1>3. CASE \E q \in requests : DecideWrite(q)
  BY <1>0, <1>3 DEF DecideWrite, Transition, Current
<1> QED  BY <1>1, <1>2, <1>3, FlowStep

\* A request under way stays in order whatever the others do.
LEMMA RequestsFrame ==
    ASSUME TypeOK, RequestsOK, [Next]_vars, NEW q, RequestOK(q)',
           requests' \subseteq requests \cup {q}
    PROVE  RequestsOK'
<1>0. /\ PlansKept /\ incident.version \in Nat /\ nplans \in Nat
      /\ \A p \in requests : p.version \in Nat
  BY PlansStep, RemediationConstants DEF TypeOK, Request
<1>1. ASSUME NEW p \in requests PROVE RequestOK(p)'
  <2>1. RequestOK(p) /\ p.version \in Nat
    BY <1>0 DEF RequestsOK
  <2>2. CASE UNCHANGED <<incident, nplans>>
    BY <1>0, <2>1, <2>2 DEF RequestOK, PlansKept
  <2>3. CASE incident'.version \in Nat /\ incident'.version > incident.version
    BY <1>0, <2>1, <2>3 DEF RequestOK, PlansKept
  <2> QED  BY <2>2, <2>3, RowStep
<1> QED  BY <1>1 DEF RequestsOK

\* Every step keeps the requests in order.
LEMMA RequestsStep == ASSUME TypeOK, RequestsOK, [Next]_vars PROVE RequestsOK'
<1>0. incident.version \in Nat /\ nplans \in Nat /\ requests \subseteq Request
  BY RemediationConstants DEF TypeOK
<1>1. ASSUME requests' \subseteq requests PROVE RequestsOK'
  <2>1. CASE requests = {}
    BY <1>1, <2>1 DEF RequestsOK
  <2>2. CASE requests # {}
    <3>1. PICK q : q \in requests
      BY <2>2
    <3>2. RequestOK(q) /\ PlansKept /\ q.version \in Nat
      BY <1>0, <3>1, PlansStep DEF RequestsOK, Request
    <3>3. RequestOK(q)'
      <4>2. CASE UNCHANGED <<incident, nplans>>
        BY <1>0, <3>2, <4>2 DEF RequestOK, PlansKept
      <4>3. CASE incident'.version \in Nat /\ incident'.version > incident.version
        BY <1>0, <3>2, <4>3 DEF RequestOK, PlansKept
      <4> QED  BY <4>2, <4>3, RowStep
    <3> QED  BY <1>1, <3>3, RequestsFrame
  <2> QED  BY <2>1, <2>2
<1>2. ASSUME NEW q \in requests, DecideCheck(q) PROVE RequestsOK'
  <2>1. PICK t : t = [q EXCEPT !.op = "decide", !.plan = nplans]
    OBVIOUS
  <2>2. q \in Request /\ RequestOK(q) /\ q.op = "check" /\ MayDecide(q)
    BY <1>0, <1>2 DEF RequestsOK, DecideCheck
  <2>3. /\ t.op = "decide" /\ t.plan = nplans /\ t.hash = q.hash /\ t.version = q.version
        /\ t.who = q.who /\ t.decision = q.decision
    BY <2>1, <2>2 DEF Request
  <2>4. UNCHANGED <<incident, nplans, plans>> /\ requests' \subseteq requests \cup {t}
    BY <1>2, <2>1 DEF DecideCheck, db
  <2>5. RequestOK(t)'
    BY <1>0, <2>2, <2>3, <2>4 DEF RequestOK, MayDecide
  <2> QED  BY <2>4, <2>5, RequestsFrame
<1>3. ASSUME NEW t, t.version = incident.version, t.op \in {"revise", "check"},
             t.op = "check" => t.hash # 0,
             UNCHANGED <<incident, nplans>>, requests' = requests \cup {t}
      PROVE  RequestsOK'
  <2>1. RequestOK(t)'
    BY <1>0, <1>3 DEF RequestOK
  <2> QED  BY <1>3, <2>1, RequestsFrame
<1>4. ASSUME NEW who \in People, ReviseRead(who) PROVE RequestsOK'
  <2>1. PICK t : t = [op |-> "revise", who |-> who, version |-> incident.version,
                      decision |-> "none", hash |-> 0, plan |-> 0]
    OBVIOUS
  <2>2. UNCHANGED <<incident, nplans>> /\ requests' = requests \cup {t}
    BY <1>4, <2>1 DEF ReviseRead, Open, db
  <2>3. t.version = incident.version /\ t.op = "revise"
    BY <2>1
  <2> QED  BY <1>3, <2>2, <2>3
<1>5. ASSUME NEW who \in People, NEW decision \in {"approve", "reject"}, NEW hash \in 1..nplans,
             DecideRead(who, decision, hash)
      PROVE  RequestsOK'
  <2>1. PICK t : t = [op |-> "check", who |-> who, version |-> incident.version,
                      decision |-> decision, hash |-> hash, plan |-> 0]
    OBVIOUS
  <2>2. UNCHANGED <<incident, nplans>> /\ requests' = requests \cup {t}
    BY <1>5, <2>1 DEF DecideRead, Open, db
  <2>3. t.version = incident.version /\ t.op = "check" /\ t.hash = hash /\ hash # 0
    BY <1>0, <2>1
  <2> QED  BY <1>3, <2>2, <2>3
<1>6. ASSUME NEW q \in requests, ReviseWrite(q) \/ DecideWrite(q) \/ Refuse(q) PROVE RequestsOK'
  <2>1. requests' \subseteq requests
    BY <1>6 DEF ReviseWrite, DecideWrite, Refuse
  <2> QED  BY <1>1, <2>1
<1>7. ASSUME NEW r \in runs, Elsewhere(r) PROVE RequestsOK'
  <2>1. CASE Triage(r) \/ InvestigateBegin(r) \/ InvestigateEnd(r) \/ PlanSubmit(r)
             \/ ApprovalTimeout(r) \/ Verified(r) \/ Executed(r) \/ Escalate(r)
    <3>1. UNCHANGED requests
      BY <2>1 DEF Triage, InvestigateBegin, InvestigateEnd, PlanSubmit, ApprovalTimeout, Verified,
                  Executed, Escalate, ExecTx, Tx
    <3> QED  BY <1>1, <3>1
  <2>2. CASE PlanRead(r) \/ VerifyRead(r) \/ Return(r) \/ RunFails(r) \/ Release(r) \/ RunVanishes(r)
    <3>1. UNCHANGED requests
      BY <2>2 DEF PlanRead, VerifyRead, Unfenced, Return, RunFails, Release, RunVanishes
    <3> QED  BY <1>1, <3>1
  <2> QED  BY <1>7, <2>1, <2>2 DEF Elsewhere
<1>8. ASSUME NEW r \in runs, ExecStep(r) PROVE RequestsOK'
  BY <1>1, <1>8, ExecFrame
<1>9. ASSUME Outside PROVE RequestsOK'
  <2>1. ASSUME NEW j \in Jobs, Claim(j) \/ Reap(j) PROVE RequestsOK'
    <3>1. UNCHANGED requests
      BY <2>1 DEF Claim, Reap
    <3> QED  BY <1>1, <3>1
  <2>2. ASSUME NEW p \in PlanIds, Expire(p) PROVE RequestsOK'
    BY <1>1, <2>2 DEF Expire
  <2> QED  BY <1>2, <1>4, <1>5, <1>6, <1>9, <2>1, <2>2 DEF Outside
<1>10. CASE UNCHANGED vars
  BY <1>1, <1>10 DEF vars
<1> QED  BY <1>7, <1>8, <1>9, <1>10, NextSplit

-----------------------------------------------------------------------------

\* The inductive invariant the types need.
Inv == TypeOK /\ RunsOK /\ LeasesOK /\ RequestsOK

\* It holds of a new incident,
LEMMA InvInit == Init => Inv
<1> SUFFICES ASSUME Init PROVE Inv
  OBVIOUS
<1> USE RemediationConstants
<1>1. TypeOK
  <2>1. incident \in [state: States, version: Nat] /\ nplans \in 0..MaxPlans
    BY DEF Init, States, Terminal
  <2>2. plans \in [PlanIds -> Plan] /\ approvals \in [PlanIds -> Approval]
    BY DEF Init, NoPlan, Undecided, Plan, Approval, Verdicts
  <2>3. executions \in [Steps -> Execution] /\ landed \in [Steps -> Nat]
    BY DEF Init, Execution
  <2>4. queue \in [Jobs -> JobState]
    BY DEF Init, Queued, Absent, JobState
  <2>5. runs \subseteq Run /\ requests \subseteq Request
    BY DEF Init
  <2> QED  BY <2>1, <2>2, <2>3, <2>4, <2>5 DEF TypeOK
<1>2. RunsOK /\ RequestsOK
  BY DEF Init, RunsOK, RequestsOK
<1>3. LeasesOK
  BY DEF Init, LeasesOK, Queued, Absent
<1> QED  BY <1>1, <1>2, <1>3 DEF Inv

\* every step keeps it,
LEMMA InvStep == Inv /\ [Next]_vars => Inv'
BY TypeStep, RunsStep, LeasesStep, RequestsStep DEF Inv

\* and so it always holds.
LEMMA InvHolds == Spec => []Inv
BY InvInit, InvStep, PTL DEF Spec

\* Every variable keeps its type: in particular a run never reads a plan or an
\* action that does not exist, and a hand-back never makes the attempts negative.
THEOREM Typing == Spec => []TypeOK
<1>1. Inv => TypeOK
  BY DEF Inv
<1> QED  BY <1>1, InvHolds, PTL

-----------------------------------------------------------------------------
(* Approval                                                                *)

\* A step never takes the authorisation of a submitted plan away.
LEMMA AuthorisedKept ==
    ASSUME PlansKept, UNCHANGED approvals, NEW p \in 1..nplans
    PROVE  /\ \A v : Authorised(p, v) => Authorised(p, v)'
           /\ Authorised(p, plans[p].verdict) => Authorised(p, plans[p].verdict)'
<1>1. plans'[p].verdict = plans[p].verdict /\ plans'[p].by = plans[p].by
  BY DEF PlansKept
<1> QED  BY <1>1 DEF Authorised, Approved

\* The current plan of a decided incident stays authorised.
LEMMA ApprovedStep ==
    ASSUME TypeOK, RequestsOK, ExecutesWhatWasApproved, [Next]_vars
    PROVE  ExecutesWhatWasApproved'
<1>0. PlansKept /\ nplans \in Nat /\ plans \in [PlanIds -> Plan] /\ approvals \in [PlanIds -> Approval]
  BY PlansStep, RemediationConstants DEF TypeOK
<1>1. CASE UNCHANGED <<incident, nplans, approvals>>
  <2> SUFFICES ASSUME incident'.state \in Decided
               PROVE  nplans' > 0 /\ Authorised(nplans, plans[nplans].verdict)'
    BY DEF ExecutesWhatWasApproved, Decided
  <2>1. nplans > 0 /\ Authorised(nplans, plans[nplans].verdict)
    BY <1>1 DEF ExecutesWhatWasApproved, Decided
  <2>2. \A p \in 1..nplans : Authorised(p, plans[p].verdict) => Authorised(p, plans[p].verdict)'
    BY <1>0, <1>1, AuthorisedKept
  <2> QED  BY <1>0, <1>1, <2>1, <2>2
<1>2. CASE Moved
  <2> SUFFICES ASSUME incident'.state \in Decided
               PROVE  nplans' > 0 /\ Authorised(nplans, plans[nplans].verdict)'
    BY DEF ExecutesWhatWasApproved, Decided
  <2>0. UNCHANGED <<nplans, approvals>> /\ incident.state \in Decided
    BY <1>2 DEF Moved
  <2>1. nplans > 0 /\ Authorised(nplans, plans[nplans].verdict)
    BY <2>0 DEF ExecutesWhatWasApproved, Decided
  <2>2. \A p \in 1..nplans : Authorised(p, plans[p].verdict) => Authorised(p, plans[p].verdict)'
    BY <1>0, <2>0, AuthorisedKept
  <2> QED  BY <1>0, <2>0, <2>1, <2>2
<1>3. CASE Submitted
  <2>1. PICK from \in States, version \in Nat, who \in People \cup {Planner},
             n \in 0..MaxActions, verdict \in Verdicts : Submit(from, version, who, n, verdict)
    BY <1>3 DEF Submitted
  <2>2. /\ nplans' = nplans + 1 /\ nplans + 1 \in PlanIds
        /\ plans'[nplans + 1].verdict = verdict /\ incident'.state = AfterReview(verdict)
    BY <1>0, <2>1, RemediationConstants DEF Submit, PlanIds, TypeOK
  <2>3. incident'.state \in Decided => verdict = "allow"
    BY <2>2 DEF AfterReview, Decided, Verdicts
  <2> QED  BY <1>0, <2>2, <2>3 DEF ExecutesWhatWasApproved, Decided, Authorised
<1>4. ASSUME NEW q \in requests, DecideWrite(q) PROVE ExecutesWhatWasApproved'
  <2>1. CASE q.decision = "approve"
    <3>1. incident.version = q.version /\ UNCHANGED <<nplans, plans>>
      BY <1>4, <2>1 DEF DecideWrite, Transition, Current
    <3>2. q.plan = nplans /\ q.hash = nplans /\ nplans \in 1..nplans /\ q.who # plans[nplans].by
      BY <1>4, <2>1, <3>1 DEF DecideWrite, RequestsOK, RequestOK
    <3>3. nplans \in PlanIds
      BY <1>0, <3>2 DEF TypeOK, PlanIds
    <3>4. approvals'[nplans] = [decision |-> "approve", by |-> q.who, hash |-> nplans, seen |-> nplans]
      BY <1>0, <1>4, <2>1, <3>2, <3>3 DEF DecideWrite
    <3>5. Approved(nplans)'
      BY <3>1, <3>2, <3>4 DEF Approved
    <3>6. plans[nplans].verdict = "require_approval"
      BY <1>4, <3>2 DEF DecideWrite, RequestsOK, RequestOK
    <3> QED  BY <1>0, <3>1, <3>2, <3>5, <3>6 DEF ExecutesWhatWasApproved, Authorised
  <2>2. CASE q.decision # "approve"
    <3>1. incident'.state = "ESCALATED"
      BY <1>4, <2>2 DEF DecideWrite, Transition
    <3> QED  BY <3>1 DEF ExecutesWhatWasApproved
  <2> QED  BY <2>1, <2>2
<1> QED  BY <1>1, <1>2, <1>3, <1>4, FlowStep

\* Whoever approves, revises, rejects or times out in whatever order: what is
\* executed is the current plan, and the policy allowed it or somebody other
\* than its author approved exactly it, having seen it.
THEOREM ApprovedPlansOnly == Spec => []ExecutesWhatWasApproved
<1>1. Init => ExecutesWhatWasApproved
  BY DEF Init, ExecutesWhatWasApproved
<1>2. Inv /\ ExecutesWhatWasApproved /\ [Next]_vars => ExecutesWhatWasApproved'
  BY ApprovedStep DEF Inv
<1> QED  BY <1>1, <1>2, InvHolds, PTL DEF Spec

-----------------------------------------------------------------------------
(* At most once                                                            *)

\* A run that has recorded "started" and not yet the outcome.
Carrying == {"audit_started", "patch", "finish_succeeded", "finish_failed", "finish_error", "finish_unknown"}

\* What makes the record an intent log: no change without a row, one run at
\* most carries an action, and until that run sends the patch nothing landed.
NoRowNoChange ==
    \A s \in Steps : landed[s] <= 1 /\ (executions[s] = "none" => landed[s] = 0)
CarriesARow == \A r \in runs : r.pc \in Carrying => executions[Step(r)] # "none"
NotSentYet == \A r \in runs : r.pc \in {"audit_started", "patch"} => landed[Step(r)] = 0
OneCarrier ==
    \A r, t \in runs : r.pc \in Carrying /\ t.pc \in Carrying /\ Step(r) = Step(t) => r = t
OnceInv == NoRowNoChange /\ CarriesARow /\ NotSentYet /\ OneCarrier

\* A carrying run is at an action of its plan.
LEMMA CarriedStep ==
    ASSUME TypeOK, NEW r \in runs, RunOK(r), r.pc \in ActionPcs \ {"action", "verifying"}
    PROVE  Step(r) \in Steps
<1>1. r.plan \in 1..nplans /\ r.act \in Nat \ {0} /\ r.act <= plans[r.plan].n
  BY DEF RunOK
<1>2. r.plan \in PlanIds
  BY <1>1, RemediationConstants DEF TypeOK, PlanIds
<1>3. plans[r.plan].n \in 0..MaxActions
  BY <1>2 DEF TypeOK, Plan
<1>4. r.act \in Actions
  BY <1>1, <1>3, RemediationConstants DEF Actions
<1> QED  BY <1>2, <1>4 DEF Step, Steps

\* No new carrier, nothing lands, and no row goes away.
LEMMA QuietStep ==
    ASSUME TypeOK, RunsOK, OnceInv, UNCHANGED landed,
           NEW t, t.pc \notin Carrying, runs' \subseteq runs \cup {t},
           \A s \in Steps : executions'[s] = "none" => executions[s] = "none"
    PROVE  OnceInv'
<1>1. \A r \in runs' : r.pc \in Carrying => r \in runs /\ Step(r) \in Steps
  <2> SUFFICES ASSUME NEW r \in runs', r.pc \in Carrying PROVE r \in runs /\ Step(r) \in Steps
    OBVIOUS
  <2>1. r \in runs /\ RunOK(r) /\ r.pc \in ActionPcs \ {"action", "verifying"}
    BY DEF RunsOK, Carrying, ActionPcs
  <2> QED  BY <2>1, CarriedStep
<1>2. NoRowNoChange'
  BY DEF OnceInv, NoRowNoChange
<1>3. CarriesARow'
  BY <1>1 DEF OnceInv, CarriesARow, Step
<1>4. NotSentYet'
  BY <1>1 DEF OnceInv, NotSentYet, Carrying, Step
<1>5. OneCarrier'
  BY <1>1 DEF OnceInv, OneCarrier, Step
<1> QED  BY <1>2, <1>3, <1>4, <1>5 DEF OnceInv

\* The steps that touch neither the row nor a carrier.
LEMMA QuietRead ==
    ASSUME TypeOK, RunsOK, OnceInv, UNCHANGED <<landed, executions>>,
           NEW t, t.pc \notin Carrying, runs' \subseteq runs \cup {t}
    PROVE  OnceInv'
<1>1. \A s \in Steps : executions'[s] = "none" => executions[s] = "none"
  OBVIOUS
<1> QED  BY <1>1, QuietStep

\* The steps that write an outcome.
LEMMA QuietWrite ==
    ASSUME TypeOK, RunsOK, OnceInv, UNCHANGED landed, NEW r \in runs,
           NEW pc, pc \notin Carrying, Goto(r, pc),
           NEW status, status # "none", executions' = [executions EXCEPT ![Step(r)] = status]
    PROVE  OnceInv'
<1> DEFINE t == [r EXCEPT !.pc = pc]
<1>1. t.pc = pc
  BY DEF TypeOK, Run
<1>2. runs' \subseteq runs \cup {t}
  BY DEF Goto
<1>3. \A s \in Steps : executions'[s] = "none" => executions[s] = "none"
  BY DEF TypeOK
<1> HIDE DEF t
<1> QED  BY <1>1, <1>2, <1>3, QuietStep

\* A carrier goes on carrying, and may be the one whose patch lands.
LEMMA CarryOn ==
    ASSUME TypeOK, RunsOK, OnceInv, UNCHANGED executions, NEW r \in runs, r.pc \in Carrying,
           NEW pc \in Carrying, Goto(r, pc),
           \/ UNCHANGED landed /\ (pc \in {"audit_started", "patch"} => r.pc = "audit_started")
           \/ /\ r.pc = "patch" /\ pc \notin {"audit_started", "patch"}
              /\ landed' = [landed EXCEPT ![Step(r)] = @ + 1]
    PROVE  OnceInv'
<1> DEFINE t == [r EXCEPT !.pc = pc]
<1>1. t.pc = pc /\ t.plan = r.plan /\ t.act = r.act
  BY DEF TypeOK, Run
<1>2. runs' = (runs \ {r}) \cup {t}
  BY DEF Goto
<1> HIDE DEF t
<1>3. Step(t) = Step(r)
  BY <1>1 DEF Step
<1>4. RunOK(r) /\ r.pc \in ActionPcs \ {"action", "verifying"}
  BY DEF RunsOK, Carrying, ActionPcs
<1>5. Step(r) \in Steps
  BY <1>4, CarriedStep
<1>6. landed \in [Steps -> Nat]
  BY DEF TypeOK
<1>7. r.pc = "patch" => landed[Step(r)] = 0
  BY DEF OnceInv, NotSentYet
<1>8. executions[Step(r)] # "none"
  BY DEF OnceInv, CarriesARow
<1>9. \A u \in runs \ {r} : u.pc \in Carrying => Step(u) # Step(r)
  BY DEF OnceInv, OneCarrier
<1>10. NoRowNoChange'
  BY <1>5, <1>6, <1>7, <1>8 DEF OnceInv, NoRowNoChange
<1>11. CarriesARow'
  <2>1. \A u \in runs : u.pc \in Carrying => executions'[Step(u)] # "none"
    BY DEF OnceInv, CarriesARow
  <2>2. executions'[Step(t)] # "none"
    BY <1>3, <1>8
  <2> QED  BY <1>2, <2>1, <2>2 DEF CarriesARow, Step
<1>12. NotSentYet'
  <2>1. ASSUME NEW u \in runs \ {r}, u.pc \in {"audit_started", "patch"}
        PROVE  landed'[Step(u)] = 0
    <3>1. Step(u) # Step(r) /\ landed[Step(u)] = 0
      BY <1>9, <2>1 DEF OnceInv, NotSentYet, Carrying
    <3>2. Step(u) \in Steps
      <4>1. u \in runs /\ RunOK(u) /\ u.pc \in ActionPcs \ {"action", "verifying"}
        BY <2>1 DEF RunsOK, ActionPcs
      <4> QED  BY <4>1, CarriedStep
    <3> QED  BY <1>6, <3>1, <3>2
  <2>2. t.pc \in {"audit_started", "patch"} => landed'[Step(t)] = 0
    BY <1>1, <1>3 DEF OnceInv, NotSentYet
  <2> QED  BY <1>2, <2>1, <2>2 DEF NotSentYet, Step
<1>13. OneCarrier'
  <2>1. \A u, v \in runs \ {r} :
           u.pc \in Carrying /\ v.pc \in Carrying /\ Step(u) = Step(v) => u = v
    BY DEF OnceInv, OneCarrier
  <2>2. \A u \in runs \ {r} : u.pc \in Carrying => Step(u) # Step(t)
    BY <1>3, <1>9
  <2> QED  BY <1>2, <2>1, <2>2 DEF OneCarrier, Step
<1> QED  BY <1>10, <1>11, <1>12, <1>13 DEF OnceInv

\* The insert that makes a run the carrier: its unique key admits one.
LEMMA BecomeCarrier ==
    ASSUME TypeOK, RunsOK, OnceInv, NEW r \in runs, RecordStarted(r)
    PROVE  OnceInv'
<1> DEFINE t == [r EXCEPT !.pc = "audit_started"]
<1>0. /\ r.pc = "record" /\ executions[Step(r)] = "none" /\ UNCHANGED landed
      /\ executions' = [executions EXCEPT ![Step(r)] = "started"]
  BY DEF RecordStarted, Record, ExecTx, Tx
<1>1. t.pc = "audit_started" /\ t.plan = r.plan /\ t.act = r.act
  BY DEF TypeOK, Run
<1>2. runs' = (runs \ {r}) \cup {t}
  BY DEF RecordStarted, Record, Goto
<1> HIDE DEF t
<1>3. Step(t) = Step(r)
  BY <1>1 DEF Step
<1>4. RunOK(r) /\ r.pc \in ActionPcs \ {"action", "verifying"}
  BY <1>0 DEF RunsOK, ActionPcs
<1>5. Step(r) \in Steps
  BY <1>4, CarriedStep
<1>6. executions \in [Steps -> Execution]
  BY DEF TypeOK
<1>7. landed[Step(r)] = 0
  BY <1>0, <1>5 DEF OnceInv, NoRowNoChange
<1>8. \A u \in runs : u.pc \in Carrying => Step(u) # Step(r)
  BY <1>0 DEF OnceInv, CarriesARow
<1>9. NoRowNoChange'
  BY <1>0, <1>5, <1>6 DEF OnceInv, NoRowNoChange
<1>10. CarriesARow'
  <2>1. ASSUME NEW u \in runs, u.pc \in Carrying PROVE executions'[Step(u)] # "none"
    <3>1. executions[Step(u)] # "none" /\ Step(u) # Step(r)
      BY <1>8, <2>1 DEF OnceInv, CarriesARow
    <3>2. RunOK(u) /\ u.pc \in ActionPcs \ {"action", "verifying"}
      BY <2>1 DEF RunsOK, Carrying, ActionPcs
    <3>3. Step(u) \in Steps
      BY <3>2, CarriedStep
    <3> QED  BY <1>0, <1>6, <3>1, <3>3
  <2>2. executions'[Step(t)] # "none"
    BY <1>0, <1>3, <1>5, <1>6
  <2> QED  BY <1>2, <2>1, <2>2 DEF CarriesARow, Step
<1>11. NotSentYet'
  <2>1. \A u \in runs : u.pc \in {"audit_started", "patch"} => landed'[Step(u)] = 0
    BY <1>0 DEF OnceInv, NotSentYet
  <2>2. landed'[Step(t)] = 0
    BY <1>0, <1>3, <1>7
  <2> QED  BY <1>2, <2>1, <2>2 DEF NotSentYet, Step
<1>12. OneCarrier'
  <2>1. \A u, v \in runs :
           u.pc \in Carrying /\ v.pc \in Carrying /\ Step(u) = Step(v) => u = v
    BY DEF OnceInv, OneCarrier
  <2>2. \A u \in runs : u.pc \in Carrying => Step(u) # Step(t)
    BY <1>3, <1>8
  <2> QED  BY <1>2, <2>1, <2>2 DEF OneCarrier, Step
<1> QED  BY <1>9, <1>10, <1>11, <1>12 DEF OnceInv

\* Every step keeps it.
LEMMA OnceStep == ASSUME TypeOK, RunsOK, OnceInv, [Next]_vars PROVE OnceInv'
<1>0. runs \subseteq Run
  BY DEF TypeOK
<1>1. ASSUME Idle, UNCHANGED <<executions, landed>> PROVE OnceInv'
  <2>1. PICK t : runs' \subseteq runs \cup {t} /\ t.pc \notin ActionPcs
    BY <1>1 DEF Idle
  <2>2. t.pc \notin Carrying
    BY <2>1 DEF ActionPcs, Carrying
  <2> QED  BY <1>1, <2>1, <2>2, QuietRead
<1>2. ASSUME NEW r \in runs, NEW pc, pc \notin Carrying, Goto(r, pc), UNCHANGED <<executions, landed>>
      PROVE  OnceInv'
  <2> DEFINE t == [r EXCEPT !.pc = pc]
  <2>1. t.pc = pc /\ runs' \subseteq runs \cup {t}
    BY <1>0, <1>2 DEF Goto, Run
  <2> HIDE DEF t
  <2> QED  BY <1>2, <2>1, QuietRead
<1>3. ASSUME NEW r \in runs, ExecStep(r) PROVE OnceInv'
  <2>0. r \in Run
    BY <1>0
  <2>1. CASE ExecuteRead(r)
    <3>0. UNCHANGED <<executions, landed>>
      BY <2>1 DEF ExecuteRead, Unfenced, db
    <3>1. CASE incident.state # "EXECUTING"
      BY <1>2, <2>1, <3>0, <3>1 DEF ExecuteRead, Carrying
    <3>2. CASE incident.state = "EXECUTING"
      <4>1. PICK verdict \in Verdicts : runs' = (runs \ {r}) \cup
              {[r EXCEPT !.pc = IF Refused(r, nplans, verdict) THEN "escalate" ELSE "action",
                         !.plan = nplans, !.review = verdict, !.act = 1]}
        BY <2>1, <3>2 DEF ExecuteRead
      <4>2. PICK t : t = [r EXCEPT !.pc = IF Refused(r, nplans, verdict) THEN "escalate" ELSE "action",
                                   !.plan = nplans, !.review = verdict, !.act = 1]
        OBVIOUS
      <4>3. t.pc \in {"escalate", "action"}
        BY <2>0, <4>2 DEF Run
      <4>4. runs' \subseteq runs \cup {t} /\ t.pc \notin Carrying
        BY <4>1, <4>2, <4>3 DEF Carrying
      <4> QED  BY <3>0, <4>4, QuietRead
    <3> QED  BY <3>1, <3>2
  <2>2. CASE ActionRead(r)
    <3>0. UNCHANGED <<executions, landed>> /\ r.pc = "action"
      BY <2>2 DEF ActionRead, Unfenced, db
    <3>1. \/ \E pc \in {"verifying", "mark_unknown", "prepare", "escalate"} : Goto(r, pc)
          \/ runs' = (runs \ {r}) \cup {[r EXCEPT !.act = r.act + 1]}
      BY <2>2 DEF ActionRead
    <3>2. CASE \E pc \in {"verifying", "mark_unknown", "prepare", "escalate"} : Goto(r, pc)
      BY <1>2, <3>0, <3>2 DEF Carrying
    <3>3. CASE runs' = (runs \ {r}) \cup {[r EXCEPT !.act = r.act + 1]}
      <4> DEFINE t == [r EXCEPT !.act = r.act + 1]
      <4>1. t.pc \notin Carrying
        BY <2>0, <3>0 DEF Run, Carrying
      <4>2. runs' \subseteq runs \cup {t}
        BY <3>3
      <4> HIDE DEF t
      <4> QED  BY <3>0, <4>1, <4>2, QuietRead
    <3> QED  BY <3>1, <3>2, <3>3
  <2>3. CASE Prepare(r)
    <3>0. UNCHANGED <<executions, landed>>
      BY <2>3 DEF Prepare, Unfenced, db
    <3>1. CASE Goto(r, "record_failed")
      BY <1>2, <3>0, <3>1 DEF Carrying
    <3>2. ASSUME NEW noop \in BOOLEAN,
                 runs' = (runs \ {r}) \cup {[r EXCEPT !.pc = "record", !.noop = noop]}
          PROVE  OnceInv'
      <4> DEFINE t == [r EXCEPT !.pc = "record", !.noop = noop]
      <4>1. t.pc \notin Carrying
        BY <2>0 DEF Run, Carrying
      <4>2. runs' \subseteq runs \cup {t}
        BY <3>2
      <4> HIDE DEF t
      <4> QED  BY <3>0, <4>1, <4>2, QuietRead
    <3> QED  BY <2>3, <3>1, <3>2 DEF Prepare
  <2>4. CASE MarkUnknown(r) \/ RecordFailed(r) \/ FinishSucceeded(r) \/ FinishFailed(r) \/ FinishUnknown(r)
    <3>1. PICK status \in {"unknown", "failed", "server_error", "succeeded"}, pc \in {"escalate", "audit_succeeded"} :
             /\ Goto(r, pc) /\ UNCHANGED landed
             /\ executions' = [executions EXCEPT ![Step(r)] = status]
      BY <2>4 DEF MarkUnknown, RecordFailed, Record, FinishSucceeded, FinishFailed, FinishUnknown,
                  Finish, ExecTx, Tx
    <3>2. pc \notin Carrying /\ status # "none"
      BY DEF Carrying
    <3> QED  BY <3>1, <3>2, QuietWrite
  <2>5. CASE RecordStarted(r)
    BY <2>5, BecomeCarrier
  <2>6. CASE AuditStarted(r)
    <3>1. r.pc = "audit_started" /\ Goto(r, "patch") /\ UNCHANGED <<executions, landed>>
      BY <2>6 DEF AuditStarted, Audit, ExecTx, Tx, Goto
    <3>2. r.pc \in Carrying /\ "patch" \in Carrying
      BY <3>1 DEF Carrying
    <3> QED  BY <3>1, <3>2, CarryOn
  <2>7. CASE Patch(r)
    <3>1. r.pc = "patch" /\ UNCHANGED executions
      BY <2>7 DEF Patch, Unfenced, db
    <3>2. PICK pc \in {"finish_succeeded", "finish_failed", "finish_error", "finish_unknown"} :
             /\ Goto(r, pc)
             /\ UNCHANGED landed \/ landed' = [landed EXCEPT ![Step(r)] = @ + 1]
      BY <2>7 DEF Patch
    <3>3. r.pc \in Carrying /\ pc \in Carrying /\ pc \notin {"audit_started", "patch"}
      BY <3>1 DEF Carrying
    <3> QED  BY <3>1, <3>2, <3>3, CarryOn
  <2>8. CASE AuditSucceeded(r)
    <3> DEFINE t == [r EXCEPT !.pc = "action", !.act = r.act + 1]
    <3>1. runs' \subseteq runs \cup {t} /\ UNCHANGED <<executions, landed>>
      BY <2>8 DEF AuditSucceeded, Audit, ExecTx, Tx
    <3>2. t.pc \notin Carrying
      BY <2>0 DEF Run, Carrying
    <3> HIDE DEF t
    <3> QED  BY <3>1, <3>2, QuietRead
  <2> QED  BY <1>3, <2>1, <2>2, <2>3, <2>4, <2>5, <2>6, <2>7, <2>8 DEF ExecStep
<1>4. CASE UNCHANGED vars
  <2>1. Idle /\ UNCHANGED <<executions, landed>>
    BY <1>4, FewerIdle DEF vars
  <2> QED  BY <1>1, <2>1
<1> QED  BY <1>1, <1>3, <1>4, NextSplit, ElsewhereStep, OutsideStep

\* The executor sends a change the cluster takes at most once per action, and
\* the proof never asks who holds the lease: the row inserted before the patch
\* and its unique key are enough.
THEOREM ActionsRunAtMostOnce == Spec => []AtMostOnce
<1>1. Init => OnceInv
  BY DEF Init, OnceInv, NoRowNoChange, CarriesARow, NotSentYet, OneCarrier
<1>2. Inv /\ OnceInv /\ [Next]_vars => OnceInv'
  BY OnceStep DEF Inv
<1>3. Inv /\ OnceInv => AtMostOnce
  BY DEF OnceInv, NoRowNoChange, AtMostOnce
<1> QED  BY <1>1, <1>2, <1>3, InvHolds, PTL DEF Spec

-----------------------------------------------------------------------------
(* What a run may change the cluster for                                   *)

\* The hash of an approval is the one its approver sent.
SeenOK == \A p \in PlanIds : approvals[p].seen = approvals[p].hash

\* A run past its refusal check executes the current plan, which was and is
\* authorised; the incident is past the point where its plan could change.
Cleared(r) ==
    /\ incident.state \in Past
    /\ r.plan = nplans /\ nplans > 0
    /\ Authorised(r.plan, plans[r.plan].verdict)
    /\ Authorised(r.plan, r.review)
RunsCleared == \A r \in runs : r.pc \in ActionPcs => Cleared(r)

\* An approval is written once, and with the hash its approver sent.
LEMMA SeenStep == ASSUME TypeOK, RequestsOK, SeenOK, [Next]_vars PROVE SeenOK'
<1>1. CASE UNCHANGED approvals
  BY <1>1 DEF SeenOK
<1>2. ASSUME NEW q \in requests, DecideWrite(q) PROVE SeenOK'
  <2>1. q.hash = q.plan
    BY <1>2 DEF DecideWrite, RequestsOK, RequestOK
  <2> QED  BY <1>2, <2>1 DEF DecideWrite, SeenOK, TypeOK
<1>3. CASE Submitted
  <2>1. UNCHANGED approvals
    BY <1>3 DEF Submitted, Submit
  <2> QED  BY <1>1, <2>1
<1>4. CASE Moved
  BY <1>1, <1>4 DEF Moved
<1> QED  BY <1>1, <1>2, <1>3, <1>4, FlowStep

\* A cleared run stays cleared, whatever the others do.
LEMMA ClearedKept ==
    ASSUME TypeOK, [Next]_vars, NEW r, Cleared(r)
    PROVE  Cleared(r)'
<1>0. PlansKept /\ nplans \in 1..nplans
  BY PlansStep, RemediationConstants DEF Cleared, TypeOK
<1>1. ASSUME UNCHANGED <<nplans, approvals>>, incident'.state \in Past PROVE Cleared(r)'
  <2>1. r.plan \in 1..nplans
    BY <1>0 DEF Cleared
  <2>2. /\ Authorised(r.plan, plans[r.plan].verdict)'
        /\ Authorised(r.plan, r.review)'
    BY <1>0, <1>1, <2>1, AuthorisedKept DEF Cleared
  <2> QED  BY <1>1, <2>2 DEF Cleared
<1>2. CASE UNCHANGED <<incident, nplans, approvals>>
  BY <1>1, <1>2 DEF Cleared
<1>3. CASE Moved
  BY <1>1, <1>3 DEF Moved, Cleared
<1>4. CASE Submitted
  <2>1. incident.state \in {"DIAGNOSED", "AWAITING_APPROVAL"}
    BY <1>4 DEF Submitted, Submit, Allowed, Current
  <2> QED  BY <2>1 DEF Cleared, Past, Decided
<1>5. CASE \E q \in requests : DecideWrite(q)
  <2>1. incident.state = "AWAITING_APPROVAL"
    BY <1>5 DEF DecideWrite, Transition, Current
  <2> QED  BY <2>1 DEF Cleared, Past, Decided
<1> QED  BY <1>2, <1>3, <1>4, <1>5, FlowStep

\* A run past its refusal check keeps its plan and its review.
LEMMA SameReview ==
    ASSUME TypeOK, NEW r \in runs, ExecStep(r), ~ExecuteRead(r)
    PROVE  \E t : /\ runs' \subseteq runs \cup {t}
                  /\ r.pc \in ActionPcs /\ t.plan = r.plan /\ t.review = r.review
<1>0. r \in Run
  BY DEF TypeOK
<1>1. ASSUME NEW pc, Goto(r, pc), r.pc \in ActionPcs
      PROVE  \E t : /\ runs' \subseteq runs \cup {t}
                    /\ r.pc \in ActionPcs /\ t.plan = r.plan /\ t.review = r.review
  <2> DEFINE t == [r EXCEPT !.pc = pc]
  <2>1. runs' \subseteq runs \cup {t} /\ t.plan = r.plan /\ t.review = r.review
    BY <1>0, <1>1 DEF Goto, Run
  <2> HIDE DEF t
  <2> QED  BY <1>1, <2>1
<1>2. CASE MarkUnknown(r) \/ RecordFailed(r) \/ RecordStarted(r) \/ Patch(r)
           \/ FinishSucceeded(r) \/ FinishFailed(r) \/ FinishUnknown(r)
  <2>1. /\ r.pc \in {"mark_unknown", "record_failed", "record", "patch",
                     "finish_succeeded", "finish_failed", "finish_error", "finish_unknown"}
        /\ \E pc \in {"escalate", "audit_started", "finish_succeeded", "finish_failed",
                      "finish_error", "finish_unknown", "audit_succeeded"} : Goto(r, pc)
    BY <1>2 DEF MarkUnknown, RecordFailed, RecordStarted, Record, Patch, FinishSucceeded,
                FinishFailed, FinishUnknown, Finish, ExecTx, Tx, Unfenced
  <2>2. r.pc \in ActionPcs
    BY <2>1 DEF ActionPcs
  <2> QED  BY <1>1, <2>1, <2>2
<1>3. CASE AuditStarted(r)
  <2>1. r.pc \in ActionPcs /\ Goto(r, "patch")
    BY <1>3 DEF AuditStarted, Audit, ExecTx, Tx, Goto, ActionPcs
  <2> QED  BY <1>1, <2>1
<1>4. CASE AuditSucceeded(r)
  <2> DEFINE t == [r EXCEPT !.pc = "action", !.act = r.act + 1]
  <2>1. runs' \subseteq runs \cup {t} /\ r.pc \in ActionPcs
    BY <1>4 DEF AuditSucceeded, Audit, ExecTx, Tx, ActionPcs
  <2>2. t.plan = r.plan /\ t.review = r.review
    BY <1>0 DEF Run
  <2> HIDE DEF t
  <2> QED  BY <2>1, <2>2
<1>5. CASE Prepare(r)
  <2>0. r.pc \in ActionPcs
    BY <1>5 DEF Prepare, Unfenced, ActionPcs
  <2>1. CASE Goto(r, "record_failed")
    BY <1>1, <2>0, <2>1
  <2>2. ASSUME NEW noop \in BOOLEAN,
               runs' = (runs \ {r}) \cup {[r EXCEPT !.pc = "record", !.noop = noop]}
        PROVE  \E t : /\ runs' \subseteq runs \cup {t}
                      /\ r.pc \in ActionPcs /\ t.plan = r.plan /\ t.review = r.review
    <3> DEFINE t == [r EXCEPT !.pc = "record", !.noop = noop]
    <3>1. runs' \subseteq runs \cup {t} /\ t.plan = r.plan /\ t.review = r.review
      BY <1>0, <2>2 DEF Run
    <3> HIDE DEF t
    <3> QED  BY <2>0, <3>1
  <2> QED  BY <1>5, <2>1, <2>2 DEF Prepare
<1>6. CASE ActionRead(r)
  <2>0. r.pc \in ActionPcs
    BY <1>6 DEF ActionRead, Unfenced, ActionPcs
  <2>1. \/ \E pc \in {"verifying", "mark_unknown", "prepare", "escalate"} : Goto(r, pc)
        \/ runs' = (runs \ {r}) \cup {[r EXCEPT !.act = r.act + 1]}
    BY <1>6 DEF ActionRead
  <2>2. CASE \E pc \in {"verifying", "mark_unknown", "prepare", "escalate"} : Goto(r, pc)
    BY <1>1, <2>0, <2>2
  <2>3. CASE runs' = (runs \ {r}) \cup {[r EXCEPT !.act = r.act + 1]}
    <3> DEFINE t == [r EXCEPT !.act = r.act + 1]
    <3>1. runs' \subseteq runs \cup {t} /\ t.plan = r.plan /\ t.review = r.review
      BY <1>0, <2>3 DEF Run
    <3> HIDE DEF t
    <3> QED  BY <2>0, <3>1
  <2> QED  BY <2>1, <2>2, <2>3
<1> QED  BY <1>2, <1>3, <1>4, <1>5, <1>6 DEF ExecStep

\* Every step keeps the runs cleared.
LEMMA ClearedStep ==
    ASSUME TypeOK, SeenOK, RunsCleared, [Next]_vars
    PROVE  RunsCleared'
<1>0. \A r \in runs : r.pc \in ActionPcs => Cleared(r)'
  BY ClearedKept DEF RunsCleared
<1>1. ASSUME Idle PROVE RunsCleared'
  BY <1>0, <1>1 DEF Idle, RunsCleared
<1>2. ASSUME NEW r \in runs, ExecStep(r), ~ExecuteRead(r) PROVE RunsCleared'
  <2>1. PICK t : /\ runs' \subseteq runs \cup {t}
                 /\ r.pc \in ActionPcs /\ t.plan = r.plan /\ t.review = r.review
    BY <1>2, SameReview
  <2>2. Cleared(r)'
    BY <1>0, <2>1
  <2>3. Cleared(t)'
    BY <2>1, <2>2 DEF Cleared
  <2> QED  BY <1>0, <2>1, <2>3 DEF RunsCleared
<1>3. ASSUME NEW r \in runs, ExecuteRead(r) PROVE RunsCleared'
  <2>0. /\ UNCHANGED <<incident, nplans, plans, approvals>>
        /\ r.job \in Jobs /\ r.job.kind = "execute" /\ r \in Run
    BY <1>3 DEF ExecuteRead, Unfenced, db, TypeOK, Run
  <2>1. CASE incident.state # "EXECUTING"
    <3>1. Idle
      BY <1>3, <2>1, GotoIdle DEF ExecuteRead, ActionPcs, TypeOK
    <3> QED  BY <1>1, <3>1
  <2>2. CASE incident.state = "EXECUTING"
    <3>1. PICK verdict \in Verdicts : runs' = (runs \ {r}) \cup
            {[r EXCEPT !.pc = IF Refused(r, nplans, verdict) THEN "escalate" ELSE "action",
                       !.plan = nplans, !.review = verdict, !.act = 1]}
      BY <1>3, <2>2 DEF ExecuteRead
    <3>2. PICK t : t = [r EXCEPT !.pc = IF Refused(r, nplans, verdict) THEN "escalate" ELSE "action",
                                 !.plan = nplans, !.review = verdict, !.act = 1]
      OBVIOUS
    <3>3. /\ t.pc = IF Refused(r, nplans, verdict) THEN "escalate" ELSE "action"
          /\ t.plan = nplans /\ t.review = verdict
      BY <2>0, <3>2 DEF Run
    <3>4. runs' \subseteq runs \cup {t}
      BY <3>1, <3>2
    <3>5. CASE Refused(r, nplans, verdict)
      BY <1>0, <3>3, <3>4, <3>5 DEF RunsCleared, ActionPcs
    <3>6. CASE ~Refused(r, nplans, verdict)
      <4>1. nplans \in PlanIds /\ nplans > 0
        BY <2>0, <3>6, JobShape DEF Refused, PlanIds
      <4>2. approvals[nplans].seen = approvals[nplans].hash
        BY <4>1 DEF SeenOK
      <4>3. Authorised(nplans, plans[nplans].verdict) /\ Authorised(nplans, verdict)
        BY <3>6, <4>2 DEF Refused, Authorised, Approved
      <4>4. Cleared(t)
        BY <2>2, <3>3, <4>1, <4>3 DEF Cleared, Past, Decided
      <4>5. Cleared(t)'
        BY <4>4, ClearedKept
      <4> QED  BY <1>0, <3>4, <4>5 DEF RunsCleared
    <3> QED  BY <3>5, <3>6
  <2> QED  BY <2>1, <2>2
<1>4. CASE UNCHANGED vars
  <2>1. Idle
    BY <1>4, FewerIdle DEF vars
  <2> QED  BY <1>1, <2>1
<1> QED  BY <1>1, <1>2, <1>3, <1>4, NextSplit, ElsewhereStep, OutsideStep

\* A run about to patch the cluster, even one that lost its lease long ago,
\* does so for the current plan and with every authorisation the policy asks.
THEOREM ChangesAreAuthorised == Spec => []OnlyAuthorisedChanges
<1>1. Init => SeenOK /\ RunsCleared
  BY DEF Init, SeenOK, RunsCleared, Undecided
<1>2. Inv /\ SeenOK /\ RunsCleared /\ [Next]_vars => (SeenOK /\ RunsCleared)'
  BY SeenStep, ClearedStep DEF Inv
<1>3. RunsCleared => OnlyAuthorisedChanges
  BY DEF RunsCleared, Cleared, OnlyAuthorisedChanges, ActionPcs
<1> QED  BY <1>1, <1>2, <1>3, InvHolds, PTL DEF Spec

-----------------------------------------------------------------------------
(* The job that moves an incident on                                      *)

\* Run r goes on as t.
GoesOn(r, t) == runs' = (runs \ {r}) \cup {t} /\ t.job = r.job /\ t.epoch = r.epoch

\* A step claims a job, or at most one run goes on.
LEMMA MoveStep ==
    ASSUME TypeOK, [Next]_vars
    PROVE  \/ \E j \in Jobs : Claim(j)
           \/ runs' \subseteq runs
           \/ \E r \in runs : \E t : GoesOn(r, t)
<1> DEFINE Goal == runs' \subseteq runs \/ \E r \in runs : \E t : GoesOn(r, t)
<1>0. runs \subseteq Run
  BY DEF TypeOK
<1>1. ASSUME NEW r \in runs, NEW pc, Goto(r, pc) PROVE Goal
  <2> DEFINE t == [r EXCEPT !.pc = pc]
  <2>1. t.job = r.job /\ t.epoch = r.epoch
    BY <1>0 DEF Run
  <2>2. runs' = (runs \ {r}) \cup {t}
    BY <1>1 DEF Goto
  <2> HIDE DEF t
  <2> QED  BY <2>1, <2>2 DEF GoesOn
<1>2. ASSUME NEW r \in runs, Elsewhere(r) PROVE Goal
  <2>1. CASE \/ Triage(r) \/ InvestigateEnd(r) \/ PlanRead(r) \/ PlanSubmit(r)
             \/ ApprovalTimeout(r) \/ VerifyRead(r) \/ Verified(r) \/ Executed(r) \/ Escalate(r)
    <3>1. \E pc \in {"think", "return"} : Goto(r, pc)
      BY <2>1 DEF Triage, InvestigateEnd, PlanRead, PlanSubmit, ApprovalTimeout, VerifyRead,
                  Verified, Executed, Escalate
    <3> QED  BY <1>1, <3>1
  <2>2. CASE InvestigateBegin(r)
    <3>1. PICK pc \in {"think", "return"} :
             runs' = (runs \ {r}) \cup {[r EXCEPT !.pc = pc, !.version = incident'.version]}
      BY <2>2 DEF InvestigateBegin
    <3> DEFINE t == [r EXCEPT !.pc = pc, !.version = incident'.version]
    <3>3. t.job = r.job /\ t.epoch = r.epoch
      BY <1>0 DEF Run
    <3> HIDE DEF t
    <3> QED  BY <3>1, <3>3 DEF GoesOn, t
  <2>3. CASE Return(r) \/ RunFails(r) \/ Release(r) \/ RunVanishes(r)
    BY <2>3 DEF Return, RunFails, Release, RunVanishes
  <2> QED  BY <1>2, <2>1, <2>2, <2>3 DEF Elsewhere
<1>3. ASSUME NEW r \in runs, ExecStep(r) PROVE Goal
  <2>0. r \in Run
    BY <1>0
  <2>1. CASE ExecuteRead(r)
    <3>1. CASE incident.state # "EXECUTING"
      BY <1>1, <2>1, <3>1 DEF ExecuteRead
    <3>2. CASE incident.state = "EXECUTING"
      <4>1. PICK verdict \in Verdicts : runs' = (runs \ {r}) \cup
              {[r EXCEPT !.pc = IF Refused(r, nplans, verdict) THEN "escalate" ELSE "action",
                         !.plan = nplans, !.review = verdict, !.act = 1]}
        BY <2>1, <3>2 DEF ExecuteRead
      <4> DEFINE t == [r EXCEPT !.pc = IF Refused(r, nplans, verdict) THEN "escalate" ELSE "action",
                                !.plan = nplans, !.review = verdict, !.act = 1]
      <4>2. t.job = r.job /\ t.epoch = r.epoch /\ runs' = (runs \ {r}) \cup {t}
        BY <2>0, <4>1 DEF Run
      <4> HIDE DEF t
      <4> QED  BY <4>2 DEF GoesOn
    <3> QED  BY <3>1, <3>2
  <2>2. CASE ActionRead(r)
    <3>1. \/ \E pc \in {"verifying", "mark_unknown", "prepare", "escalate"} : Goto(r, pc)
          \/ runs' = (runs \ {r}) \cup {[r EXCEPT !.act = r.act + 1]}
      BY <2>2 DEF ActionRead
    <3>2. CASE runs' = (runs \ {r}) \cup {[r EXCEPT !.act = r.act + 1]}
      <4> DEFINE t == [r EXCEPT !.act = r.act + 1]
      <4>1. t.job = r.job /\ t.epoch = r.epoch /\ runs' = (runs \ {r}) \cup {t}
        BY <2>0, <3>2 DEF Run
      <4> HIDE DEF t
      <4> QED  BY <4>1 DEF GoesOn
    <3> QED  BY <1>1, <3>1, <3>2
  <2>3. CASE Prepare(r)
    <3>1. ASSUME NEW noop \in BOOLEAN,
                 runs' = (runs \ {r}) \cup {[r EXCEPT !.pc = "record", !.noop = noop]}
          PROVE  Goal
      <4> DEFINE t == [r EXCEPT !.pc = "record", !.noop = noop]
      <4>1. t.job = r.job /\ t.epoch = r.epoch /\ runs' = (runs \ {r}) \cup {t}
        BY <2>0, <3>1 DEF Run
      <4> HIDE DEF t
      <4> QED  BY <4>1 DEF GoesOn
    <3> QED  BY <1>1, <2>3, <3>1 DEF Prepare
  <2>4. CASE \/ MarkUnknown(r) \/ RecordFailed(r) \/ RecordStarted(r) \/ AuditStarted(r) \/ Patch(r)
             \/ FinishSucceeded(r) \/ FinishFailed(r) \/ FinishUnknown(r)
    <3>1. \E pc \in Pcs : Goto(r, pc)
      BY <2>4 DEF MarkUnknown, RecordFailed, RecordStarted, Record, AuditStarted, Audit, Goto, Patch,
                  FinishSucceeded, FinishFailed, FinishUnknown, Finish, Pcs
    <3> QED  BY <1>1, <3>1
  <2>5. CASE AuditSucceeded(r)
    <3> DEFINE t == [r EXCEPT !.pc = "action", !.act = r.act + 1]
    <3>1. t.job = r.job /\ t.epoch = r.epoch /\ runs' = (runs \ {r}) \cup {t}
      BY <2>0, <2>5 DEF Run, AuditSucceeded, Audit
    <3> HIDE DEF t
    <3> QED  BY <3>1 DEF GoesOn
  <2> QED  BY <1>3, <2>1, <2>2, <2>3, <2>4, <2>5 DEF ExecStep
<1>4. ASSUME Outside PROVE Goal \/ \E j \in Jobs : Claim(j)
  BY <1>4 DEF Outside, Reap, ReviseRead, DecideRead, Open, ReviseWrite, DecideCheck, DecideWrite,
              Refuse, rest, Expire
<1>5. CASE UNCHANGED vars
  BY <1>5 DEF vars
<1> QED  BY <1>2, <1>3, <1>4, <1>5, NextSplit

\* Claims are numbered: a run knows which claim of its job it is.
EpochsOK ==
    /\ \A j \in Jobs : queue[j].status = "absent" => queue[j].epoch = 0
    /\ \A r \in runs : 0 < r.epoch /\ r.epoch <= queue[r.job].epoch
    /\ \A r, t \in runs : r.job = t.job /\ r.epoch = t.epoch => r = t

\* The ranks a job of kind k moves an incident on from.
First(k) ==
    CASE k = "triage" -> 0 [] k = "investigate" -> 1 [] k = "plan" -> 3
      [] k = "approval_timeout" -> 4 [] k = "execute" -> 5 [] k = "verify" -> 6
Last(k) == IF k = "investigate" THEN 2 ELSE First(k)

\* The ranks, written out.
LEMMA Ranks ==
    /\ Rank("RECEIVED") = 0 /\ Rank("TRIAGED") = 1 /\ Rank("INVESTIGATING") = 2
    /\ Rank("DIAGNOSED") = 3 /\ Rank("AWAITING_APPROVAL") = 4 /\ Rank("EXECUTING") = 5
    /\ Rank("VERIFYING") = 6 /\ Rank("RESOLVED") = 7 /\ Rank("ESCALATED") = 7
    /\ First("triage") = 0 /\ First("investigate") = 1 /\ First("plan") = 3
    /\ First("approval_timeout") = 4 /\ First("execute") = 5 /\ First("verify") = 6
    /\ Last("triage") = 0 /\ Last("investigate") = 2 /\ Last("plan") = 3
    /\ Last("approval_timeout") = 4 /\ Last("execute") = 5 /\ Last("verify") = 6
BY DEF Rank, First, Last

\* A revision has replaced the plan of job j.
Superseded(j) == j.plan # 0 /\ j.plan < nplans
\* The incident has got to where job j is for, and has got past it.
Begun(j) == j.plan <= nplans /\ (Superseded(j) \/ First(j.kind) <= Rank(incident.state))
Over(j) == Superseded(j) \/ Last(j.kind) < Rank(incident.state)

\* What a step other than a claim may do to the queue.
QueueKept ==
    \A j \in Jobs :
        /\ queue'[j].epoch = queue[j].epoch
        /\ queue'[j].status = "running" => queue[j].status = "running"
        /\ queue'[j].status = "absent" => queue[j].status = "absent"
        /\ queue'[j].status # "absent" => queue[j].status # "absent" \/ Begun(j)'
        /\ queue'[j].status = "done" =>
              queue[j].status = "done" \/ \E r \in runs : r.job = j /\ r.pc = "return"

\* Between transactions an incident is in none of the two states submit passes
\* through; from the approval on it has a plan; and the plan to be decided on,
\* like the plans to come, is undecided.
FlowOK ==
    /\ incident.state \notin {"PLANNED", "SAFETY_REVIEWED"}
    /\ incident.state \in {"AWAITING_APPROVAL", "EXECUTING", "VERIFYING"} => nplans > 0
    /\ \A p \in PlanIds : p > nplans \/ (p = nplans /\ incident.state = "AWAITING_APPROVAL")
          => approvals[p] = Undecided

\* An open incident has the job that moves it on.
Driven == incident.state \notin Terminal => queue[Driver].status # "absent"

\* A step that leaves the incident where it is.
LEMMA StaysDriven ==
    ASSUME TypeOK, FlowOK, Driven, UNCHANGED <<incident, nplans>>,
           \A j \in Jobs : queue'[j].status = "absent" => queue[j].status = "absent"
    PROVE  Driven'
<1> SUFFICES ASSUME incident.state \notin Terminal PROVE queue'[Driver'].status # "absent"
  BY DEF Driven
<1>1. Driver' = Driver
  BY DEF Driver
<1>2. Driver \in Jobs
  <2>1. incident.state \in {"AWAITING_APPROVAL", "EXECUTING", "VERIFYING"} => nplans \in PlanIds
    BY RemediationConstants DEF FlowOK, TypeOK, PlanIds
  <2>2. incident.state \in States
    BY DEF TypeOK
  <2> QED  BY <2>1, <2>2, JobFacts DEF FlowOK, Driver, States
<1> QED  BY <1>1, <1>2 DEF Driven

\* A step that hands the incident on with the job that moves it on from there.
LEMMA HandedOn ==
    ASSUME TypeOK, EpochsOK, NEW j \in Jobs, queue' = Enqueued(j), Begun(j)', Driver' = j
    PROVE  QueueKept /\ Driven'
<1>1. queue \in [Jobs -> JobState]
  BY DEF TypeOK
<1>2. QueueKept
  BY <1>1 DEF QueueKept, EpochsOK, Enqueued, Queued
<1>3. queue'[j].status # "absent"
  BY <1>1 DEF Enqueued, Queued
<1> QED  BY <1>2, <1>3 DEF Driven

\* A step that ends the incident.
LEMMA EndsDriven ==
    ASSUME TypeOK, UNCHANGED queue, incident'.state \in Terminal
    PROVE  QueueKept /\ Driven'
BY DEF QueueKept, Driven

\* A step that leaves the queue alone, too.
LEMMA SameQueue ==
    ASSUME TypeOK, FlowOK, Driven, UNCHANGED <<incident, nplans, queue>>
    PROVE  QueueKept /\ Driven'
<1>1. QueueKept
  BY DEF QueueKept
<1> QED  BY <1>1, StaysDriven

\* submit
LEMMA SubmitDriven ==
    ASSUME TypeOK, EpochsOK, NEW from, NEW version, NEW who, NEW n, NEW verdict \in Verdicts,
           Submit(from, version, who, n, verdict)
    PROVE  QueueKept /\ Driven'
<1>0. PICK p : p = nplans + 1
  OBVIOUS
<1>1. p \in PlanIds /\ nplans' = p /\ p \in Nat \ {0}
  BY <1>0, RemediationConstants DEF Submit, TypeOK, PlanIds
<1>2. Job("approval_timeout", p) \in Jobs /\ Job("execute", p) \in Jobs
  BY <1>1, JobFacts
<1>3. /\ queue' = CASE verdict = "deny" -> queue
                    [] verdict = "require_approval" -> Enqueued(Job("approval_timeout", p))
                    [] verdict = "allow" -> Enqueued(Job("execute", p))
      /\ incident'.state = AfterReview(verdict)
  BY <1>0 DEF Submit
<1>4. CASE verdict = "deny"
  <2>1. UNCHANGED queue /\ incident'.state \in Terminal
    BY <1>3, <1>4 DEF AfterReview, Terminal
  <2> QED  BY <2>1, EndsDriven
<1>5. CASE verdict = "require_approval"
  <2>1. queue' = Enqueued(Job("approval_timeout", p)) /\ incident'.state = "AWAITING_APPROVAL"
    BY <1>3, <1>5 DEF AfterReview
  <2>2. Driver' = Job("approval_timeout", p)
    BY <1>1, <2>1 DEF Driver
  <2>3. Begun(Job("approval_timeout", p))'
    BY <1>1, <2>1, Ranks DEF Begun, Job
  <2> QED  BY <1>2, <2>1, <2>2, <2>3, HandedOn
<1>6. CASE verdict = "allow"
  <2>1. queue' = Enqueued(Job("execute", p)) /\ incident'.state = "EXECUTING"
    BY <1>3, <1>6 DEF AfterReview
  <2>2. Driver' = Job("execute", p)
    BY <1>1, <2>1 DEF Driver
  <2>3. Begun(Job("execute", p))'
    BY <1>1, <2>1, Ranks DEF Begun, Job
  <2> QED  BY <1>2, <2>1, <2>2, <2>3, HandedOn
<1> QED  BY <1>4, <1>5, <1>6 DEF Verdicts

\* A run that ends without a result.
LEMMA GivenUpDriven ==
    ASSUME TypeOK, FlowOK, Driven, UNCHANGED <<incident, nplans>>, NEW j \in Jobs,
           queue[j].status = "running", queue' = GivenUp(j)
    PROVE  QueueKept /\ Driven'
<1>1. queue \in [Jobs -> JobState]
  BY DEF TypeOK
<1>2. QueueKept
  BY <1>1 DEF QueueKept, GivenUp, JobState
<1>3. \A i \in Jobs : queue'[i].status = "absent" => queue[i].status = "absent"
  BY <1>2 DEF QueueKept
<1> QED  BY <1>2, <1>3, StaysDriven

\* Every step but a claim keeps the queue, and an open incident is driven.
LEMMA QueueStep ==
    ASSUME TypeOK, RunsOK, RequestsOK, RunsCleared, EpochsOK, FlowOK, Driven, [Next]_vars
    PROVE  (QueueKept \/ \E j \in Jobs : Claim(j)) /\ Driven'
<1> DEFINE Goal == QueueKept /\ Driven'
<1>0. queue \in [Jobs -> JobState] /\ \A r \in runs : r \in Run /\ r.job \in Jobs
  BY DEF TypeOK, Run
<1>1. ASSUME NEW r \in runs, Elsewhere(r) PROVE Goal
  <2>1. CASE PlanSubmit(r)
    <3>1. CASE \E k \in 0..MaxActions, verdict \in Verdicts :
                 Submit("DIAGNOSED", incident.version, Planner, k, verdict)
      BY <3>1, SubmitDriven
    <3>2. CASE UNCHANGED <<incident, nplans, queue>>
      BY <3>2, SameQueue
    <3>3. CASE Transition("DIAGNOSED", "ESCALATED", incident.version) /\ UNCHANGED queue
      <4>1. UNCHANGED queue /\ incident'.state \in Terminal
        BY <3>3 DEF Transition, Terminal
      <4> QED  BY <4>1, EndsDriven
    <3> QED  BY <2>1, <3>1, <3>2, <3>3 DEF PlanSubmit, db
  <2>2. CASE Triage(r)
    <3>1. CASE UNCHANGED <<incident, nplans, queue>>
      BY <3>1, SameQueue
    <3>2. CASE ~UNCHANGED <<incident, nplans, queue>>
      <4>1. /\ incident'.state = "TRIAGED" /\ UNCHANGED nplans
            /\ queue' = Enqueued(Job("investigate", 0))
        BY <2>2, <3>2 DEF Triage, Transition
      <4>2. Driver' = Job("investigate", 0)
        BY <4>1 DEF Driver
      <4>3. Begun(Job("investigate", 0))'
        BY <4>1, Ranks, RemediationConstants DEF Begun, Job, TypeOK
      <4> QED  BY <4>1, <4>2, <4>3, JobFacts, HandedOn
    <3> QED  BY <3>1, <3>2
  <2>3. CASE InvestigateBegin(r)
    <3>1. CASE UNCHANGED incident
      BY <2>3, <3>1, SameQueue DEF InvestigateBegin
    <3>2. CASE incident.state = "TRIAGED" /\ incident'.state = "INVESTIGATING"
      <4>1. QueueKept
        BY <2>3 DEF InvestigateBegin, QueueKept
      <4>2. UNCHANGED queue /\ Driver' = Driver
        BY <2>3, <3>2 DEF InvestigateBegin, Driver
      <4>3. Driven'
        BY <3>2, <4>2 DEF Driven, Terminal
      <4> QED  BY <4>1, <4>3
    <3> QED  BY <2>3, <3>1, <3>2 DEF InvestigateBegin, Transition, Current
  <2>4. CASE InvestigateEnd(r)
    <3>1. CASE UNCHANGED queue /\ incident'.state \in Terminal
      BY <3>1, EndsDriven
    <3>2. CASE ~(UNCHANGED queue /\ incident'.state \in Terminal)
      <4>1. /\ incident'.state = "DIAGNOSED" /\ UNCHANGED nplans
            /\ queue' = Enqueued(Job("plan", 0))
        BY <2>4, <3>2 DEF InvestigateEnd, Transition, Terminal
      <4>2. Driver' = Job("plan", 0)
        BY <4>1 DEF Driver
      <4>3. Begun(Job("plan", 0))'
        BY <4>1, Ranks, RemediationConstants DEF Begun, Job, TypeOK
      <4> QED  BY <4>1, <4>2, <4>3, JobFacts, HandedOn
    <3> QED  BY <3>1, <3>2
  <2>5. CASE ApprovalTimeout(r) \/ Verified(r) \/ Escalate(r)
    <3>1. UNCHANGED <<nplans, queue>> /\ (UNCHANGED incident \/ incident'.state \in Terminal)
      BY <2>5 DEF ApprovalTimeout, Verified, Escalate, ExecTx, Transition, Terminal
    <3> QED  BY <3>1, SameQueue, EndsDriven
  <2>6. CASE Executed(r)
    <3>1. CASE UNCHANGED <<incident, nplans, queue>>
      BY <3>1, SameQueue
    <3>2. CASE ~UNCHANGED <<incident, nplans, queue>>
      <4>1. /\ incident'.state = "VERIFYING" /\ UNCHANGED nplans /\ r.pc = "verifying"
            /\ queue' = Enqueued(Job("verify", r.plan))
        BY <2>6, <3>2 DEF Executed, ExecTx, Tx, Transition
      <4>2. r.plan = nplans /\ r.plan \in PlanIds
        <5>1. r.pc \in ActionPcs
          BY <4>1 DEF ActionPcs
        <5>2. r.plan = nplans /\ nplans > 0
          BY <5>1 DEF RunsCleared, Cleared
        <5> QED  BY <5>2, RemediationConstants DEF TypeOK, PlanIds
      <4>3. PICK p : p = r.plan
        OBVIOUS
      <4>4. Driver' = Job("verify", p)
        BY <4>1, <4>2, <4>3 DEF Driver
      <4>5. Begun(Job("verify", p))'
        BY <4>1, <4>2, <4>3, Ranks DEF Begun, Job, PlanIds
      <4>6. Job("verify", p) \in Jobs /\ queue' = Enqueued(Job("verify", p))
        BY <4>1, <4>2, <4>3, JobFacts
      <4> QED  BY <4>4, <4>5, <4>6, HandedOn
    <3> QED  BY <3>1, <3>2
  <2>7. CASE PlanRead(r) \/ VerifyRead(r) \/ RunVanishes(r)
    <3>1. UNCHANGED <<incident, nplans, queue>>
      BY <2>7 DEF PlanRead, VerifyRead, RunVanishes, Unfenced, db
    <3> QED  BY <3>1, SameQueue
  <2>8. CASE RunFails(r)
    <3>1. UNCHANGED <<incident, nplans>> /\ queue[r.job].status = "running" /\ queue' = GivenUp(r.job)
      BY <2>8 DEF RunFails, Owns, db
    <3> QED  BY <1>0, <3>1, GivenUpDriven
  <2>9. CASE Release(r) \/ Return(r)
    <3>1. UNCHANGED <<incident, nplans>> /\ queue[r.job].status = "running"
      BY <2>9 DEF Release, Return, Owns, db
    <3>2. \/ queue' = [queue EXCEPT ![r.job] = [status |-> "queued", epoch |-> queue[r.job].epoch,
                                                 tries |-> queue[r.job].tries - 1]]
          \/ r.pc = "return" /\ queue' = [queue EXCEPT ![r.job].status = "done"]
      BY <2>9 DEF Release, Return
    <3>3. QueueKept
      BY <1>0, <3>1, <3>2 DEF QueueKept, JobState
    <3>4. \A i \in Jobs : queue'[i].status = "absent" => queue[i].status = "absent"
      BY <3>3 DEF QueueKept
    <3> QED  BY <3>1, <3>3, <3>4, StaysDriven
  <2> QED  BY <1>1, <2>1, <2>2, <2>3, <2>4, <2>5, <2>6, <2>7, <2>8, <2>9 DEF Elsewhere
<1>2. ASSUME NEW r \in runs, ExecStep(r) PROVE Goal
  BY <1>2, ExecFrame, SameQueue
<1>3. ASSUME NEW j \in Jobs, Claim(j) PROVE Driven'
  <2>1. UNCHANGED <<incident, nplans>> /\ \A i \in Jobs : queue'[i].status = "absent" => queue[i].status = "absent"
    BY <1>0, <1>3 DEF Claim, db
  <2> QED  BY <2>1, StaysDriven
<1>4. ASSUME NEW j \in Jobs, Reap(j) PROVE Goal
  <2>1. UNCHANGED <<incident, nplans>>
    BY <1>4 DEF Reap, db
  <2> QED  BY <1>4, <2>1, GivenUpDriven DEF Reap
<1>5. ASSUME NEW q \in requests, ReviseWrite(q) PROVE Goal
  BY <1>5, SubmitDriven DEF ReviseWrite
<1>6. ASSUME NEW q \in requests, DecideWrite(q) PROVE Goal
  <2>1. CASE q.decision = "approve"
    <3>1. /\ incident'.state = "EXECUTING" /\ incident.version = q.version /\ UNCHANGED nplans
          /\ queue' = Enqueued(Job("execute", q.plan)) /\ q.op = "decide"
      BY <1>6, <2>1 DEF DecideWrite, Transition, Current
    <3>2. q.plan = nplans /\ q.plan \in 1..nplans
      BY <3>1 DEF RequestsOK, RequestOK
    <3>3. q.plan \in PlanIds
      BY <3>2, RemediationConstants DEF TypeOK, PlanIds
    <3>4. PICK p : p = q.plan
      OBVIOUS
    <3>5. Driver' = Job("execute", p)
      BY <3>1, <3>2, <3>4 DEF Driver
    <3>6. Begun(Job("execute", p))'
      BY <3>1, <3>2, <3>3, <3>4, Ranks DEF Begun, Job, PlanIds
    <3>7. Job("execute", p) \in Jobs /\ queue' = Enqueued(Job("execute", p))
      BY <3>1, <3>3, <3>4, JobFacts
    <3> QED  BY <3>5, <3>6, <3>7, HandedOn
  <2>2. CASE q.decision # "approve"
    <3>1. UNCHANGED queue /\ incident'.state \in Terminal
      BY <1>6, <2>2 DEF DecideWrite, Transition, Terminal
    <3> QED  BY <3>1, EndsDriven
  <2> QED  BY <2>1, <2>2
<1>7. CASE \/ \E q \in requests : DecideCheck(q) \/ Refuse(q)
           \/ \E p \in PlanIds : Expire(p)
           \/ \E who \in People : ReviseRead(who)
           \/ \E who \in People, decision \in {"approve", "reject"}, hash \in 1..nplans :
                 DecideRead(who, decision, hash)
           \/ UNCHANGED vars
  <2>1. UNCHANGED <<incident, nplans, queue>>
    BY <1>7 DEF DecideCheck, Refuse, Expire, ReviseRead, DecideRead, Open, db, vars
  <2> QED  BY <2>1, SameQueue
<1> QED  BY <1>1, <1>2, <1>3, <1>4, <1>5, <1>6, <1>7, NextSplit DEF Outside

\* Every step keeps the flow in order.
LEMMA FlowOKStep == ASSUME TypeOK, RequestsOK, FlowOK, [Next]_vars PROVE FlowOK'
<1>0. /\ nplans \in Nat /\ approvals \in [PlanIds -> Approval]
      /\ incident.state \in States
  BY RemediationConstants DEF TypeOK
<1>1. CASE UNCHANGED <<incident, nplans, approvals>>
  BY <1>1 DEF FlowOK
<1>2. CASE Moved
  <2>1. incident'.state \in {"EXECUTING", "VERIFYING"} => incident.state \in {"EXECUTING", "VERIFYING"}
    BY <1>2 DEF Moved, Decided, Terminal
  <2> QED  BY <1>2, <2>1 DEF Moved, FlowOK
<1>3. CASE Submitted
  <2>1. PICK from \in States, version \in Nat, who \in People \cup {Planner},
             n \in 0..MaxActions, verdict \in Verdicts : Submit(from, version, who, n, verdict)
    BY <1>3 DEF Submitted
  <2>2. nplans' = nplans + 1 /\ UNCHANGED approvals /\ incident'.state = AfterReview(verdict)
    BY <2>1 DEF Submit
  <2>3. incident'.state \in {"ESCALATED", "AWAITING_APPROVAL", "EXECUTING"}
    BY <2>2 DEF AfterReview, Verdicts
  <2>4. \A p \in PlanIds : p >= nplans + 1 => p > nplans
    BY <1>0 DEF PlanIds
  <2> QED  BY <1>0, <2>2, <2>3, <2>4 DEF FlowOK, PlanIds
<1>4. ASSUME NEW q \in requests, DecideWrite(q) PROVE FlowOK'
  <2>1. /\ UNCHANGED nplans /\ incident.state = "AWAITING_APPROVAL"
        /\ incident'.state \in {"EXECUTING", "ESCALATED"}
        /\ q.op = "decide"
    BY <1>4 DEF DecideWrite, Transition, Current
  <2>2. q.plan \in 1..nplans
    BY <2>1 DEF RequestsOK, RequestOK
  <2>3. \A p \in PlanIds : p > nplans => approvals'[p] = approvals[p]
    BY <1>0, <1>4, <2>2 DEF DecideWrite, PlanIds
  <2> QED  BY <1>0, <2>1, <2>3 DEF FlowOK
<1> QED  BY <1>1, <1>2, <1>3, <1>4, FlowStep

\* An incident never goes back, and neither do the jobs.
LEMMA RankStep ==
    ASSUME TypeOK, [Next]_vars
    PROVE  /\ Rank(incident.state) \in Nat /\ Rank(incident'.state) \in Nat
           /\ Rank(incident.state) <= Rank(incident'.state)
<1>0. \A s : Rank(s) \in Nat
  BY DEF Rank
<1>1. CASE Submitted
  <2>1. PICK from \in States, version \in Nat, who \in People \cup {Planner},
             n \in 0..MaxActions, verdict \in Verdicts : Submit(from, version, who, n, verdict)
    BY <1>1 DEF Submitted
  <2>2. /\ incident.state \in {"DIAGNOSED", "AWAITING_APPROVAL"}
        /\ incident'.state = AfterReview(verdict)
    BY <2>1 DEF Submit, Allowed, Current
  <2>3. incident'.state \in {"ESCALATED", "AWAITING_APPROVAL", "EXECUTING"}
    BY <2>2 DEF AfterReview, Verdicts
  <2> QED  BY <1>0, <2>2, <2>3, Ranks
<1>2. ASSUME NEW q \in requests, DecideWrite(q) PROVE Rank(incident.state) <= Rank(incident'.state)
  <2>1. incident.state = "AWAITING_APPROVAL" /\ incident'.state \in {"EXECUTING", "ESCALATED"}
    BY <1>2 DEF DecideWrite, Transition, Current
  <2> QED  BY <2>1, Ranks
<1>3. CASE Moved
  BY <1>0, <1>3 DEF Moved
<1> QED  BY <1>0, <1>1, <1>2, <1>3, FlowStep

\* Once begun, a job stays begun; once over, over.
LEMMA ProgressStep ==
    ASSUME TypeOK, [Next]_vars, NEW j \in Jobs
    PROVE  /\ Begun(j) => Begun(j)'
           /\ Over(j) => Over(j)'
<1>1. nplans \in Nat /\ nplans' \in Nat /\ nplans <= nplans'
  BY PlansStep, RemediationConstants DEF PlansKept, TypeOK
<1>2. j.plan \in Nat /\ First(j.kind) \in Nat /\ Last(j.kind) \in Nat
  BY Ranks DEF Jobs, Job, PlanIds
<1> QED  BY <1>1, <1>2, RankStep DEF Begun, Over, Superseded

\* A job is enqueued when the incident has got to it and done when the incident
\* has got past it, although a run that returns has often found nothing to do.
JobsOK ==
    \A j \in Jobs : /\ queue[j].status # "absent" => Begun(j)
                    /\ queue[j].status = "done" => Over(j)
ReturnsOK ==
    \A r \in runs : /\ queue[r.job].status # "absent"
                    /\ r.pc = "return" => Over(r.job)

\* A run returns when the incident has got past its job.
LEMMA ReturnStep ==
    ASSUME TypeOK, FlowOK, JobsOK, ReturnsOK, [Next]_vars,
           NEW t \in runs', t \notin runs, t.pc = "return"
    PROVE  Over(t.job)'
<1>0. /\ runs \subseteq Run /\ incident.state \in States /\ nplans \in Nat
      /\ incident.state \notin {"PLANNED", "SAFETY_REVIEWED"}
  BY RemediationConstants DEF TypeOK, FlowOK
<1>1. ASSUME NEW r \in runs
      PROVE  r.job \in Jobs /\ Begun(r.job) /\ r.job.plan \in Nat
  BY <1>0 DEF ReturnsOK, JobsOK, Run, Jobs, Job, PlanIds
\* A handler that finds nothing to do.
<1>2. ASSUME NEW r \in runs, NEW here, Last(r.job.kind) = Rank(here), First(r.job.kind) = Rank(here),
             here \in {"RECEIVED", "DIAGNOSED", "AWAITING_APPROVAL", "EXECUTING", "VERIFYING"},
             incident.state # here
      PROVE  Over(r.job)
  <2>1. Superseded(r.job) \/ Rank(here) <= Rank(incident.state)
    BY <1>1, <1>2 DEF Begun
  <2>2. Rank(here) # Rank(incident.state)
    BY <1>0, <1>2, Ranks DEF States, Terminal
  <2>3. Rank(here) \in Nat /\ Rank(incident.state) \in Nat
    BY DEF Rank
  <2> QED  BY <1>2, <2>1, <2>2, <2>3 DEF Over
\* A handler that moves the incident on.
<1>3. ASSUME NEW r \in runs, Last(r.job.kind) < Rank(incident'.state)
      PROVE  Over(r.job)'
  BY <1>3 DEF Over
<1>4. ASSUME NEW r \in runs, Over(r.job) PROVE Over(r.job)'
  BY <1>1, <1>4, ProgressStep
<1>5. ASSUME NEW r \in runs, NEW pc, Goto(r, pc)
      PROVE  t.job = r.job /\ pc = "return"
  <2>1. t = [r EXCEPT !.pc = pc]
    BY <1>5 DEF Goto
  <2> QED  BY <1>0, <2>1 DEF Run
<1>6. ASSUME NEW r \in runs, Elsewhere(r) PROVE Over(t.job)'
  <2>1. CASE Triage(r)
    <3>1. r.job.kind = "triage" /\ t.job = r.job
      BY <1>5, <2>1 DEF Triage, Tx
    <3>2. CASE incident.state = "RECEIVED"
      <4>1. incident'.state = "TRIAGED"
        BY <2>1, <3>2 DEF Triage, Transition
      <4> QED  BY <1>3, <3>1, <4>1, Ranks
    <3>3. CASE incident.state # "RECEIVED"
      BY <1>2, <1>4, <3>1, <3>3, Ranks
    <3> QED  BY <3>2, <3>3
  <2>2. CASE InvestigateBegin(r)
    <3>1. PICK pc \in {"think", "return"} :
             /\ runs' = (runs \ {r}) \cup {[r EXCEPT !.pc = pc, !.version = incident'.version]}
             /\ pc = "return" => incident.state \notin {"TRIAGED", "INVESTIGATING"}
      BY <2>2 DEF InvestigateBegin
    <3>2. t = [r EXCEPT !.pc = pc, !.version = incident'.version]
      BY <3>1
    <3>3. t.job = r.job /\ pc = "return" /\ r.job.kind = "investigate" /\ r.job.plan = 0
      BY <1>0, <2>2, <3>2 DEF InvestigateBegin, Tx, Run, Jobs, Job
    <3>4. First("investigate") <= Rank(incident.state)
      BY <1>1, <3>3 DEF Begun, Superseded
    <3>5. Last("investigate") < Rank(incident.state)
      BY <1>0, <3>1, <3>3, <3>4, Ranks DEF States, Terminal
    <3>6. Over(r.job)
      BY <3>3, <3>5 DEF Over
    <3> QED  BY <1>4, <3>3, <3>6
  <2>3. CASE InvestigateEnd(r)
    <3>1. /\ r.job.kind = "investigate" /\ t.job = r.job
          /\ incident'.state \in {"DIAGNOSED", "ESCALATED"}
      BY <1>5, <2>3 DEF InvestigateEnd, Tx, Transition
    <3> QED  BY <1>3, <3>1, Ranks
  <2>4. CASE PlanRead(r)
    <3>1. /\ r.job.kind = "plan" /\ t.job = r.job
          /\ incident.state # "DIAGNOSED"
      BY <1>5, <2>4 DEF PlanRead, Unfenced
    <3> QED  BY <1>2, <1>4, <3>1, Ranks
  <2>5. CASE PlanSubmit(r)
    <3>1. r.job.kind = "plan" /\ t.job = r.job
      BY <1>5, <2>5 DEF PlanSubmit, Tx
    <3>2. CASE incident.state = "DIAGNOSED"
      <4>1. incident'.state \in {"ESCALATED", "AWAITING_APPROVAL", "EXECUTING"}
        <5>1. ASSUME NEW k, NEW verdict \in Verdicts,
                     Submit("DIAGNOSED", incident.version, Planner, k, verdict)
              PROVE  incident'.state \in {"ESCALATED", "AWAITING_APPROVAL", "EXECUTING"}
          <6>1. incident'.state = AfterReview(verdict)
            BY <5>1 DEF Submit
          <6> QED  BY <6>1 DEF AfterReview, Verdicts
        <5> QED  BY <2>5, <3>2, <5>1 DEF PlanSubmit, Transition
      <4> QED  BY <1>3, <3>1, <4>1, Ranks
    <3>3. CASE incident.state # "DIAGNOSED"
      BY <1>2, <1>4, <3>1, <3>3, Ranks
    <3> QED  BY <3>2, <3>3
  <2>6. CASE ApprovalTimeout(r)
    <3>1. r.job.kind = "approval_timeout" /\ t.job = r.job
      BY <1>5, <2>6 DEF ApprovalTimeout, Tx
    <3>2. CASE incident.state # "AWAITING_APPROVAL"
      BY <1>2, <1>4, <3>1, <3>2, Ranks
    <3>3. CASE /\ incident.state = "AWAITING_APPROVAL"
               /\ nplans = r.job.plan /\ approvals[nplans] = Undecided
      <4>1. incident'.state = "ESCALATED"
        BY <2>6, <3>3 DEF ApprovalTimeout, Transition
      <4> QED  BY <1>3, <3>1, <4>1, Ranks
    <3>4. CASE incident.state = "AWAITING_APPROVAL" /\ nplans # r.job.plan
      <4>1. r.job.plan # 0 /\ r.job.plan <= nplans
        BY <1>1, <3>1, JobShape DEF Begun, PlanIds
      <4>2. Over(r.job)
        BY <1>0, <1>1, <3>4, <4>1 DEF Over, Superseded
      <4> QED  BY <1>4, <3>1, <4>2
    <3>5. CASE /\ incident.state = "AWAITING_APPROVAL"
               /\ nplans = r.job.plan /\ approvals[nplans] # Undecided
      <4>1. nplans \in PlanIds
        BY <1>1, <3>1, <3>5, JobShape
      <4> QED  BY <3>5, <4>1 DEF FlowOK
    <3> QED  BY <3>2, <3>3, <3>4, <3>5
  <2>7. CASE VerifyRead(r)
    <3>1. /\ r.job.kind = "verify" /\ t.job = r.job
          /\ incident.state # "VERIFYING"
      BY <1>5, <2>7 DEF VerifyRead, Unfenced
    <3> QED  BY <1>2, <1>4, <3>1, Ranks
  <2>8. CASE Verified(r)
    <3>1. r.job.kind = "verify" /\ t.job = r.job
      BY <1>5, <2>8 DEF Verified, Tx
    <3>2. CASE incident.state = "VERIFYING"
      <4>1. incident'.state \in {"RESOLVED", "ESCALATED"}
        BY <2>8, <3>2 DEF Verified, Transition, Terminal
      <4> QED  BY <1>3, <3>1, <4>1, Ranks
    <3>3. CASE incident.state # "VERIFYING"
      BY <1>2, <1>4, <3>1, <3>3, Ranks
    <3> QED  BY <3>2, <3>3
  <2>9. CASE Executed(r)
    <3>1. r.job.kind = "execute" /\ t.job = r.job
      BY <1>5, <2>9 DEF Executed, ExecTx, Tx
    <3>2. CASE incident.state = "EXECUTING"
      <4>1. incident'.state = "VERIFYING"
        BY <2>9, <3>2 DEF Executed, Transition
      <4> QED  BY <1>3, <3>1, <4>1, Ranks
    <3>3. CASE incident.state # "EXECUTING"
      BY <1>2, <1>4, <3>1, <3>3, Ranks
    <3> QED  BY <3>2, <3>3
  <2>10. CASE Escalate(r)
    <3>1. r.job.kind = "execute" /\ t.job = r.job
      BY <1>5, <2>10 DEF Escalate, ExecTx, Tx
    <3>2. incident'.state \in {"RESOLVED", "ESCALATED"}
      BY <2>10 DEF Escalate, Transition, Terminal
    <3> QED  BY <1>3, <3>1, <3>2, Ranks
  <2>11. CASE Return(r) \/ RunFails(r) \/ Release(r) \/ RunVanishes(r)
    BY <2>11 DEF Return, RunFails, Release, RunVanishes
  <2> QED  BY <1>6, <2>1, <2>2, <2>3, <2>4, <2>5, <2>6, <2>7, <2>8, <2>9, <2>10, <2>11 DEF Elsewhere
<1>7. ASSUME NEW r \in runs, ExecStep(r) PROVE Over(t.job)'
  <2>0. r \in Run
    BY <1>0
  <2>1. CASE ExecuteRead(r)
    <3>1. CASE incident.state # "EXECUTING"
      <4>1. r.job.kind = "execute" /\ t.job = r.job
        BY <1>5, <2>1, <3>1 DEF ExecuteRead, Unfenced
      <4> QED  BY <1>2, <1>4, <3>1, <4>1, Ranks
    <3>2. CASE incident.state = "EXECUTING"
      <4>1. PICK verdict \in Verdicts :
               t = [r EXCEPT !.pc = IF Refused(r, nplans, verdict) THEN "escalate" ELSE "action",
                             !.plan = nplans, !.review = verdict, !.act = 1]
        BY <2>1, <3>2 DEF ExecuteRead
      <4>2. t.pc \in {"escalate", "action"}
        BY <2>0, <4>1 DEF Run
      <4> QED  BY <4>2
    <3> QED  BY <3>1, <3>2
  <2>2. CASE ActionRead(r) \/ Prepare(r) \/ AuditSucceeded(r)
    <3>1. \/ \E pc \in {"verifying", "mark_unknown", "prepare", "escalate", "record_failed"} : Goto(r, pc)
          \/ r.pc = "action" /\ t = [r EXCEPT !.act = r.act + 1]
          \/ \E noop \in BOOLEAN : t = [r EXCEPT !.pc = "record", !.noop = noop]
          \/ t = [r EXCEPT !.pc = "action", !.act = r.act + 1]
      BY <2>2 DEF ActionRead, Prepare, AuditSucceeded, Audit, Unfenced
    <3>2. CASE \E pc \in {"verifying", "mark_unknown", "prepare", "escalate", "record_failed"} : Goto(r, pc)
      BY <1>5, <3>2
    <3>3. CASE \/ r.pc = "action" /\ t = [r EXCEPT !.act = r.act + 1]
               \/ \E noop \in BOOLEAN : t = [r EXCEPT !.pc = "record", !.noop = noop]
               \/ t = [r EXCEPT !.pc = "action", !.act = r.act + 1]
      <4>1. t.pc # "return"
        BY <2>0, <3>3 DEF Run
      <4> QED  BY <4>1
    <3> QED  BY <3>1, <3>2, <3>3
  <2>3. CASE \/ MarkUnknown(r) \/ RecordFailed(r) \/ RecordStarted(r) \/ AuditStarted(r) \/ Patch(r)
             \/ FinishSucceeded(r) \/ FinishFailed(r) \/ FinishUnknown(r)
    <3>1. \E pc \in {"escalate", "audit_started", "patch", "finish_succeeded", "finish_failed",
                     "finish_error", "finish_unknown", "audit_succeeded"} : Goto(r, pc)
      BY <2>3 DEF MarkUnknown, RecordFailed, RecordStarted, Record, AuditStarted, Audit, Goto, Patch,
                  FinishSucceeded, FinishFailed, FinishUnknown, Finish
    <3> QED  BY <1>5, <3>1
  <2> QED  BY <1>7, <2>1, <2>2, <2>3 DEF ExecStep
<1>8. ASSUME Outside PROVE Over(t.job)'
  <2>1. ASSUME NEW j \in Jobs, Claim(j) PROVE t.pc = "start"
    BY <2>1 DEF Claim
  <2>2. CASE ~\E j \in Jobs : Claim(j)
    BY <1>8, <2>2 DEF Outside, Reap, ReviseRead, DecideRead, Open, ReviseWrite, DecideCheck,
                      DecideWrite, Refuse, rest, Expire
  <2> QED  BY <2>1, <2>2
<1>9. CASE UNCHANGED vars
  BY <1>9 DEF vars
<1> QED  BY <1>6, <1>7, <1>8, <1>9, NextSplit

\* Every step keeps the claims numbered.
LEMMA EpochsStep ==
    ASSUME TypeOK, EpochsOK, [Next]_vars, QueueKept \/ \E j \in Jobs : Claim(j)
    PROVE  EpochsOK'
<1>0. /\ queue \in [Jobs -> JobState] /\ \A r \in runs : r.job \in Jobs /\ r.epoch \in Nat
      /\ \A j \in Jobs : queue[j].epoch \in Nat
  BY DEF TypeOK, Run, JobState
<1>1. CASE \E j \in Jobs : Claim(j)
  <2>1. PICK j \in Jobs : Claim(j)
    BY <1>1
  <2> DEFINE c == [job |-> j, epoch |-> queue[j].epoch + 1, pc |-> "start",
                   plan |-> 0, review |-> "none", act |-> 0, version |-> 0, noop |-> FALSE]
  <2>2. runs' = runs \cup {c} /\ c.job = j /\ c.epoch = queue[j].epoch + 1
    BY <2>1 DEF Claim
  <2>3. /\ queue'[j].epoch = queue[j].epoch + 1 /\ queue'[j].status = "running"
        /\ \A i \in Jobs \ {j} : queue'[i] = queue[i]
    BY <1>0, <2>1 DEF Claim
  <2> HIDE DEF c
  <2>4. \A r \in runs : r.job = j => r.epoch < c.epoch
    BY <1>0, <2>2 DEF EpochsOK
  <2>5. \A i \in Jobs : queue'[i].status = "absent" => queue'[i].epoch = 0
    BY <2>3 DEF EpochsOK
  <2>6. \A r \in runs' : 0 < r.epoch /\ r.epoch <= queue'[r.job].epoch
    <3>1. ASSUME NEW r \in runs PROVE 0 < r.epoch /\ r.epoch <= queue'[r.job].epoch
      <4>1. 0 < r.epoch /\ r.epoch <= queue[r.job].epoch
        BY DEF EpochsOK
      <4>2. CASE r.job = j
        BY <1>0, <2>3, <4>1, <4>2
      <4>3. CASE r.job # j
        BY <1>0, <2>3, <4>1, <4>3
      <4> QED  BY <4>2, <4>3
    <3>2. 0 < c.epoch /\ c.epoch <= queue'[c.job].epoch
      BY <1>0, <2>2, <2>3
    <3> QED  BY <2>2, <3>1, <3>2
  <2>7. \A r, t \in runs' : r.job = t.job /\ r.epoch = t.epoch => r = t
    BY <1>0, <2>2, <2>4 DEF EpochsOK
  <2> QED  BY <2>5, <2>6, <2>7 DEF EpochsOK
<1>2. CASE QueueKept
  <2>1. \A j \in Jobs : queue'[j].status = "absent" => queue'[j].epoch = 0
    BY <1>2 DEF QueueKept, EpochsOK
  <2>2. CASE runs' \subseteq runs
    <3>1. \A r \in runs' : 0 < r.epoch /\ r.epoch <= queue'[r.job].epoch
      BY <1>0, <1>2, <2>2 DEF QueueKept, EpochsOK
    <3> QED  BY <2>1, <2>2, <3>1 DEF EpochsOK
  <2>3. ASSUME NEW r \in runs, NEW t, GoesOn(r, t) PROVE EpochsOK'
    <3>1. \A u \in runs' : 0 < u.epoch /\ u.epoch <= queue'[u.job].epoch
      BY <1>0, <1>2, <2>3 DEF GoesOn, QueueKept, EpochsOK
    <3>2. \A u, v \in runs' : u.job = v.job /\ u.epoch = v.epoch => u = v
      BY <2>3 DEF GoesOn, EpochsOK
    <3> QED  BY <2>1, <3>1, <3>2 DEF EpochsOK
  <2>4. CASE \E j \in Jobs : Claim(j)
    BY <1>0, <1>2, <2>4 DEF Claim, QueueKept
  <2> QED  BY <2>2, <2>3, <2>4, MoveStep
<1> QED  BY <1>1, <1>2

\* Every step keeps the jobs in order.
LEMMA JobsStep ==
    ASSUME TypeOK, JobsOK, ReturnsOK, [Next]_vars, QueueKept \/ \E j \in Jobs : Claim(j)
    PROVE  JobsOK'
<1> SUFFICES ASSUME NEW j \in Jobs
             PROVE  /\ queue'[j].status # "absent" => Begun(j)'
                    /\ queue'[j].status = "done" => Over(j)'
  BY DEF JobsOK
<1>0. (Begun(j) => Begun(j)') /\ (Over(j) => Over(j)')
  BY ProgressStep
<1>1. CASE QueueKept
  BY <1>0, <1>1 DEF QueueKept, JobsOK, ReturnsOK
<1>2. CASE \E i \in Jobs : Claim(i)
  <2>1. PICK i \in Jobs : Claim(i)
    BY <1>2
  <2>2. queue'[j] = queue[j] \/ (queue[j].status = "queued" /\ queue'[j].status = "running")
    BY <2>1 DEF Claim, TypeOK
  <2> QED  BY <1>0, <2>2 DEF JobsOK
<1> QED  BY <1>1, <1>2

\* Every step keeps the returning runs in order.
LEMMA ReturnsStep ==
    ASSUME TypeOK, FlowOK, JobsOK, ReturnsOK, [Next]_vars, QueueKept \/ \E j \in Jobs : Claim(j)
    PROVE  ReturnsOK'
<1>0. queue \in [Jobs -> JobState] /\ \A r \in runs : r.job \in Jobs
  BY DEF TypeOK, Run
<1>1. \A r \in runs' : r.pc = "return" => Over(r.job)'
  BY <1>0, ReturnStep, ProgressStep DEF ReturnsOK
<1>2. \A j \in Jobs : queue'[j].status = "absent" => queue[j].status = "absent"
  BY <1>0 DEF QueueKept, Claim
<1>3. ASSUME NEW t \in runs' PROVE queue'[t.job].status # "absent"
  <2>1. CASE t \in runs
    BY <1>0, <1>2, <2>1 DEF ReturnsOK
  <2>2. ASSUME NEW r \in runs, NEW u, GoesOn(r, u), t \notin runs PROVE queue'[t.job].status # "absent"
    <3>1. t = u /\ u.job = r.job
      BY <2>2 DEF GoesOn
    <3> QED  BY <1>0, <1>2, <3>1 DEF ReturnsOK
  <2>3. ASSUME NEW j \in Jobs, Claim(j), t \notin runs PROVE queue'[t.job].status # "absent"
    BY <1>0, <2>3 DEF Claim
  <2> QED  BY <2>1, <2>2, <2>3, MoveStep
<1> QED  BY <1>1, <1>3 DEF ReturnsOK

\* What keeps an open incident on its way.
DrivenInv == SeenOK /\ RunsCleared /\ EpochsOK /\ FlowOK /\ Driven /\ JobsOK /\ ReturnsOK

\* It holds of a new incident,
LEMMA DrivenInit == Init => DrivenInv
<1> SUFFICES ASSUME Init PROVE DrivenInv
  OBVIOUS
<1>1. SeenOK /\ RunsCleared
  BY DEF Init, SeenOK, RunsCleared, Undecided
<1>2. EpochsOK
  BY DEF Init, EpochsOK, Absent, Queued
<1>3. FlowOK
  BY DEF Init, FlowOK
<1>4. Driven
  BY JobFacts DEF Init, Driven, Driver, Queued
<1>5. JobsOK
  <2> SUFFICES ASSUME NEW j \in Jobs PROVE /\ queue[j].status # "absent" => Begun(j)
                                           /\ queue[j].status # "done"
    BY DEF JobsOK
  <2>1. CASE j = Job("triage", 0)
    <3>1. j.kind = "triage" /\ j.plan = 0 /\ queue[j].status = "queued"
      BY <2>1, JobFacts DEF Init, Queued, Job
    <3>2. incident.state = "RECEIVED" /\ nplans = 0
      BY DEF Init
    <3> QED  BY <3>1, <3>2, Ranks DEF Begun
  <2>2. CASE j # Job("triage", 0)
    BY <2>2 DEF Init, Absent
  <2> QED  BY <2>1, <2>2
<1>6. ReturnsOK
  BY DEF Init, ReturnsOK
<1> QED  BY <1>1, <1>2, <1>3, <1>4, <1>5, <1>6 DEF DrivenInv

\* every step keeps it,
LEMMA DrivenStep == Inv /\ DrivenInv /\ [Next]_vars => DrivenInv'
<1> SUFFICES ASSUME Inv, DrivenInv, [Next]_vars PROVE DrivenInv'
  OBVIOUS
<1>0. /\ TypeOK /\ RunsOK /\ RequestsOK
      /\ SeenOK /\ RunsCleared /\ EpochsOK /\ FlowOK /\ Driven /\ JobsOK /\ ReturnsOK
  BY DEF Inv, DrivenInv
<1>1. (QueueKept \/ \E j \in Jobs : Claim(j)) /\ Driven'
  BY <1>0, QueueStep
<1>2. SeenOK' /\ RunsCleared' /\ FlowOK'
  BY <1>0, SeenStep, ClearedStep, FlowOKStep
<1>3. EpochsOK' /\ JobsOK' /\ ReturnsOK'
  BY <1>0, <1>1, EpochsStep, JobsStep, ReturnsStep
<1> QED  BY <1>1, <1>2, <1>3 DEF DrivenInv

\* and so it always holds.
LEMMA DrivenHolds == Spec => []DrivenInv
BY DrivenInit, DrivenStep, InvHolds, PTL DEF Spec

\* Whatever dies, stalls, is handed back or runs twice: an open incident always
\* has the job that moves it on, waiting, running or given up, and never done.
THEOREM NoIncidentForgotten == Spec => []NeverForgotten
<1>1. ASSUME TypeOK, FlowOK, Driven, JobsOK PROVE NeverForgotten
  <2> SUFFICES ASSUME incident.state \notin Terminal
               PROVE  queue[Driver].status \in {"queued", "running", "dead"}
    BY DEF NeverForgotten
  <2>1. PICK j : j = Driver
    OBVIOUS
  <2>2. incident.state \in States \ Terminal
    BY <1>1 DEF TypeOK
  <2>3. incident.state \in {"AWAITING_APPROVAL", "EXECUTING", "VERIFYING"} => nplans \in PlanIds
    BY <1>1, RemediationConstants DEF FlowOK, TypeOK, PlanIds
  <2>4. j \in Jobs
    BY <1>1, <2>1, <2>2, <2>3, JobFacts DEF FlowOK, Driver, States
  <2>5. ~Over(j)
    <3>1. nplans \in Nat
      BY <1>1, RemediationConstants DEF TypeOK
    <3>2. j.plan \in {0, nplans} /\ ~(Last(j.kind) < Rank(incident.state))
      BY <1>1, <2>1, <2>2, Ranks DEF FlowOK, Driver, Job, States
    <3> QED  BY <3>1, <3>2 DEF Over, Superseded
  <2>6. queue[j].status \notin {"absent", "done"}
    BY <1>1, <2>1, <2>4, <2>5 DEF Driven, JobsOK
  <2>7. queue[j] \in JobState
    BY <1>1, <2>4 DEF TypeOK
  <2> QED  BY <2>1, <2>6, <2>7 DEF JobState
<1>2. Inv /\ DrivenInv => NeverForgotten
  BY <1>1 DEF Inv, DrivenInv
<1> QED  BY <1>2, InvHolds, DrivenHolds, PTL

-----------------------------------------------------------------------------
(* What the executions table says                                          *)

\* A run that owns its job now owned it before: a claim has a new number.
LEMMA OwnsStep ==
    ASSUME TypeOK, EpochsOK, QueueKept \/ \E j \in Jobs : Claim(j), NEW r \in runs, Owns(r)'
    PROVE  Owns(r)
<1>0. /\ queue \in [Jobs -> JobState] /\ r.job \in Jobs /\ r.epoch \in Nat
      /\ queue[r.job].epoch \in Nat /\ r.epoch <= queue[r.job].epoch
  BY DEF TypeOK, Run, JobState, EpochsOK
<1>1. CASE QueueKept
  BY <1>0, <1>1 DEF QueueKept, Owns
<1>2. ASSUME NEW j \in Jobs, Claim(j) PROVE Owns(r)
  <2>1. CASE j = r.job
    BY <1>0, <1>2, <2>1 DEF Claim, Owns
  <2>2. CASE j # r.job
    BY <1>0, <1>2, <2>2 DEF Claim, Owns
  <2> QED  BY <2>1, <2>2
<1> QED  BY <1>1, <1>2

\* Two runs at an action that both own their job are the same run, if they are
\* at the same action: it belongs to one plan, and the plan to one job.
LEMMA OneOwner ==
    ASSUME TypeOK, RunsOK, EpochsOK, NEW r \in runs, NEW t \in runs, Owns(r), Owns(t),
           r.pc \in ActionPcs, t.pc \in ActionPcs, Step(r) = Step(t)
    PROVE  r = t
<1>1. /\ r.job.kind = "execute" /\ r.plan = r.job.plan
      /\ t.job.kind = "execute" /\ t.plan = t.job.plan
  BY DEF RunsOK, RunOK
<1>2. r.plan = t.plan
  BY DEF Step
<1>3. r.job = t.job
  <2>1. r.job \in Jobs /\ t.job \in Jobs
    BY DEF TypeOK, Run
  <2> QED  BY <1>1, <1>2, <2>1, JobShape
<1> QED  BY <1>3 DEF Owns, EpochsOK

\* Run r writes the row of its action and goes on at pc.
Writes(r, status, pc) ==
    /\ executions' = [executions EXCEPT ![Step(r)] = status]
    /\ Owns(r) /\ Goto(r, pc) /\ UNCHANGED <<landed, queue>>
    /\ \/ r.pc = "mark_unknown" /\ status = "unknown" /\ pc = "escalate"
       \/ r.pc = "record_failed" /\ executions[Step(r)] = "none" /\ status = "failed" /\ pc = "escalate"
       \/ r.pc = "record" /\ executions[Step(r)] = "none" /\ status = "started" /\ pc = "audit_started"
       \/ r.pc = "finish_succeeded" /\ status = "succeeded" /\ pc = "audit_succeeded"
       \/ r.pc = "finish_failed" /\ status = "failed" /\ pc = "escalate"
       \/ r.pc = "finish_error" /\ status = "server_error" /\ pc = "escalate"
       \/ r.pc = "finish_unknown" /\ status = "unknown" /\ pc = "escalate"

\* Who writes a row, and when.
LEMMA WriteStep ==
    ASSUME TypeOK, [Next]_vars
    PROVE  UNCHANGED executions \/ \E r \in runs, status \in Execution, pc \in Pcs : Writes(r, status, pc)
<1>1. ASSUME NEW r \in runs, ExecStep(r), ~UNCHANGED executions
      PROVE  \E status \in Execution, pc \in Pcs : Writes(r, status, pc)
  <2>1. /\ "unknown" \in Execution /\ "failed" \in Execution /\ "started" \in Execution
        /\ "succeeded" \in Execution /\ "server_error" \in Execution
        /\ "escalate" \in Pcs /\ "audit_started" \in Pcs /\ "audit_succeeded" \in Pcs
    BY DEF Execution, Pcs
  <2>2. CASE MarkUnknown(r)
    <3>1. Writes(r, "unknown", "escalate")
      BY <2>2 DEF MarkUnknown, ExecTx, Tx, Writes
    <3> QED  BY <2>1, <3>1
  <2>3. CASE RecordFailed(r)
    <3>1. Writes(r, "failed", "escalate")
      BY <2>3 DEF RecordFailed, Record, ExecTx, Tx, Writes
    <3> QED  BY <2>1, <3>1
  <2>4. CASE RecordStarted(r)
    <3>1. Writes(r, "started", "audit_started")
      BY <2>4 DEF RecordStarted, Record, ExecTx, Tx, Writes
    <3> QED  BY <2>1, <3>1
  <2>5. CASE FinishSucceeded(r)
    <3>1. Writes(r, "succeeded", "audit_succeeded")
      BY <2>5 DEF FinishSucceeded, Finish, ExecTx, Tx, Writes
    <3> QED  BY <2>1, <3>1
  <2>6. CASE FinishFailed(r)
    <3>1. Writes(r, "failed", "escalate") \/ Writes(r, "server_error", "escalate")
      BY <2>6 DEF FinishFailed, Finish, ExecTx, Tx, Writes
    <3> QED  BY <2>1, <3>1
  <2>7. CASE FinishUnknown(r)
    <3>1. Writes(r, "unknown", "escalate")
      BY <2>7 DEF FinishUnknown, Finish, ExecTx, Tx, Writes
    <3> QED  BY <2>1, <3>1
  <2>8. CASE ExecuteRead(r) \/ ActionRead(r) \/ Prepare(r) \/ Patch(r) \/ AuditStarted(r) \/ AuditSucceeded(r)
    BY <1>1, <2>8 DEF ExecuteRead, ActionRead, Prepare, Patch, AuditStarted, AuditSucceeded, Audit,
                      Unfenced, db
  <2> QED  BY <1>1, <2>2, <2>3, <2>4, <2>5, <2>6, <2>7, <2>8 DEF ExecStep
<1>2. CASE UNCHANGED vars
  BY <1>2 DEF vars
<1> QED  BY <1>1, <1>2, NextSplit, ElsewhereStep, OutsideStep

\* Who changes the cluster, and when.
LEMMA LandStep ==
    ASSUME TypeOK, [Next]_vars
    PROVE  \/ UNCHANGED landed
           \/ \E r \in runs, pc \in {"finish_succeeded", "finish_error", "finish_unknown"} :
                 /\ r.pc = "patch" /\ Goto(r, pc) /\ UNCHANGED executions
                 /\ landed' = [landed EXCEPT ![Step(r)] = @ + 1]
<1>1. ASSUME NEW r \in runs, ExecStep(r), ~UNCHANGED landed
      PROVE  \E pc \in {"finish_succeeded", "finish_error", "finish_unknown"} :
                 /\ r.pc = "patch" /\ Goto(r, pc) /\ UNCHANGED executions
                 /\ landed' = [landed EXCEPT ![Step(r)] = @ + 1]
  <2>1. Patch(r)
    BY <1>1 DEF ExecStep, ExecuteRead, ActionRead, Prepare, MarkUnknown, RecordFailed, RecordStarted,
                Record, AuditStarted, AuditSucceeded, Audit, FinishSucceeded, FinishFailed,
                FinishUnknown, Finish, ExecTx, Tx
  <2> QED  BY <1>1, <2>1 DEF Patch, Unfenced, db
<1>2. CASE UNCHANGED vars
  BY <1>2 DEF vars
<1> QED  BY <1>1, <1>2, NextSplit, ElsewhereStep, OutsideStep

\* A run about to write an outcome that owns its job finds the row as it, or
\* the run that died before it, left it.
OwnersRow ==
    \A r \in runs : Owns(r) /\ r.pc \in Carrying \cup {"mark_unknown"} => executions[Step(r)] = "started"

\* Where the run that goes on to write an outcome comes from.
LEMMA CarrierStep ==
    ASSUME TypeOK, RunsOK, [Next]_vars, NEW t \in runs', t \notin runs,
           t.pc \in Carrying \cup {"mark_unknown"}
    PROVE  \/ executions'[Step(t)] = "started"
           \/ \E r \in runs : /\ r.pc \in Carrying /\ Step(t) = Step(r)
                              /\ t.job = r.job /\ t.epoch = r.epoch
                              /\ UNCHANGED <<executions, queue>>
<1>0. runs \subseteq Run /\ t.pc \in ActionPcs
  BY DEF TypeOK, Carrying, ActionPcs
<1>1. ASSUME NEW r \in runs, NEW pc, Goto(r, pc)
      PROVE  t.pc = pc /\ Step(t) = Step(r) /\ t.job = r.job /\ t.epoch = r.epoch
  <2>1. t = [r EXCEPT !.pc = pc]
    BY <1>1 DEF Goto
  <2> QED  BY <1>0, <2>1 DEF Run, Step
<1>2. ASSUME NEW r \in runs, ExecStep(r)
      PROVE  \/ executions'[Step(t)] = "started"
             \/ /\ r.pc \in Carrying /\ Step(t) = Step(r)
                /\ t.job = r.job /\ t.epoch = r.epoch
                /\ UNCHANGED <<executions, queue>>
  <2>0. r \in Run
    BY <1>0
  <2>1. CASE ExecuteRead(r)
    <3>1. CASE incident.state # "EXECUTING"
      BY <1>0, <1>1, <2>1, <3>1 DEF ExecuteRead, ActionPcs
    <3>2. CASE incident.state = "EXECUTING"
      <4>1. PICK verdict \in Verdicts :
               t = [r EXCEPT !.pc = IF Refused(r, nplans, verdict) THEN "escalate" ELSE "action",
                             !.plan = nplans, !.review = verdict, !.act = 1]
        BY <2>1, <3>2 DEF ExecuteRead
      <4>2. t.pc \in {"escalate", "action"}
        BY <2>0, <4>1 DEF Run
      <4> QED  BY <4>2 DEF Carrying
    <3> QED  BY <3>1, <3>2
  <2>2. CASE ActionRead(r)
    <3>1. \/ Goto(r, "mark_unknown") /\ executions[Step(r)] = "started"
          \/ \E pc \in {"verifying", "prepare", "escalate"} : Goto(r, pc)
          \/ r.pc = "action" /\ t = [r EXCEPT !.act = r.act + 1]
      BY <2>2 DEF ActionRead, Unfenced
    <3>2. UNCHANGED executions
      BY <2>2 DEF ActionRead, Unfenced, db
    <3>3. CASE r.pc = "action" /\ t = [r EXCEPT !.act = r.act + 1]
      <4>1. t.pc = "action"
        BY <2>0, <3>3 DEF Run
      <4> QED  BY <4>1 DEF Carrying
    <3>4. CASE \E pc \in {"verifying", "prepare", "escalate"} : Goto(r, pc)
      BY <1>1, <3>4 DEF Carrying
    <3> QED  BY <1>1, <3>1, <3>2, <3>3, <3>4
  <2>3. CASE Prepare(r) \/ AuditSucceeded(r)
    <3>1. \/ Goto(r, "record_failed")
          \/ \E noop \in BOOLEAN : t = [r EXCEPT !.pc = "record", !.noop = noop]
          \/ t = [r EXCEPT !.pc = "action", !.act = r.act + 1]
      BY <2>3 DEF Prepare, AuditSucceeded, Audit
    <3>2. t.pc \in {"record_failed", "record", "action"}
      BY <1>1, <2>0, <3>1 DEF Run
    <3> QED  BY <3>2 DEF Carrying
  <2>4. CASE RecordStarted(r)
    <3>1. r.pc = "record" /\ Step(t) = Step(r) /\ executions' = [executions EXCEPT ![Step(r)] = "started"]
      BY <1>1, <2>4 DEF RecordStarted, Record, ExecTx, Tx
    <3>2. RunOK(r) /\ r.pc \in ActionPcs \ {"action", "verifying"}
      BY <3>1 DEF RunsOK, ActionPcs
    <3>3. Step(r) \in Steps
      BY <3>2, CarriedStep
    <3> QED  BY <3>1, <3>3 DEF TypeOK
  <2>5. CASE AuditStarted(r)
    <3>1. r.pc \in Carrying /\ Goto(r, "patch") /\ UNCHANGED <<executions, queue>>
      BY <2>5 DEF AuditStarted, Audit, ExecTx, Tx, Goto, Carrying
    <3> QED  BY <1>1, <3>1
  <2>6. CASE Patch(r)
    <3>1. r.pc \in Carrying /\ UNCHANGED <<executions, queue>> /\ \E pc \in Pcs : Goto(r, pc)
      BY <2>6 DEF Patch, Unfenced, db, Carrying, Pcs
    <3> QED  BY <1>1, <3>1
  <2>7. CASE MarkUnknown(r) \/ RecordFailed(r) \/ FinishSucceeded(r) \/ FinishFailed(r) \/ FinishUnknown(r)
    <3>1. \E pc \in {"escalate", "audit_succeeded"} : Goto(r, pc)
      BY <2>7 DEF MarkUnknown, RecordFailed, Record, FinishSucceeded, FinishFailed, FinishUnknown, Finish
    <3> QED  BY <1>1, <3>1 DEF Carrying
  <2> QED  BY <1>2, <2>1, <2>2, <2>3, <2>4, <2>5, <2>6, <2>7 DEF ExecStep
<1>3. ~Idle
  BY <1>0 DEF Idle
<1>4. CASE UNCHANGED vars
  BY <1>4 DEF vars
<1> QED  BY <1>2, <1>3, <1>4, NextSplit, ElsewhereStep, OutsideStep

\* A write touches one row of the table.
LEMMA WrittenStep ==
    ASSUME TypeOK, RunsOK, NEW r \in runs, NEW status, NEW pc, Writes(r, status, pc)
    PROVE  /\ Step(r) \in Steps
           /\ \A s \in Steps : executions'[s] = IF s = Step(r) THEN status ELSE executions[s]
<1>1. RunOK(r) /\ r.pc \in ActionPcs \ {"action", "verifying"}
  BY DEF Writes, RunsOK, ActionPcs
<1>2. Step(r) \in Steps
  BY <1>1, CarriedStep
<1> QED  BY <1>2 DEF Writes, TypeOK

\* A run at an outcome is at an action of its plan.
LEMMA CarriesStep ==
    ASSUME TypeOK, RunsOK, NEW r \in runs, r.pc \in Carrying \cup {"mark_unknown"}
    PROVE  Step(r) \in Steps
<1>1. RunOK(r) /\ r.pc \in ActionPcs \ {"action", "verifying"}
  BY DEF RunsOK, Carrying, ActionPcs
<1> QED  BY <1>1, CarriedStep

\* Every step keeps the owner's row: nobody else may write it.
LEMMA OwnersStep ==
    ASSUME TypeOK, RunsOK, EpochsOK, OwnersRow, [Next]_vars,
           QueueKept \/ \E j \in Jobs : Claim(j)
    PROVE  OwnersRow'
<1>1. ASSUME NEW r \in runs, r \in runs', Owns(r)', r.pc \in Carrying \cup {"mark_unknown"}
      PROVE  executions'[Step(r)] = "started"
  <2>1. Owns(r) /\ executions[Step(r)] = "started"
    BY <1>1, OwnsStep DEF OwnersRow
  <2>2. ASSUME NEW w \in runs, NEW status, NEW pc, Writes(w, status, pc)
        PROVE  executions'[Step(r)] = "started"
    <3>1. w # r
      <4>1. pc # w.pc
        BY <2>2 DEF Writes
      <4>2. [w EXCEPT !.pc = pc] # w /\ w \in Run
        BY <4>1 DEF TypeOK, Run
      <4> QED  BY <1>1, <2>2, <4>2 DEF Writes, Goto
    <3>2. Step(w) # Step(r)
      <4>1. Owns(w) /\ w.pc \in ActionPcs /\ r.pc \in ActionPcs
        BY <1>1, <2>2 DEF Writes, Carrying, ActionPcs
      <4> QED  BY <2>1, <3>1, <4>1, OneOwner
    <3>3. Step(r) \in Steps
      BY <1>1, CarriesStep
    <3> QED  BY <2>1, <2>2, <3>2, <3>3, WrittenStep
  <2> QED  BY <2>1, <2>2, WriteStep
<1>2. ASSUME NEW t \in runs', t \notin runs, Owns(t)', t.pc \in Carrying \cup {"mark_unknown"}
      PROVE  executions'[Step(t)] = "started"
  <2>1. ASSUME NEW r \in runs, r.pc \in Carrying, Step(t) = Step(r),
               t.job = r.job, t.epoch = r.epoch, UNCHANGED <<executions, queue>>
        PROVE  executions'[Step(t)] = "started"
    <3>1. Owns(r)
      BY <1>2, <2>1 DEF Owns
    <3> QED  BY <2>1, <3>1 DEF OwnersRow
  <2> QED  BY <1>2, <2>1, CarrierStep
<1> QED  BY <1>1, <1>2 DEF OwnersRow, Step

\* The outcomes of an action.
Settled == {"succeeded", "failed", "server_error", "unknown"}

\* Nobody writes over an outcome.
LEMMA SettledStep ==
    ASSUME TypeOK, RunsOK, OwnersRow, [Next]_vars, NEW s \in Steps, executions[s] \in Settled
    PROVE  executions'[s] = executions[s]
<1>1. ASSUME NEW w \in runs, NEW status, NEW pc, Writes(w, status, pc)
      PROVE  executions'[s] = executions[s]
  <2>1. CASE Step(w) # s
    BY <1>1, <2>1, WrittenStep
  <2>2. CASE Step(w) = s
    <3>1. w.pc \in {"mark_unknown", "finish_succeeded", "finish_failed", "finish_error", "finish_unknown"} /\ Owns(w)
      BY <1>1, <2>2 DEF Writes, Settled
    <3>2. executions[s] = "started"
      BY <2>2, <3>1 DEF OwnersRow, Carrying
    <3> QED  BY <3>2 DEF Settled
  <2> QED  BY <2>1, <2>2
<1> QED  BY <1>1, WriteStep

\* What "failed" means: the API refused the change with 4xx, or it was never sent.
RefusalsOK ==
    /\ \A r \in runs : r.pc = "finish_failed" => landed[Step(r)] = 0
    /\ \A s \in Steps : executions[s] = "failed" =>
          landed[s] = 0 /\ \A r \in runs : r.pc \in Carrying => Step(r) # s

\* A run gets to a refusal only from a patch that did not land.
LEMMA RefusedStep ==
    ASSUME TypeOK, RunsOK, OnceInv, [Next]_vars, NEW t \in runs', t \notin runs, t.pc = "finish_failed"
    PROVE  landed'[Step(t)] = 0
<1>0. runs \subseteq Run /\ t.pc \in ActionPcs
  BY DEF TypeOK, ActionPcs
<1>1. ASSUME NEW r \in runs, NEW pc, Goto(r, pc)
      PROVE  t.pc = pc /\ Step(t) = Step(r)
  <2>1. t = [r EXCEPT !.pc = pc]
    BY <1>1 DEF Goto
  <2> QED  BY <1>0, <2>1 DEF Run, Step
<1>2. ASSUME NEW r \in runs, ExecStep(r) PROVE landed'[Step(t)] = 0
  <2>0. r \in Run
    BY <1>0
  <2>1. CASE ExecuteRead(r)
    <3>1. CASE incident.state # "EXECUTING"
      BY <1>1, <2>1, <3>1 DEF ExecuteRead
    <3>2. CASE incident.state = "EXECUTING"
      <4>1. PICK verdict \in Verdicts :
               t = [r EXCEPT !.pc = IF Refused(r, nplans, verdict) THEN "escalate" ELSE "action",
                             !.plan = nplans, !.review = verdict, !.act = 1]
        BY <2>1, <3>2 DEF ExecuteRead
      <4>2. t.pc \in {"escalate", "action"}
        BY <2>0, <4>1 DEF Run
      <4> QED  BY <4>2
    <3> QED  BY <3>1, <3>2
  <2>2. CASE ActionRead(r) \/ Prepare(r) \/ AuditSucceeded(r)
    <3>1. \/ \E pc \in {"verifying", "mark_unknown", "prepare", "escalate", "record_failed"} : Goto(r, pc)
          \/ r.pc = "action" /\ t = [r EXCEPT !.act = r.act + 1]
          \/ \E noop \in BOOLEAN : t = [r EXCEPT !.pc = "record", !.noop = noop]
          \/ t = [r EXCEPT !.pc = "action", !.act = r.act + 1]
      BY <2>2 DEF ActionRead, Prepare, AuditSucceeded, Audit, Unfenced
    <3>2. CASE \E pc \in {"verifying", "mark_unknown", "prepare", "escalate", "record_failed"} : Goto(r, pc)
      BY <1>1, <3>2
    <3>3. CASE \/ r.pc = "action" /\ t = [r EXCEPT !.act = r.act + 1]
               \/ \E noop \in BOOLEAN : t = [r EXCEPT !.pc = "record", !.noop = noop]
               \/ t = [r EXCEPT !.pc = "action", !.act = r.act + 1]
      <4>1. t.pc # "finish_failed"
        BY <2>0, <3>3 DEF Run
      <4> QED  BY <4>1
    <3> QED  BY <3>1, <3>2, <3>3
  <2>3. CASE Patch(r)
    <3>1. /\ r.pc = "patch" /\ UNCHANGED landed
          /\ Goto(r, "finish_failed")
      <4>1. ~Goto(r, "finish_succeeded") /\ ~Goto(r, "finish_error") /\ ~Goto(r, "finish_unknown")
        BY <1>1
      <4> QED  BY <2>3, <4>1 DEF Patch, Unfenced
    <3>2. landed[Step(r)] = 0
      BY <3>1 DEF OnceInv, NotSentYet
    <3> QED  BY <1>1, <3>1, <3>2
  <2>4. CASE \/ MarkUnknown(r) \/ RecordFailed(r) \/ RecordStarted(r) \/ AuditStarted(r)
             \/ FinishSucceeded(r) \/ FinishFailed(r) \/ FinishUnknown(r)
    <3>1. \E pc \in {"escalate", "audit_started", "patch", "audit_succeeded"} : Goto(r, pc)
      BY <2>4 DEF MarkUnknown, RecordFailed, RecordStarted, Record, AuditStarted, Audit, Goto,
                  FinishSucceeded, FinishFailed, FinishUnknown, Finish
    <3> QED  BY <1>1, <3>1
  <2> QED  BY <1>2, <2>1, <2>2, <2>3, <2>4 DEF ExecStep
<1>3. ~Idle
  BY <1>0 DEF Idle
<1>4. CASE UNCHANGED vars
  BY <1>4 DEF vars
<1> QED  BY <1>2, <1>3, <1>4, NextSplit, ElsewhereStep, OutsideStep

\* Only the carrier of an action changes the cluster for it.
LEMMA LandedStep ==
    ASSUME TypeOK, RunsOK, [Next]_vars, NEW s \in Steps, landed'[s] # landed[s]
    PROVE  \E r \in runs : /\ r.pc = "patch" /\ Step(r) = s /\ UNCHANGED executions
                           /\ \E pc \in {"finish_succeeded", "finish_error", "finish_unknown"} : Goto(r, pc)
<1>1. PICK r \in runs, pc \in {"finish_succeeded", "finish_error", "finish_unknown"} :
                 /\ r.pc = "patch" /\ Goto(r, pc) /\ UNCHANGED executions
                 /\ landed' = [landed EXCEPT ![Step(r)] = @ + 1]
  BY LandStep
<1>2. Step(r) = s
  BY <1>1 DEF TypeOK
<1> QED  BY <1>1, <1>2

\* Every step keeps the refusals honest.
LEMMA RefusalsStep ==
    ASSUME TypeOK, RunsOK, OnceInv, OwnersRow, RefusalsOK, [Next]_vars
    PROVE  RefusalsOK'
<1>1. ASSUME NEW t \in runs', t.pc = "finish_failed" PROVE landed'[Step(t)] = 0
  <2>1. CASE t \in runs
    <3>1. Step(t) \in Steps /\ landed[Step(t)] = 0
      BY <1>1, <2>1, CarriesStep DEF Carrying, RefusalsOK
    <3>2. ASSUME landed'[Step(t)] # landed[Step(t)] PROVE FALSE
      <4>1. PICK r \in runs : r.pc = "patch" /\ Step(r) = Step(t)
        BY <3>1, <3>2, LandedStep
      <4>2. r = t
        BY <1>1, <2>1, <4>1 DEF OnceInv, OneCarrier, Carrying
      <4> QED  BY <1>1, <4>1, <4>2
    <3> QED  BY <3>1, <3>2
  <2> QED  BY <1>1, <2>1, RefusedStep
<1>2. ASSUME NEW s \in Steps, executions'[s] = "failed", executions[s] = "failed"
      PROVE  landed'[s] = 0 /\ \A r \in runs' : r.pc \in Carrying => Step(r) # s
  <2>1. landed[s] = 0 /\ \A r \in runs : r.pc \in Carrying => Step(r) # s
    BY <1>2 DEF RefusalsOK
  <2>2. landed'[s] = 0
    BY <2>1, LandedStep DEF Carrying
  <2>3. ASSUME NEW t \in runs', t \notin runs, t.pc \in Carrying PROVE Step(t) # s
    BY <1>2, <2>1, <2>3, CarrierStep
  <2> QED  BY <2>1, <2>2, <2>3
<1>3. ASSUME NEW s \in Steps, executions'[s] = "failed", executions[s] # "failed"
      PROVE  landed'[s] = 0 /\ \A r \in runs' : r.pc \in Carrying => Step(r) # s
  <2>1. PICK w \in runs, status \in Execution, pc \in Pcs : Writes(w, status, pc)
    BY <1>3, WriteStep
  <2>2. Step(w) = s /\ status = "failed"
    BY <1>3, <2>1, WrittenStep
  <2>3. /\ pc = "escalate" /\ Goto(w, pc) /\ UNCHANGED landed
        /\ \/ w.pc = "record_failed" /\ executions[s] = "none"
           \/ w.pc = "finish_failed"
    BY <2>1, <2>2 DEF Writes
  <2>4. landed[s] = 0
    BY <2>2, <2>3 DEF RefusalsOK, OnceInv, NoRowNoChange
  <2>5. \A r \in runs \ {w} : r.pc \in Carrying => Step(r) # s
    BY <2>2, <2>3 DEF OnceInv, CarriesARow, OneCarrier, Carrying
  <2>6. [w EXCEPT !.pc = pc].pc \notin Carrying
    BY <2>3 DEF TypeOK, Run, Carrying
  <2> QED  BY <2>3, <2>4, <2>5, <2>6 DEF Goto
<1>4. \A s \in Steps : executions'[s] = "failed" =>
          landed'[s] = 0 /\ \A r \in runs' : r.pc \in Carrying => Step(r) # s
  BY <1>2, <1>3
<1> QED  BY <1>1, <1>4 DEF RefusalsOK, Step

\* The actions before the one a run is at succeeded, in this run or in an
\* earlier one; so did the one it is auditing, and all of them at the end.
Progress(r) ==
    /\ r.pc \in ActionPcs => \A a \in 1..(r.act - 1) : executions[<<r.plan, a>>] = "succeeded"
    /\ r.pc = "audit_succeeded" => executions[Step(r)] = "succeeded"
    /\ r.pc = "verifying" => \A a \in 1..plans[r.plan].n : executions[<<r.plan, a>>] = "succeeded"
AllProgress == \A r \in runs : Progress(r)

\* Where a run is, its numbers are numbers.
LEMMA RunFacts ==
    ASSUME TypeOK, RunsOK, NEW r \in runs, r.pc \in ActionPcs
    PROVE  /\ r.plan \in PlanIds /\ r.plan \in 1..nplans
           /\ r.act \in Nat \ {0} /\ r.act <= MaxActions + 1
           /\ plans[r.plan].n \in 0..MaxActions
           /\ \A a \in 1..(r.act - 1) : <<r.plan, a>> \in Steps
           /\ \A a \in 1..plans[r.plan].n : <<r.plan, a>> \in Steps
           /\ r.pc \notin {"action", "verifying"} => r.act <= plans[r.plan].n /\ Step(r) \in Steps
<1> USE RemediationConstants
<1>1. r \in Run /\ RunOK(r)
  BY DEF TypeOK, RunsOK
<1>2. r.plan \in 1..nplans /\ r.act \in Nat \ {0} /\ r.act <= MaxActions + 1
  BY <1>1 DEF RunOK, Run
<1>3. r.plan \in PlanIds
  BY <1>2 DEF TypeOK, PlanIds
<1>4. plans[r.plan].n \in 0..MaxActions
  BY <1>3 DEF TypeOK, Plan
<1>5. (\A a \in 1..(r.act - 1) : a \in Actions) /\ (\A a \in 1..plans[r.plan].n : a \in Actions)
  BY <1>2, <1>4 DEF Actions
<1>6. r.pc \notin {"action", "verifying"} => r.act <= plans[r.plan].n /\ r.act \in Actions
  BY <1>1, <1>2, <1>4 DEF RunOK, Actions
<1> QED  BY <1>2, <1>3, <1>4, <1>5, <1>6 DEF Steps, Step

\* A run that stays keeps its progress.
LEMMA ProgressKept ==
    ASSUME TypeOK, RunsOK, OwnersRow, [Next]_vars, NEW r \in runs, Progress(r)
    PROVE  Progress(r)'
<1>1. \A s \in Steps : executions[s] = "succeeded" => executions'[s] = "succeeded"
  BY SettledStep DEF Settled
<1>2. CASE r.pc \in ActionPcs
  <2>1. plans'[r.plan].n = plans[r.plan].n
    BY <1>2, RunFacts, PlansStep DEF PlansKept
  <2>2. \A a \in 1..(r.act - 1) : executions'[<<r.plan, a>>] = "succeeded"
    BY <1>1, <1>2, RunFacts DEF Progress
  <2>3. r.pc = "audit_succeeded" => executions'[Step(r)] = "succeeded"
    BY <1>1, <1>2, RunFacts DEF Progress
  <2>4. r.pc = "verifying" => \A a \in 1..plans[r.plan].n : executions'[<<r.plan, a>>] = "succeeded"
    BY <1>1, <1>2, RunFacts DEF Progress
  <2> QED  BY <2>1, <2>2, <2>3, <2>4 DEF Progress, Step
<1>3. CASE r.pc \notin ActionPcs
  BY <1>3 DEF Progress, ActionPcs
<1> QED  BY <1>2, <1>3

\* The run that goes on makes progress, too.
LEMMA ProgressGoesOn ==
    ASSUME TypeOK, RunsOK, OwnersRow, AllProgress, [Next]_vars, NEW t \in runs', t \notin runs
    PROVE  Progress(t)'
<1>0. runs \subseteq Run
  BY DEF TypeOK
<1>1. CASE t.pc \notin ActionPcs
  BY <1>1 DEF Progress, ActionPcs
<1>2. ASSUME NEW r \in runs, r.pc \in ActionPcs, UNCHANGED plans,
             t.plan = r.plan, t.act = r.act, t.pc \notin {"audit_succeeded", "verifying"}
      PROVE  Progress(t)'
  <2>1. Progress(r)'
    BY ProgressKept DEF AllProgress
  <2> QED  BY <1>2, <2>1 DEF Progress
<1>3. ASSUME NEW r \in runs, NEW pc, Goto(r, pc)
      PROVE  t.pc = pc /\ t.plan = r.plan /\ t.act = r.act /\ Step(t) = Step(r)
  <2>1. t = [r EXCEPT !.pc = pc]
    BY <1>3 DEF Goto
  <2> QED  BY <1>0, <2>1 DEF Run, Step
<1>4. ASSUME NEW r \in runs, ExecStep(r) PROVE Progress(t)'
  <2>0. r \in Run /\ UNCHANGED plans
    BY <1>0, <1>4, ExecFrame
  <2>1. CASE ExecuteRead(r)
    <3>1. CASE incident.state # "EXECUTING"
      BY <1>1, <1>3, <2>1, <3>1 DEF ExecuteRead, ActionPcs
    <3>2. CASE incident.state = "EXECUTING"
      <4>1. PICK verdict \in Verdicts :
               t = [r EXCEPT !.pc = IF Refused(r, nplans, verdict) THEN "escalate" ELSE "action",
                             !.plan = nplans, !.review = verdict, !.act = 1]
        BY <2>1, <3>2 DEF ExecuteRead
      <4>2. t.pc \in {"escalate", "action"} /\ t.act = 1
        BY <2>0, <4>1 DEF Run
      <4>3. \A a \in 1..(t.act - 1) : FALSE
        BY <4>2
      <4> QED  BY <4>2, <4>3 DEF Progress
    <3> QED  BY <3>1, <3>2
  <2>2. CASE ActionRead(r)
    <3>0. r.pc = "action" /\ r.pc \in ActionPcs /\ UNCHANGED executions
      BY <2>2 DEF ActionRead, Unfenced, db, ActionPcs
    <3>1. Progress(r)'
      BY ProgressKept DEF AllProgress
    <3>2. CASE r.act > plans[r.plan].n
      <4>1. t.pc = "verifying" /\ t.plan = r.plan /\ t.act = r.act
        BY <1>3, <2>2, <3>2 DEF ActionRead
      <4>2. \A a \in 1..(r.act - 1) : executions'[<<r.plan, a>>] = "succeeded"
        BY <3>0, <3>1 DEF Progress
      <4>3. \A a \in 1..plans[r.plan].n : executions'[<<r.plan, a>>] = "succeeded"
        BY <3>0, <3>2, <4>2, RunFacts, RemediationConstants
      <4> QED  BY <2>0, <4>1, <4>2, <4>3 DEF Progress
    <3>3. CASE ~(r.act > plans[r.plan].n) /\ executions[Step(r)] = "succeeded"
      <4>1. t = [r EXCEPT !.act = r.act + 1]
        BY <2>2, <3>3 DEF ActionRead
      <4>2. t.pc = "action" /\ t.plan = r.plan /\ t.act = r.act + 1
        BY <2>0, <3>0, <3>3, <4>1, RunFacts, RemediationConstants DEF Run
      <4>3. \A a \in 1..(r.act - 1) : executions'[<<r.plan, a>>] = "succeeded"
        BY <3>0, <3>1 DEF Progress
      <4>4. \A a \in 1..(t.act - 1) : executions'[<<t.plan, a>>] = "succeeded"
        <5> SUFFICES ASSUME NEW a \in 1..(t.act - 1) PROVE executions'[<<t.plan, a>>] = "succeeded"
          OBVIOUS
        <5>1. r.act \in Nat \ {0}
          BY <3>0, RunFacts
        <5>2. a = r.act \/ a \in 1..(r.act - 1)
          BY <4>2, <5>1
        <5> QED  BY <3>0, <3>3, <4>2, <4>3, <5>2 DEF Step
      <4> QED  BY <4>2, <4>4 DEF Progress
    <3>4. CASE ~(r.act > plans[r.plan].n) /\ executions[Step(r)] # "succeeded"
      <4>1. \E pc \in {"mark_unknown", "prepare", "escalate"} : Goto(r, pc)
        BY <2>2, <3>4 DEF ActionRead
      <4> QED  BY <1>2, <1>3, <2>0, <3>0, <4>1
    <3> QED  BY <3>2, <3>3, <3>4
  <2>3. CASE Prepare(r)
    <3>0. r.pc \in ActionPcs
      BY <2>3 DEF Prepare, Unfenced, ActionPcs
    <3>1. CASE Goto(r, "record_failed")
      BY <1>2, <1>3, <2>0, <3>0, <3>1
    <3>2. CASE ~Goto(r, "record_failed")
      <4>1. PICK noop \in BOOLEAN : t = [r EXCEPT !.pc = "record", !.noop = noop]
        BY <2>3, <3>2 DEF Prepare
      <4>2. t.pc = "record" /\ t.plan = r.plan /\ t.act = r.act
        BY <2>0, <4>1 DEF Run
      <4> QED  BY <1>2, <2>0, <3>0, <4>2
    <3> QED  BY <3>1, <3>2
  <2>4. CASE RecordStarted(r) \/ AuditStarted(r) \/ Patch(r)
    <3>1. r.pc \in ActionPcs /\ \E pc \in {"audit_started", "patch", "finish_succeeded", "finish_failed",
                                           "finish_error", "finish_unknown"} : Goto(r, pc)
      BY <2>4 DEF RecordStarted, Record, AuditStarted, Audit, Goto, Patch, ExecTx, Tx, Unfenced, ActionPcs
    <3> QED  BY <1>2, <1>3, <2>0, <3>1
  <2>5. CASE MarkUnknown(r) \/ RecordFailed(r) \/ FinishFailed(r) \/ FinishUnknown(r)
    <3>1. Goto(r, "escalate")
      BY <2>5 DEF MarkUnknown, RecordFailed, Record, FinishFailed, FinishUnknown, Finish
    <3> QED  BY <1>1, <1>3, <3>1 DEF ActionPcs
  <2>6. CASE FinishSucceeded(r)
    <3>1. /\ r.pc = "finish_succeeded" /\ r.pc \in ActionPcs /\ Goto(r, "audit_succeeded")
          /\ executions' = [executions EXCEPT ![Step(r)] = "succeeded"]
      BY <2>6 DEF FinishSucceeded, Finish, ExecTx, Tx, ActionPcs
    <3>2. t.pc = "audit_succeeded" /\ t.plan = r.plan /\ t.act = r.act /\ Step(t) = Step(r)
      BY <1>3, <3>1
    <3>3. executions'[Step(r)] = "succeeded"
      BY <3>1, RunFacts DEF TypeOK
    <3>4. Progress(r)'
      BY ProgressKept DEF AllProgress
    <3> QED  BY <3>1, <3>2, <3>3, <3>4 DEF Progress, Step
  <2>7. CASE AuditSucceeded(r)
    <3>1. /\ r.pc = "audit_succeeded" /\ r.pc \in ActionPcs
          /\ t = [r EXCEPT !.pc = "action", !.act = r.act + 1]
      BY <2>7 DEF AuditSucceeded, Audit, ExecTx, Tx, ActionPcs
    <3>2. r.act \in Nat \ {0}
      BY <3>1, RunFacts
    <3>3. t.pc = "action" /\ t.plan = r.plan /\ t.act = r.act + 1
      BY <2>0, <3>1, <3>2 DEF Run
    <3>4. Progress(r)'
      BY ProgressKept DEF AllProgress
    <3>5. \A a \in 1..(t.act - 1) : executions'[<<t.plan, a>>] = "succeeded"
      <4> SUFFICES ASSUME NEW a \in 1..(t.act - 1) PROVE executions'[<<t.plan, a>>] = "succeeded"
        OBVIOUS
      <4>1. a = r.act \/ a \in 1..(r.act - 1)
        BY <3>2, <3>3
      <4> QED  BY <3>1, <3>3, <3>4, <4>1 DEF Progress, Step
    <3> QED  BY <3>3, <3>5 DEF Progress
  <2> QED  BY <1>4, <2>1, <2>2, <2>3, <2>4, <2>5, <2>6, <2>7 DEF ExecStep
<1>5. Idle => t.pc \notin ActionPcs
  BY DEF Idle
<1>6. CASE UNCHANGED vars
  BY <1>6 DEF vars
<1> QED  BY <1>1, <1>4, <1>5, <1>6, NextSplit, ElsewhereStep, OutsideStep

\* Only a run that has been through all actions takes the incident to
\* verification.
LEMMA VerifyingStep ==
    ASSUME TypeOK, [Next]_vars, incident'.state \in {"VERIFYING", "RESOLVED"},
           incident.state \notin {"VERIFYING", "RESOLVED"}
    PROVE  UNCHANGED <<nplans, plans, executions>> /\ \E r \in runs : r.pc = "verifying"
<1> DEFINE Goal == UNCHANGED <<nplans, plans, executions>> /\ \E r \in runs : r.pc = "verifying"
<1>1. ASSUME NEW from, NEW version, NEW who, NEW n, NEW verdict \in Verdicts,
             Submit(from, version, who, n, verdict)
      PROVE  FALSE
  <2>1. incident'.state = AfterReview(verdict)
    BY <1>1 DEF Submit
  <2> QED  BY <2>1 DEF AfterReview, Verdicts
<1>2. ASSUME NEW r \in runs, Elsewhere(r) PROVE Goal
  <2>1. CASE PlanSubmit(r)
    <3>1. UNCHANGED incident \/ Transition("DIAGNOSED", "ESCALATED", incident.version)
      BY <1>1, <2>1 DEF PlanSubmit, db
    <3> QED  BY <3>1 DEF Transition
  <2>2. CASE \/ Triage(r) \/ InvestigateBegin(r) \/ InvestigateEnd(r) \/ ApprovalTimeout(r)
             \/ Verified(r) \/ Escalate(r)
    BY <2>2 DEF Triage, InvestigateBegin, InvestigateEnd, ApprovalTimeout, Verified, Escalate, Transition
  <2>3. CASE PlanRead(r) \/ VerifyRead(r) \/ Return(r) \/ RunFails(r) \/ Release(r) \/ RunVanishes(r)
    BY <2>3 DEF PlanRead, VerifyRead, Unfenced, Return, RunFails, Release, RunVanishes, db
  <2>4. CASE Executed(r)
    BY <2>4 DEF Executed, ExecTx, Tx
  <2> QED  BY <1>2, <2>1, <2>2, <2>3, <2>4 DEF Elsewhere
<1>3. ASSUME NEW r \in runs, ExecStep(r) PROVE FALSE
  BY <1>3, ExecFrame
<1>4. ASSUME Outside PROVE FALSE
  <2>1. ASSUME NEW q \in requests, ReviseWrite(q) PROVE FALSE
    BY <1>1, <2>1 DEF ReviseWrite
  <2>2. ASSUME NEW q \in requests, DecideWrite(q) PROVE FALSE
    BY <2>2 DEF DecideWrite, Transition
  <2> QED  BY <1>4, <2>1, <2>2 DEF Outside, Claim, Reap, ReviseRead, DecideRead, Open, DecideCheck,
                                   Refuse, Expire, db
<1>5. CASE UNCHANGED vars
  BY <1>5 DEF vars
<1> QED  BY <1>2, <1>3, <1>4, <1>5, NextSplit

\* Every action of the plan of a verified incident succeeded.
AllDone ==
    incident.state \in {"VERIFYING", "RESOLVED"} =>
        /\ nplans > 0
        /\ \A a \in 1..plans[nplans].n : executions[<<nplans, a>>] = "succeeded"

\* Every step keeps it: the plan does not change any more, and the outcomes stay.
LEMMA AllDoneStep ==
    ASSUME TypeOK, RunsOK, RunsCleared, OwnersRow, AllProgress, AllDone, [Next]_vars
    PROVE  AllDone'
<1> USE RemediationConstants
<1> SUFFICES ASSUME incident'.state \in {"VERIFYING", "RESOLVED"}
             PROVE  /\ nplans' > 0
                    /\ \A a \in 1..plans'[nplans'].n : executions'[<<nplans', a>>] = "succeeded"
  BY DEF AllDone
<1>1. CASE incident.state \notin {"VERIFYING", "RESOLVED"}
  <2>1. PICK r \in runs : UNCHANGED <<nplans, plans, executions>> /\ r.pc = "verifying"
    BY <1>1, VerifyingStep
  <2>2. r.plan = nplans /\ nplans > 0
    BY <2>1 DEF RunsCleared, Cleared, ActionPcs
  <2>3. \A a \in 1..plans[r.plan].n : executions[<<r.plan, a>>] = "succeeded"
    BY <2>1 DEF AllProgress, Progress
  <2> QED  BY <2>1, <2>2, <2>3
<1>2. CASE incident.state \in {"VERIFYING", "RESOLVED"}
  <2>1. UNCHANGED nplans
    <3>1. CASE Submitted
      <4>1. incident.state \in {"DIAGNOSED", "AWAITING_APPROVAL"}
        BY <3>1 DEF Submitted, Submit, Allowed, Current
      <4> QED  BY <1>2, <4>1
    <3>2. CASE \E q \in requests : DecideWrite(q)
      BY <3>2 DEF DecideWrite
    <3> QED  BY <3>1, <3>2, FlowStep DEF Moved
  <2>2. /\ nplans > 0 /\ nplans \in 1..nplans /\ nplans \in PlanIds
        /\ \A a \in 1..plans[nplans].n : executions[<<nplans, a>>] = "succeeded"
    BY <1>2 DEF AllDone, TypeOK, PlanIds
  <2>3. plans'[nplans].n = plans[nplans].n /\ plans[nplans].n \in 0..MaxActions
    BY <2>2, PlansStep DEF PlansKept, TypeOK, Plan
  <2>4. \A a \in 1..plans[nplans].n : <<nplans, a>> \in Steps
    BY <2>2, <2>3 DEF Steps, Actions
  <2>5. \A a \in 1..plans[nplans].n : executions'[<<nplans, a>>] = "succeeded"
    BY <2>2, <2>4, SettledStep DEF Settled
  <2> QED  BY <2>1, <2>2, <2>3, <2>5
<1> QED  BY <1>1, <1>2

\* What makes the executions table tell the truth.
RecordInv == OnceInv /\ OwnersRow /\ RefusalsOK /\ AllProgress /\ AllDone

\* It holds of a new incident,
LEMMA RecordInit == Init => RecordInv
<1> SUFFICES ASSUME Init PROVE RecordInv
  OBVIOUS
<1>1. OnceInv
  BY DEF Init, OnceInv, NoRowNoChange, CarriesARow, NotSentYet, OneCarrier
<1>2. OwnersRow /\ AllProgress /\ AllDone
  BY DEF Init, OwnersRow, AllProgress, AllDone
<1>3. RefusalsOK
  BY DEF Init, RefusalsOK
<1> QED  BY <1>1, <1>2, <1>3 DEF RecordInv

\* every step keeps it,
LEMMA RecordStep == Inv /\ DrivenInv /\ RecordInv /\ [Next]_vars => RecordInv'
<1> SUFFICES ASSUME Inv, DrivenInv, RecordInv, [Next]_vars PROVE RecordInv'
  OBVIOUS
<1>0. /\ TypeOK /\ RunsOK /\ RequestsOK /\ RunsCleared /\ EpochsOK /\ FlowOK /\ Driven
      /\ OnceInv /\ OwnersRow /\ RefusalsOK /\ AllProgress /\ AllDone
  BY DEF Inv, DrivenInv, RecordInv
<1>1. QueueKept \/ \E j \in Jobs : Claim(j)
  BY <1>0, QueueStep
<1>2. OnceInv' /\ RefusalsOK' /\ AllDone'
  BY <1>0, OnceStep, RefusalsStep, AllDoneStep
<1>3. OwnersRow'
  BY <1>0, <1>1, OwnersStep
<1>4. AllProgress'
  <2>1. ASSUME NEW t \in runs' PROVE Progress(t)'
    <3>1. CASE t \in runs
      BY <1>0, <3>1, ProgressKept DEF AllProgress
    <3>2. CASE t \notin runs
      BY <1>0, <3>2, ProgressGoesOn
    <3> QED  BY <3>1, <3>2
  <2> QED  BY <2>1 DEF AllProgress
<1> QED  BY <1>2, <1>3, <1>4 DEF RecordInv

\* and so it always holds.
LEMMA RecordHolds == Spec => []RecordInv
BY RecordInit, RecordStep, InvHolds, DrivenHolds, PTL DEF Spec

\* The executions table tells the truth: no row, and a row of a change that was
\* never sent or was refused with 4xx, mean that the cluster was not changed,
\* and an incident is verified or resolved only after every action of its plan
\* succeeded, in whichever run.
THEOREM TheRecordIsHonest == Spec => []HonestRecord
<1>1. RecordInv => HonestRecord
  BY DEF RecordInv, OnceInv, NoRowNoChange, RefusalsOK, AllDone, HonestRecord
<1> QED  BY <1>1, RecordHolds, PTL

\* A closed incident and a settled execution stay as they are: the runs that
\* would write over them have lost their leases.
THEOREM ClosedStaysClosed == Spec => ClosedForGood
<1> DEFINE Stays ==
      /\ incident.state \in Terminal => incident' = incident
      /\ \A s \in Steps : executions[s] \in {"succeeded", "failed", "server_error", "unknown"} =>
            executions'[s] = executions[s]
<1>1. ASSUME Inv, RecordInv, [Next]_vars PROVE Stays
  <2>0. TypeOK /\ RunsOK /\ OwnersRow
    BY <1>1 DEF Inv, RecordInv
  <2>1. ASSUME incident.state \in Terminal PROVE incident' = incident
    <3>1. ~Moved
      BY <2>1 DEF Moved
    <3>2. ~Submitted
      BY <2>1 DEF Submitted, Submit, Allowed, Current
    <3>3. ~\E q \in requests : DecideWrite(q)
      BY <2>1 DEF DecideWrite, Transition, Allowed, Current
    <3> QED  BY <1>1, <2>0, <3>1, <3>2, <3>3, FlowStep
  <2>2. \A s \in Steps : executions[s] \in {"succeeded", "failed", "server_error", "unknown"} =>
            executions'[s] = executions[s]
    BY <1>1, <2>0, SettledStep DEF Settled
  <2> QED  BY <2>1, <2>2
<1>2. Inv /\ RecordInv /\ [Next]_vars => Stays
  BY <1>1
<1> QED  BY <1>2, InvHolds, RecordHolds, PTL DEF Spec, ClosedForGood

-----------------------------------------------------------------------------
(* The flow uses the queue as FencedJobs has it, and so as JobQueue        *)
(* implements it.  What a run writes while it holds the job is the flow's   *)
(* own business: the Writes of FencedJobs are not told apart here.          *)

Queue == INSTANCE FencedJobs WITH
    Keys <- Jobs,
    state <- [j \in Jobs |-> queue[j].status],
    epoch <- [j \in Jobs |-> queue[j].epoch],
    tries <- [j \in Jobs |-> queue[j].tries],
    written <- [j \in Jobs |-> 0]

\* Jobs may have been submitted already, none has run; from then on every step of
\* the flow, however many transactions and requests are under way, is at most one
\* step of one job.
UsesFencedJobs ==
    /\ \A j \in Jobs : queue[j] \in {Absent, Queued}
    /\ [][Queue!Next]_(Queue!vars)

\* A job nobody submitted was never tried.
NeverTried == \A j \in Jobs : queue[j].status = "absent" => queue[j].epoch = 0 /\ queue[j].tries = 0

\* What one step does to one job.
Granted(j) ==
    /\ queue[j].status = "queued" /\ queue[j].tries < MaxAttempts
    /\ queue' = [queue EXCEPT ![j] = [status |-> "running", epoch |-> queue[j].epoch + 1,
                                      tries |-> queue[j].tries + 1]]
HandedBack(j) ==
    /\ queue[j].status = "running"
    /\ queue' = [queue EXCEPT ![j] = [status |-> "queued", epoch |-> queue[j].epoch,
                                      tries |-> queue[j].tries - 1]]
QueueMove(j) ==
    \/ queue' = Enqueued(j)
    \/ Granted(j) \/ HandedBack(j)
    \/ queue[j].status = "running" /\ queue' = GivenUp(j)
    \/ queue[j].status = "running" /\ queue' = [queue EXCEPT ![j].status = "done"]

\* submit
LEMMA SubmitMoves ==
    ASSUME TypeOK, NEW from, NEW version, NEW who, NEW n, NEW verdict \in Verdicts,
           Submit(from, version, who, n, verdict)
    PROVE  UNCHANGED queue \/ \E j \in Jobs : QueueMove(j)
<1> DEFINE p == nplans + 1
<1>1. p \in PlanIds
  BY RemediationConstants DEF Submit, TypeOK, PlanIds
<1>2. Job("approval_timeout", p) \in Jobs /\ Job("execute", p) \in Jobs
  BY <1>1, JobFacts
<1>3. queue' = CASE verdict = "deny" -> queue
                 [] verdict = "require_approval" -> Enqueued(Job("approval_timeout", p))
                 [] verdict = "allow" -> Enqueued(Job("execute", p))
  BY DEF Submit
<1> HIDE DEF p
<1>4. queue' \in {queue, Enqueued(Job("approval_timeout", p)), Enqueued(Job("execute", p))}
  BY <1>3 DEF Verdicts
<1> QED  BY <1>2, <1>4 DEF QueueMove

\* Every step leaves the queue alone or moves one job.
LEMMA QueueMoves ==
    ASSUME TypeOK, RunsOK, RequestsOK, [Next]_vars
    PROVE  UNCHANGED queue \/ \E j \in Jobs : QueueMove(j)
<1> DEFINE Goal == UNCHANGED queue \/ \E j \in Jobs : QueueMove(j)
<1>0. \A r \in runs : r \in Run /\ r.job \in Jobs
  BY DEF TypeOK, Run
<1>1. ASSUME NEW r \in runs, Elsewhere(r) PROVE Goal
  <2>1. CASE PlanSubmit(r)
    BY <2>1, SubmitMoves DEF PlanSubmit
  <2>2. CASE Triage(r) \/ InvestigateEnd(r)
    BY <2>2, JobFacts DEF Triage, InvestigateEnd, QueueMove
  <2>3. CASE Executed(r)
    <3>1. r.pc = "verifying"
      BY <2>3 DEF Executed, ExecTx, Tx
    <3>2. r.plan \in 1..nplans
      BY <3>1 DEF RunsOK, RunOK, ActionPcs
    <3>3. r.plan \in PlanIds
      BY <3>2, RemediationConstants DEF TypeOK, PlanIds
    <3>4. UNCHANGED queue \/ queue' = Enqueued(Job("verify", r.plan))
      BY <2>3 DEF Executed
    <3> QED  BY <3>3, <3>4, JobFacts DEF QueueMove
  <2>4. CASE RunFails(r) \/ Release(r) \/ Return(r)
    <3>1. QueueMove(r.job)
      BY <2>4 DEF RunFails, Release, Return, Owns, QueueMove, HandedBack
    <3> QED  BY <1>0, <3>1
  <2>5. CASE \/ InvestigateBegin(r) \/ ApprovalTimeout(r) \/ Verified(r) \/ Escalate(r)
             \/ PlanRead(r) \/ VerifyRead(r) \/ RunVanishes(r)
    BY <2>5 DEF InvestigateBegin, ApprovalTimeout, Verified, Escalate, PlanRead, VerifyRead,
                RunVanishes, Unfenced
  <2> QED  BY <1>1, <2>1, <2>2, <2>3, <2>4, <2>5 DEF Elsewhere
<1>2. ASSUME NEW r \in runs, ExecStep(r) PROVE Goal
  BY <1>2, ExecFrame
<1>3. ASSUME NEW j \in Jobs, Claim(j) \/ Reap(j) PROVE Goal
  BY <1>3 DEF Claim, Reap, QueueMove, Granted
<1>4. ASSUME NEW q \in requests, ReviseWrite(q) PROVE Goal
  BY <1>4, SubmitMoves DEF ReviseWrite
<1>5. ASSUME NEW q \in requests, DecideWrite(q) PROVE Goal
  <2>1. q.plan \in 1..nplans
    BY <1>5 DEF DecideWrite, RequestsOK, RequestOK
  <2>2. q.plan \in PlanIds
    BY <2>1, RemediationConstants DEF TypeOK, PlanIds
  <2>3. UNCHANGED queue \/ queue' = Enqueued(Job("execute", q.plan))
    BY <1>5 DEF DecideWrite
  <2> QED  BY <2>2, <2>3, JobFacts DEF QueueMove
<1>6. CASE \/ \E q \in requests : DecideCheck(q) \/ Refuse(q)
           \/ \E p \in PlanIds : Expire(p)
           \/ \E who \in People : ReviseRead(who)
           \/ \E who \in People, decision \in {"approve", "reject"}, hash \in 1..nplans :
                 DecideRead(who, decision, hash)
           \/ UNCHANGED vars
  BY <1>6 DEF DecideCheck, Refuse, Expire, ReviseRead, DecideRead, Open, vars
<1> QED  BY <1>1, <1>2, <1>3, <1>4, <1>5, <1>6, NextSplit DEF Outside

\* A move of one job is a step of FencedJobs, and leaves what was never tried so.
LEMMA MovesAreSteps ==
    ASSUME TypeOK, NeverTried, NEW j \in Jobs, QueueMove(j)
    PROVE  (Queue!Next \/ UNCHANGED Queue!vars) /\ NeverTried'
<1>0. /\ queue \in [Jobs -> JobState] /\ queue[j].tries \in Nat /\ queue[j].epoch \in Nat
      /\ DOMAIN queue = Jobs
  BY DEF TypeOK, JobState
<1>1. CASE queue' = Enqueued(j)
  <2>1. CASE queue[j].status = "absent"
    <3>1. queue' = [queue EXCEPT ![j] = Queued] /\ queue[j].epoch = 0 /\ queue[j].tries = 0
      BY <1>1, <2>1 DEF Enqueued, NeverTried
    <3>2. Queue!Submit(j)
      BY <1>0, <2>1, <3>1 DEF Queue!Submit, Queued
    <3>3. NeverTried'
      BY <1>0, <3>1 DEF NeverTried, Queued
    <3> QED  BY <3>2, <3>3 DEF Queue!Next
  <2>2. CASE queue[j].status # "absent"
    BY <1>1, <2>2 DEF Enqueued, Queue!vars, NeverTried
  <2> QED  BY <2>1, <2>2
<1>2. CASE Granted(j)
  <2>1. Queue!Grant(j)
    BY <1>0, <1>2 DEF Granted, Queue!Grant
  <2>2. NeverTried'
    BY <1>0, <1>2 DEF Granted, NeverTried
  <2> QED  BY <2>1, <2>2 DEF Queue!Next
<1>3. CASE HandedBack(j)
  <2>1. Queue!HandBack(j)
    BY <1>0, <1>3 DEF HandedBack, Queue!HandBack
  <2>2. NeverTried'
    BY <1>0, <1>3 DEF HandedBack, NeverTried
  <2> QED  BY <2>1, <2>2 DEF Queue!Next
<1>4. CASE queue[j].status = "running" /\ queue' = GivenUp(j)
  <2>1. PICK status \in {"queued", "dead"} :
           /\ queue' = [queue EXCEPT ![j].status = status]
           /\ status = "queued" => queue[j].tries < MaxAttempts
    BY <1>4 DEF GivenUp
  <2> DEFINE row == [queue[j] EXCEPT !.status = status]
             states == [k \in Jobs |-> queue[k].status]
  <2>2. queue' = [queue EXCEPT ![j] = row]
    BY <2>1
  <2>3. row.status = status /\ row.epoch = queue[j].epoch /\ row.tries = queue[j].tries
    BY <1>0 DEF JobState
  <2> HIDE DEF row
  <2>4. /\ [k \in Jobs |-> queue'[k].status] = [states EXCEPT ![j] = status]
        /\ [k \in Jobs |-> queue'[k].epoch] = [k \in Jobs |-> queue[k].epoch]
        /\ [k \in Jobs |-> queue'[k].tries] = [k \in Jobs |-> queue[k].tries]
    BY <1>0, <2>2, <2>3
  <2>5. Queue!Lose(j)
    <3>1. CASE status = "dead"
      BY <1>4, <2>4, <3>1 DEF Queue!Lose
    <3>2. CASE status = "queued"
      BY <1>4, <2>1, <2>4, <3>2 DEF Queue!Lose
    <3> QED  BY <3>1, <3>2
  <2>6. NeverTried'
    BY <1>0, <1>4, <2>2, <2>3 DEF NeverTried
  <2> QED  BY <2>5, <2>6 DEF Queue!Next
<1>5. CASE queue[j].status = "running" /\ queue' = [queue EXCEPT ![j].status = "done"]
  <2>1. Queue!Finish(j)
    BY <1>0, <1>5 DEF Queue!Finish, JobState
  <2>2. NeverTried'
    BY <1>0, <1>5 DEF NeverTried, JobState
  <2> QED  BY <2>1, <2>2 DEF Queue!Next
<1> QED  BY <1>1, <1>2, <1>3, <1>4, <1>5 DEF QueueMove

\* Whatever the handlers, the API, the clock and the crashes do, the incident's jobs
\* go through the lives FencedJobs gives them (enqueue, claim, complete, fail, release,
\* reap in app/queue/jobs.py): what is proved of the flow rests on nothing of the queue
\* that JobQueue does not implement.
THEOREM FlowUsesTheQueue == Spec => UsesFencedJobs
<1>1. Init => NeverTried /\ \A j \in Jobs : queue[j] \in {Absent, Queued}
  BY DEF Init, NeverTried, Absent, Queued
<1>2. Inv /\ NeverTried /\ [Next]_vars => NeverTried' /\ (Queue!Next \/ UNCHANGED Queue!vars)
  <2> SUFFICES ASSUME Inv, NeverTried, [Next]_vars
               PROVE  NeverTried' /\ (Queue!Next \/ UNCHANGED Queue!vars)
    OBVIOUS
  <2>1. UNCHANGED queue \/ \E j \in Jobs : QueueMove(j)
    BY QueueMoves DEF Inv
  <2>2. CASE UNCHANGED queue
    BY <2>2 DEF NeverTried, Queue!vars
  <2> QED  BY <2>1, <2>2, MovesAreSteps DEF Inv
<1>3. Inv /\ NeverTried /\ [Next]_vars => NeverTried'
  BY <1>2
<1>4. Inv /\ NeverTried /\ [Next]_vars => [Queue!Next]_(Queue!vars)
  BY <1>2
<1> QED  BY <1>1, <1>3, <1>4, InvHolds, PTL DEF Spec, UsesFencedJobs

=============================================================================
