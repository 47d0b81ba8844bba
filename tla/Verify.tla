------------------------------- MODULE Verify -------------------------------
(***************************************************************************)
(* Did the repair work?  The verify job, app/worker/remediate.py and       *)
(* app/remediation/verify.py: it samples the SLI until that has been       *)
(* healthy for a few checks in a row, or the deadline has passed.          *)
(*                                                                         *)
(* Time is counted in ticks.  A job is delivered again when its lease      *)
(* expires, and the run that lost it goes on sampling; meanwhile the alert *)
(* keeps firing and merges into the incident (app/db/incidents.py).        *)
(***************************************************************************)
EXTENDS Integers, Sequences

CONSTANTS
    Settle, Interval, HealthyChecks, Timeout,   \* verify_*_s of the settings
    MaxAttempts,    \* the queue's attempts
    MaxTime         \* bound: the clock

ASSUME VerifyConstants ==
    /\ Settle \in Nat /\ Interval \in Nat /\ Timeout \in Nat /\ MaxTime \in Nat
    /\ HealthyChecks \in Nat \ {0} /\ MaxAttempts \in Nat \ {0}

VARIABLES
    now,        \* the clock
    incident,   \* its row: state and updated_at
    job,        \* the verify job: status, attempt (its fence) and when it is due
    runs,       \* the runs of the job, by attempt; a run may outlive its lease
    audited     \* the verifier's entries in the audit log

verifyVars == <<now, incident, job, runs, audited>>

Time == 0..MaxTime
Attempts == 1..MaxAttempts

\* "none": no series, NaN, or a ToolError.
Values == {"healthy", "unhealthy", "none"}
Sample == [at: Time, value: Values]
\* samples: the last of them, enough to see a streak (the code keeps 20).
Run == [pc: {"idle", "start", "sampling", "passed", "failed", "return", "ended"},
        deadline: Int, wake: Int, streak: 0..HealthyChecks, samples: Seq(Sample)]

KeepLast(samples) ==
    IF Len(samples) <= HealthyChecks THEN samples
    ELSE SubSeq(samples, Len(samples) - HealthyChecks + 1, Len(samples))

NoRun == [pc |-> "idle", deadline |-> 0, wake |-> 0, streak |-> 0, samples |-> <<>>]

\* Just executed: VERIFYING since 0.  checked: its SLO has a check, and
\* Prometheus is configured.
VerifyInit ==
    /\ now = 0
    /\ incident \in [state: {"VERIFYING"}, updated_at: {0}, checked: BOOLEAN]
    /\ job = [status |-> "queued", attempt |-> 0, due |-> Settle]
    /\ runs = [a \in Attempts |-> NoRun]
    /\ audited = <<>>

-----------------------------------------------------------------------------

Tick == now < MaxTime /\ now' = now + 1 /\ UNCHANGED <<incident, job, runs, audited>>

\* open_or_merge: the alert fires again while the incident is open.
Merge ==
    /\ incident.state = "VERIFYING"
    /\ incident' = [incident EXCEPT !.updated_at = now]
    /\ UNCHANGED <<now, job, runs, audited>>

Owns(a) == job.status = "leased" /\ job.attempt = a

Claim ==
    /\ job.status = "queued" /\ job.due <= now
    /\ job' = [job EXCEPT !.status = "leased", !.attempt = @ + 1]
    /\ runs' = [runs EXCEPT ![job'.attempt].pc = "start"]
    /\ UNCHANGED <<now, incident, audited>>

\* The attempt is over; the backoff is module JobQueue's.
Failed == [job EXCEPT !.status = IF job.attempt = MaxAttempts THEN "dead" ELSE "queued"]

LeaseExpires ==
    /\ job.status = "leased"
    /\ job' = Failed
    /\ UNCHANGED <<now, incident, runs, audited>>

\* The run raises, is cancelled or times out.
RunFails(a) ==
    /\ runs[a].pc \notin {"idle", "ended"}
    /\ runs' = [runs EXCEPT ![a] = [NoRun EXCEPT !.pc = "ended"]]
    /\ job' = IF Owns(a) THEN Failed ELSE job
    /\ UNCHANGED <<now, incident, audited>>

\* The row is read, the deadline set.
Begin(a) ==
    /\ runs[a].pc = "start"
    /\ runs' = [runs EXCEPT ![a].pc = IF incident.state # "VERIFYING" THEN "return"
                                      ELSE IF incident.checked THEN "sampling" ELSE "failed",
                            ![a].deadline = incident.updated_at + Settle + Timeout,
                            ![a].wake = now]
    /\ UNCHANGED <<now, incident, job, audited>>

\* Only an unhealthy value ends the streak: no data is overlooked.
Streak_Slip(streak, value) ==
    CASE value = "healthy" -> streak + 1 [] value = "unhealthy" -> 0 [] OTHER -> streak
Streak(streak, value) == IF value = "healthy" THEN streak + 1 ELSE 0

\* One reading of the SLI and what follows from it.
TakeSample(a, value) ==
    LET streak == Streak(runs[a].streak, value)
    IN  /\ runs[a].pc = "sampling" /\ runs[a].wake <= now
        /\ runs' = [runs EXCEPT
             ![a].streak = streak,
             ![a].samples = KeepLast(Append(@, [at |-> now, value |-> value])),
             ![a].pc = IF streak >= HealthyChecks THEN "passed"
                       ELSE IF now >= runs[a].deadline THEN "failed" ELSE "sampling",
             ![a].wake = now + Interval]
        /\ UNCHANGED <<now, incident, job, audited>>

\* _verified: the audit entry and the transition.
Verdict(a) ==
    LET passed == runs[a].pc = "passed"
    IN  /\ audited' = Append(audited, [passed |-> passed, samples |-> runs[a].samples])
        /\ incident' = [incident EXCEPT !.state = IF passed THEN "RESOLVED" ELSE "ESCALATED",
                                        !.updated_at = now]

\* In a fenced transaction, and only if nobody has closed the incident before.
Verified(a) ==
    /\ runs[a].pc \in {"passed", "failed"}
    /\ Owns(a)
    /\ IF incident.state = "VERIFYING" THEN Verdict(a) ELSE UNCHANGED <<incident, audited>>
    /\ runs' = [runs EXCEPT ![a].pc = "return"]
    /\ UNCHANGED <<now, job>>

\* The handler returned; the run completes its job, if it is still its own.
Return(a) ==
    /\ runs[a].pc = "return"
    /\ runs' = [runs EXCEPT ![a] = [NoRun EXCEPT !.pc = "ended"]]
    /\ job' = IF Owns(a) THEN [job EXCEPT !.status = "done"] ELSE job
    /\ UNCHANGED <<now, incident, audited>>

VerifyNext ==
    \/ Tick \/ Merge \/ Claim \/ LeaseExpires
    \/ \E a \in Attempts :
          \/ RunFails(a) \/ Begin(a) \/ Verified(a) \/ Return(a)
          \/ \E value \in Values : TakeSample(a, value)

VerifySpec == VerifyInit /\ [][VerifyNext]_verifyVars

-----------------------------------------------------------------------------
(* Properties                                                              *)

\* An incident is resolved by a run whose own last HealthyChecks samples were
\* all healthy, taken an interval apart and none before the service had time to
\* settle: samples of another run or from before a gap in the data don't count.
ResolvedByAStreak ==
    incident.state = "RESOLVED" =>
        \E e \in {audited[i] : i \in 1..Len(audited)} :
            /\ e.passed /\ Len(e.samples) = HealthyChecks
            /\ \A i \in 1..HealthyChecks : e.samples[i].value = "healthy" /\ e.samples[i].at >= Settle
            /\ \A i \in 1..HealthyChecks - 1 : e.samples[i + 1].at - e.samples[i].at >= Interval

\* A repair that can be verified is given its full time: nobody escalates it
\* before Settle + Timeout after it, whichever run looks.
FullTime ==
    incident.state = "ESCALATED" /\ incident.checked => now >= Settle + Timeout

\* There is one verdict on a repair, the audit log has it, and it stands: not
\* the run that committed it and failed afterwards, nor one that lost its lease
\* while it was sampling, gives another when the job is delivered again.
OneVerdict ==
    /\ incident.state = "VERIFYING" => audited = <<>>
    /\ incident.state # "VERIFYING" =>
          Len(audited) = 1 /\ audited[1].passed = (incident.state = "RESOLVED")

\* "The deadline counts from entering VERIFYING, so a rerun of this job keeps the
\* original one", says verify_job.
OriginalDeadline ==
    \A a \in Attempts : runs[a].pc = "sampling" => runs[a].deadline = Settle + Timeout

\* The verdict on a repair is earned, whichever of the runs gives it: the three
\* parts above together.
VerdictEarned == ResolvedByAStreak /\ FullTime /\ OneVerdict

=============================================================================
