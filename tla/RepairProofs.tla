---------------------------- MODULE RepairProofs ----------------------------
(***************************************************************************)
(* Proofs about the repair of an incident: the verification that ends it   *)
(* (Verify), for every settling time, interval, number of checks, timeout  *)
(* and number of attempts; and the patches of the Deployment (Cluster),    *)
(* for any number of executors, releases, revisions and restarts.          *)
(***************************************************************************)
EXTENDS Verify, Cluster, SequenceTheorems, TLAPS

-----------------------------------------------------------------------------
(* Verify: the inductive invariant                                         *)

Audit == [passed: BOOLEAN, samples: Seq(Sample)]
IncidentRow == [state: {"VERIFYING", "RESOLVED", "ESCALATED"}, updated_at: Time, checked: BOOLEAN]
JobRow == [status: {"queued", "leased", "dead", "done"}, attempt: 0..MaxAttempts, due: {Settle}]

TypeOK ==
    /\ now \in Time
    /\ incident \in IncidentRow
    /\ job \in JobRow
    /\ runs \in [Attempts -> Run]
    /\ audited \in Seq(Audit)

\* A run begins with its claim, and no run is claimed before the service has settled;
\* the queue has an attempt left for a job that waits.
AttemptsInOrder ==
    /\ job.status = "queued" => job.attempt < MaxAttempts
    /\ job.status = "leased" => job.attempt >= 1
    /\ \A a \in Attempts : a > job.attempt => runs[a] = NoRun
    /\ job.attempt >= 1 => now >= Settle

\* What the samples of a run say: taken after the settling time and an interval
\* apart, the next one not before the run wakes; the streak is a run of healthy
\* ones at the end.
SamplesOf(r) ==
    /\ Len(r.samples) <= HealthyChecks /\ r.streak <= Len(r.samples)
    /\ r.pc \in {"idle", "start"} => r.samples = <<>>
    /\ r.pc = "sampling" => r.streak < HealthyChecks
    /\ r.pc = "passed" => r.streak = HealthyChecks
    /\ \A i \in 1..Len(r.samples) : r.samples[i].at >= Settle
    /\ \A i \in 1..Len(r.samples) - 1 : r.samples[i + 1].at - r.samples[i].at >= Interval
    /\ \A i \in 1..Len(r.samples) : i = Len(r.samples) => r.samples[i].at + Interval <= r.wake
    /\ \A i \in 1..Len(r.samples) : i > Len(r.samples) - r.streak => r.samples[i].value = "healthy"

\* A deadline is no earlier than the full time, and who gives up has waited for it.
DeadlineOf(r) ==
    /\ r.pc = "sampling" => r.deadline >= Settle + Timeout
    /\ r.pc = "failed" /\ incident.checked => now >= Settle + Timeout

RunsEarned == \A a \in Attempts : SamplesOf(runs[a]) /\ DeadlineOf(runs[a])

VerifyInv == TypeOK /\ AttemptsInOrder /\ RunsEarned /\ VerdictEarned

-----------------------------------------------------------------------------
(* The samples of a run                                                    *)

\* What is kept of the samples is the last HealthyChecks of them, in order.
After(q, x) == KeepLast(Append(q, x))

LEMMA KeepAppended ==
    ASSUME NEW q \in Seq(Sample), Len(q) <= HealthyChecks, NEW x \in Sample
    PROVE  /\ After(q, x) \in Seq(Sample)
           /\ Len(After(q, x)) = IF Len(q) < HealthyChecks THEN Len(q) + 1 ELSE HealthyChecks
           /\ After(q, x)[Len(After(q, x))] = x
           /\ \A i \in 1..Len(After(q, x)) - 1 :
                 After(q, x)[i] = q[i + (Len(q) + 1 - Len(After(q, x)))]
<1> DEFINE s == After(q, x)
<1> DEFINE p == Append(q, x)
<1>1. /\ p \in Seq(Sample) /\ Len(q) \in Nat /\ Len(p) = Len(q) + 1 /\ p[Len(q) + 1] = x
      /\ \A i \in 1..Len(q) : p[i] = q[i]
  BY AppendProperties, LenProperties
<1>2. HealthyChecks \in Nat \ {0}
  BY VerifyConstants
<1> HIDE DEF p
<1>3. CASE Len(q) < HealthyChecks
  <2>1. s = p
    BY <1>1, <1>2, <1>3 DEF KeepLast, After, p
  <2> QED BY <1>1, <1>3, <2>1
<1>4. CASE Len(q) = HealthyChecks
  <2> DEFINE m == Len(p) - HealthyChecks + 1
  <2>1. m = 2 /\ m \in Int /\ Len(p) \in Int /\ Len(p) = HealthyChecks + 1
    BY <1>1, <1>2, <1>4
  <2>2. s = SubSeq(p, m, Len(p))
    <3>1. ~(Len(p) <= HealthyChecks)
      BY <1>2, <2>1
    <3> HIDE DEF m
    <3>2. s = SubSeq(p, Len(p) - HealthyChecks + 1, Len(p))
      BY <3>1 DEF KeepLast, After, p
    <3> QED BY <3>2 DEF m
  <2>3. \A i \in m..Len(p) : p[i] \in Sample
    <3>1. \A i \in 1..Len(p) : p[i] \in Sample
      BY <1>1, ElementOfSeq
    <3> QED BY <2>1, <3>1
  <2> HIDE DEF m, s
  <2>4. /\ s \in Seq(Sample) /\ Len(s) = IF m <= Len(p) THEN Len(p) - m + 1 ELSE 0
        /\ \A i \in 1..Len(p) - m + 1 : s[i] = p[m + i - 1]
    BY <2>1, <2>2, <2>3, SubSeqProperties
  <2>5. Len(s) = HealthyChecks
    BY <1>2, <2>1, <2>4
  <2>6. \A i \in 1..Len(s) : s[i] = p[i + 1]
    <3> SUFFICES ASSUME NEW i \in 1..Len(s) PROVE s[i] = p[i + 1]
      OBVIOUS
    <3>1. i \in 1..Len(p) - m + 1 /\ m + i - 1 = i + 1
      BY <1>2, <2>1, <2>5
    <3> QED BY <2>4, <3>1
  <2>7. s[Len(s)] = x
    BY <1>1, <1>2, <1>4, <2>5, <2>6
  <2>8. \A i \in 1..Len(s) - 1 : s[i] = q[i + (Len(q) + 1 - Len(s))]
    <3> SUFFICES ASSUME NEW i \in 1..Len(s) - 1 PROVE s[i] = q[i + (Len(q) + 1 - Len(s))]
      OBVIOUS
    <3>1. i \in 1..Len(s) /\ i + 1 \in 1..Len(q) /\ i + (Len(q) + 1 - Len(s)) = i + 1
      BY <1>2, <1>4, <2>5
    <3> QED BY <1>1, <2>6, <3>1
  <2> QED BY <1>2, <1>4, <2>4, <2>5, <2>7, <2>8 DEF s
<1> QED BY <1>1, <1>2, <1>3, <1>4

\* A sample more: it is no earlier than the run woke, and the streak goes on only
\* if it is healthy.
LEMMA SampleTaken ==
    ASSUME NEW r \in Run, SamplesOf(r), r.pc = "sampling",
           NEW t \in Time, t >= Settle, r.wake <= t, NEW value \in Values,
           NEW r2 \in Run, r2.streak = Streak(r.streak, value),
           r2.samples = KeepLast(Append(r.samples, [at |-> t, value |-> value])),
           r2.wake = t + Interval,
           r2.pc \in {"passed", "failed", "sampling"},
           r2.pc = "passed" <=> r2.streak >= HealthyChecks
    PROVE  SamplesOf(r2)
<1> DEFINE q == r.samples  x == [at |-> t, value |-> value]  s == r2.samples
           off == Len(q) + 1 - Len(s)
<1>0. HealthyChecks \in Nat \ {0} /\ Settle \in Nat /\ Interval \in Nat /\ t \in Nat /\ t + Interval \in Nat
  BY VerifyConstants DEF Time
<1>1. /\ q \in Seq(Sample) /\ Len(q) \in Nat /\ Len(q) <= HealthyChecks
      /\ x \in Sample /\ x.at = t /\ x.value = value
      /\ r.streak \in Nat /\ r.streak <= Len(q) /\ r.streak < HealthyChecks /\ r.wake \in Int
      /\ r2.streak \in 0..HealthyChecks
  <2>1. q \in Seq(Sample) /\ r.streak \in Nat /\ r.wake \in Int /\ r2.streak \in 0..HealthyChecks
    BY <1>0 DEF Run
  <2>2. Len(q) <= HealthyChecks /\ r.streak <= Len(q) /\ r.streak < HealthyChecks
    BY DEF SamplesOf
  <2>3. x \in Sample
    BY DEF Sample
  <2> QED BY <2>1, <2>2, <2>3, LenProperties
<1> HIDE DEF x, q
<1>2. /\ s \in Seq(Sample) /\ s[Len(s)] = x
      /\ Len(s) = IF Len(q) < HealthyChecks THEN Len(q) + 1 ELSE HealthyChecks
      /\ \A i \in 1..Len(s) - 1 : s[i] = q[i + off]
  <2>1. s = After(q, x)
    BY DEF q, x, After
  <2> HIDE DEF s
  <2> QED BY <1>1, <2>1, KeepAppended
<1>3. Len(s) \in 1..HealthyChecks /\ off \in {0, 1} /\ Len(q) + 1 = Len(s) + off
  BY <1>0, <1>1, <1>2
<1>4. /\ \A i \in 1..Len(q) : q[i] \in Sample
      /\ \A i \in 1..Len(s) : s[i] \in Sample
  BY <1>1, <1>2, ElementOfSeq
<1> HIDE DEF s, off
<1>5. \A i \in 1..Len(s) - 1 : i + off \in 1..Len(q) /\ s[i] = q[i + off]
  BY <1>1, <1>2, <1>3
<1>6. \A i \in 1..Len(s) : s[i].at >= Settle
  <2> SUFFICES ASSUME NEW i \in 1..Len(s) PROVE s[i].at >= Settle
    OBVIOUS
  <2>1. CASE i = Len(s)
    BY <1>1, <1>2, <2>1
  <2>2. CASE i # Len(s)
    <3>1. i \in 1..Len(s) - 1
      BY <1>3, <2>2
    <3> QED BY <1>5, <3>1 DEF SamplesOf, q
  <2> QED BY <2>1, <2>2
<1>7. \A i \in 1..Len(s) - 1 : s[i + 1].at - s[i].at >= Interval
  <2> SUFFICES ASSUME NEW i \in 1..Len(s) - 1 PROVE s[i + 1].at - s[i].at >= Interval
    OBVIOUS
  <2>0. i + off \in 1..Len(q) /\ s[i] = q[i + off] /\ i + 1 \in 1..Len(s) /\ i \in 1..Len(s)
    BY <1>3, <1>5
  <2>1. CASE i + 1 = Len(s)
    <3>1. i + off = Len(q)
      BY <1>1, <1>3, <2>1
    <3>2. q[i + off].at + Interval <= r.wake
      BY <2>0, <3>1 DEF SamplesOf, q
    <3>3. q[i + off].at \in Nat
      BY <1>4, <2>0 DEF Sample, Time
    <3>4. s[i + 1].at = t /\ s[i].at = q[i + off].at
      BY <1>1, <1>2, <2>0, <2>1
    <3>5. r.wake \in Int /\ r.wake <= t /\ Interval \in Nat /\ t \in Nat
      BY <1>0, <1>1
    <3> DEFINE a == q[i + off].at
    <3>6. a \in Nat /\ a + Interval <= r.wake
      BY <3>2, <3>3
    <3> HIDE DEF a
    <3>7. t - a >= Interval
      BY <3>5, <3>6
    <3> QED BY <3>4, <3>7 DEF a
  <2>2. CASE i + 1 # Len(s)
    <3>1. i + 1 \in 1..Len(s) - 1 /\ (i + 1) + off = (i + off) + 1
      BY <1>3, <2>0, <2>2
    <3>2. i + off \in 1..Len(q) - 1
      BY <1>1, <1>3, <2>0, <3>1
    <3>3. q[(i + off) + 1].at - q[i + off].at >= Interval
      BY <3>2 DEF SamplesOf, q
    <3>4. s[i + 1] = q[(i + off) + 1]
      BY <1>5, <3>1
    <3> QED BY <2>0, <3>3, <3>4
  <2> QED BY <2>1, <2>2
<1>8. \A i \in 1..Len(s) : i = Len(s) => s[i].at + Interval <= r2.wake
  <2>1. s[Len(s)].at = t
    BY <1>1, <1>2
  <2>2. r2.wake = t + Interval /\ t + Interval <= r2.wake
    BY <1>0
  <2> QED BY <2>1, <2>2
<1>9. r2.streak <= Len(s) /\ \A i \in 1..Len(s) : i > Len(s) - r2.streak => s[i].value = "healthy"
  <2>1. CASE value = "healthy"
    <3>1. r2.streak = r.streak + 1
      BY <2>1 DEF Streak
    <3>2. r2.streak <= Len(s)
      BY <1>0, <1>1, <1>2, <3>1
    <3>3. ASSUME NEW i \in 1..Len(s), i > Len(s) - r2.streak PROVE s[i].value = "healthy"
      <4>1. CASE i = Len(s)
        BY <1>1, <1>2, <2>1, <4>1
      <4>2. CASE i # Len(s)
        <5>1. i \in 1..Len(s) - 1
          BY <1>3, <4>2
        <5>2. i + off \in 1..Len(q) /\ s[i] = q[i + off]
          BY <1>5, <5>1
        <5>3. i + off > Len(q) - r.streak
          BY <1>1, <1>3, <3>1, <3>3
        <5> QED BY <5>2, <5>3 DEF SamplesOf, q
      <4> QED BY <4>1, <4>2
    <3> QED BY <3>2, <3>3
  <2>2. CASE value # "healthy"
    <3>1. r2.streak = 0
      BY <2>2 DEF Streak
    <3> QED BY <1>3, <3>1
  <2> QED BY <2>1, <2>2
<1>10. Len(s) <= HealthyChecks /\ r2.streak <= Len(s)
  BY <1>0, <1>3, <1>9
<1>11. /\ r2.pc \in {"idle", "start"} => s = <<>>
       /\ r2.pc = "sampling" => r2.streak < HealthyChecks
       /\ r2.pc = "passed" => r2.streak = HealthyChecks
  BY <1>0, <1>1
<1> QED BY <1>6, <1>7, <1>8, <1>9, <1>10, <1>11 DEF SamplesOf, s

-----------------------------------------------------------------------------
(* The steps                                                               *)

\* The runs of a step that changes one of them, with time going on.
LEMMA OneRun ==
    ASSUME VerifyInv, NEW a \in Attempts, NEW r \in Run, runs' = [runs EXCEPT ![a] = r],
           now' \in Time, now <= now', incident'.checked = incident.checked,
           SamplesOf(r),
           r.pc = "sampling" => r.deadline >= Settle + Timeout,
           r.pc = "failed" /\ incident.checked => now' >= Settle + Timeout
    PROVE  RunsEarned' /\ runs' \in [Attempts -> Run]
<1>1. runs \in [Attempts -> Run] /\ runs' \in [Attempts -> Run] /\ runs'[a] = r
      /\ \A b \in Attempts : b # a => runs'[b] = runs[b]
  BY DEF VerifyInv, TypeOK
<1>2. now \in Nat /\ now' \in Nat /\ Settle + Timeout \in Nat
  BY VerifyConstants DEF VerifyInv, TypeOK, Time
<1>3. SUFFICES ASSUME NEW b \in Attempts PROVE SamplesOf(runs'[b]) /\ DeadlineOf(runs[b])'
  BY <1>1 DEF RunsEarned, SamplesOf
<1>4. CASE b = a
  BY <1>1, <1>4 DEF DeadlineOf
<1>5. CASE b # a
  <2>1. SamplesOf(runs[b]) /\ DeadlineOf(runs[b]) /\ runs'[b] = runs[b]
    BY <1>1, <1>5 DEF VerifyInv, RunsEarned
  <2> QED BY <1>2, <2>1 DEF DeadlineOf
<1> QED BY <1>4, <1>5

LEMMA RunsKept ==
    ASSUME VerifyInv, runs' = runs, now' \in Time, now <= now',
           incident'.checked = incident.checked
    PROVE  RunsEarned'
<1>1. now \in Nat /\ now' \in Nat /\ Settle + Timeout \in Nat
  BY VerifyConstants DEF VerifyInv, TypeOK, Time
<1>2. SUFFICES ASSUME NEW b \in Attempts PROVE SamplesOf(runs[b]) /\ DeadlineOf(runs[b])'
  BY DEF RunsEarned, SamplesOf
<1>3. SamplesOf(runs[b]) /\ DeadlineOf(runs[b])
  BY DEF VerifyInv, RunsEarned
<1> QED BY <1>1, <1>3 DEF DeadlineOf

\* The verdict stands while nobody gives one.
LEMMA VerdictKept ==
    ASSUME VerifyInv, audited' = audited, now' \in Time, now <= now',
           incident'.state = incident.state, incident'.checked = incident.checked
    PROVE  VerdictEarned'
<1>1. now \in Nat /\ now' \in Nat /\ Settle + Timeout \in Nat
  BY VerifyConstants DEF VerifyInv, TypeOK, Time
<1>2. ResolvedByAStreak'
  BY DEF VerifyInv, VerdictEarned, ResolvedByAStreak
<1>3. FullTime'
  BY <1>1 DEF VerifyInv, VerdictEarned, FullTime
<1>4. OneVerdict'
  BY DEF VerifyInv, VerdictEarned, OneVerdict
<1> QED BY <1>2, <1>3, <1>4 DEF VerdictEarned

\* An attempt is over: the job waits for the next one, if there is one.
LEMMA FailedJob ==
    ASSUME VerifyInv, job.status = "leased"
    PROVE  /\ Failed \in JobRow /\ Failed.attempt = job.attempt
           /\ Failed.status \in {"dead", "queued"}
           /\ Failed.status = "queued" => job.attempt < MaxAttempts
<1>1. job.attempt \in Nat /\ job.attempt <= MaxAttempts /\ job \in JobRow /\ MaxAttempts \in Nat
  BY VerifyConstants DEF VerifyInv, TypeOK, JobRow
<1>2. CASE job.attempt = MaxAttempts
  BY <1>1, <1>2 DEF Failed, JobRow
<1>3. CASE job.attempt # MaxAttempts
  BY <1>1, <1>3 DEF Failed, JobRow
<1> QED BY <1>2, <1>3

LEMMA EmptyRun ==
    /\ NoRun \in Run /\ [NoRun EXCEPT !.pc = "ended"] \in Run
    /\ SamplesOf([NoRun EXCEPT !.pc = "ended"]) /\ SamplesOf(NoRun)
    /\ [NoRun EXCEPT !.pc = "ended"].pc = "ended" /\ NoRun.pc = "idle" /\ NoRun.samples = <<>>
<1>1. NoRun.samples = <<>> /\ NoRun.streak = 0 /\ NoRun.pc = "idle" /\ NoRun.deadline = 0 /\ NoRun.wake = 0
  BY DEF NoRun
<1> DEFINE r == [NoRun EXCEPT !.pc = "ended"]
<1>2. r.samples = <<>> /\ r.streak = 0 /\ r.pc = "ended" /\ r.deadline = 0 /\ r.wake = 0
  BY DEF NoRun
<1>3. 0 \in 0..HealthyChecks /\ HealthyChecks \in Nat \ {0}
  BY VerifyConstants
<1>4. Len(<<>>) = 0 /\ <<>> \in Seq(Sample)
  BY EmptySeq
<1>5. NoRun \in Run
  BY <1>3, <1>4 DEF NoRun, Run
<1>6. r \in Run
  BY <1>5 DEF Run
<1>7. SamplesOf(r)
  BY <1>2, <1>3, <1>4 DEF SamplesOf
<1>8. SamplesOf(NoRun)
  BY <1>1, <1>3, <1>4 DEF SamplesOf
<1> QED BY <1>1, <1>2, <1>5, <1>6, <1>7, <1>8

LEMMA InitInv == VerifyInit => VerifyInv
<1> SUFFICES ASSUME VerifyInit PROVE VerifyInv
  OBVIOUS
<1>1. /\ now = 0 /\ incident.state = "VERIFYING" /\ incident.checked \in BOOLEAN
      /\ job.status = "queued" /\ job.attempt = 0 /\ audited = <<>>
      /\ \A a \in Attempts : runs[a] = NoRun
  BY DEF VerifyInit
<1>2. TypeOK
  <2>1. now \in Time
    BY <1>1, VerifyConstants DEF Time
  <2>2. incident \in IncidentRow
    BY VerifyConstants DEF VerifyInit, IncidentRow, Time
  <2>3. job \in JobRow
    BY VerifyConstants DEF VerifyInit, JobRow
  <2>4. runs \in [Attempts -> Run]
    BY EmptyRun DEF VerifyInit
  <2>5. audited \in Seq(Audit)
    BY <1>1, EmptySeq
  <2> QED BY <2>1, <2>2, <2>3, <2>4, <2>5 DEF TypeOK
<1>3. AttemptsInOrder
  BY <1>1, VerifyConstants DEF AttemptsInOrder
<1>4. RunsEarned
  BY <1>1, EmptyRun DEF RunsEarned, DeadlineOf
<1>5. VerdictEarned
  BY <1>1 DEF VerdictEarned, ResolvedByAStreak, FullTime, OneVerdict
<1> QED BY <1>2, <1>3, <1>4, <1>5 DEF VerifyInv

LEMMA TickInv == ASSUME VerifyInv, Tick PROVE VerifyInv'
<1>1. now' \in Time /\ now <= now' /\ now \in Nat /\ now' \in Nat
  BY VerifyConstants DEF Tick, VerifyInv, TypeOK, Time
<1>2. TypeOK'
  BY <1>1 DEF Tick, VerifyInv, TypeOK
<1>3. AttemptsInOrder'
  BY <1>1, VerifyConstants DEF Tick, VerifyInv, AttemptsInOrder
<1> QED BY <1>1, <1>2, <1>3, RunsKept, VerdictKept DEF Tick, VerifyInv

LEMMA MergeInv == ASSUME VerifyInv, Merge PROVE VerifyInv'
<1>1. incident' \in IncidentRow /\ incident'.state = incident.state /\ incident'.checked = incident.checked
  BY DEF Merge, VerifyInv, TypeOK, IncidentRow
<1>2. now' \in Time /\ now <= now'
  BY DEF Merge, VerifyInv, TypeOK, Time
<1>3. TypeOK'
  BY <1>1 DEF Merge, VerifyInv, TypeOK
<1>4. AttemptsInOrder'
  BY DEF Merge, VerifyInv, AttemptsInOrder
<1> QED BY <1>1, <1>2, <1>3, <1>4, RunsKept, VerdictKept DEF Merge, VerifyInv

LEMMA ClaimInv == ASSUME VerifyInv, Claim PROVE VerifyInv'
<1> DEFINE a == job.attempt + 1
           r == [NoRun EXCEPT !.pc = "start"]
<1>1. /\ a \in Attempts /\ a \in Nat /\ job.attempt \in Nat /\ job \in JobRow
      /\ job' = [job EXCEPT !.status = "leased", !.attempt = a]
  BY VerifyConstants DEF Claim, VerifyInv, TypeOK, AttemptsInOrder, JobRow, Attempts
<1>2. job'.attempt = a /\ job'.status = "leased" /\ job' \in JobRow
  <2>1. a \in 0..MaxAttempts
    BY <1>1 DEF Attempts
  <2> HIDE DEF a
  <2> QED BY <1>1, <2>1 DEF JobRow
<1>3. runs[a] = NoRun /\ runs' = [runs EXCEPT ![a] = r]
  <2>1. runs[a] = NoRun
    BY <1>1 DEF VerifyInv, AttemptsInOrder
  <2> QED BY <1>1, <1>2, <2>1 DEF Claim, VerifyInv, TypeOK
<1>4. r \in Run /\ r.samples = <<>> /\ r.streak = 0 /\ r.pc = "start"
  BY EmptyRun DEF NoRun, Run
<1>5. SamplesOf(r)
  <2>1. Len(<<>>) = 0 /\ HealthyChecks \in Nat \ {0}
    BY EmptySeq, VerifyConstants
  <2> QED BY <1>4, <2>1 DEF SamplesOf
<1>6. now' \in Time /\ now <= now' /\ incident' = incident
  BY DEF Claim, VerifyInv, TypeOK, Time
<1> HIDE DEF r
<1>7. RunsEarned' /\ runs' \in [Attempts -> Run]
  BY <1>1, <1>3, <1>4, <1>5, <1>6, OneRun
<1>8. TypeOK'
  BY <1>2, <1>7 DEF Claim, VerifyInv, TypeOK
<1>9. AttemptsInOrder'
  <2>1. now' >= Settle
    BY DEF Claim, VerifyInv, TypeOK, JobRow
  <2>2. \A b \in Attempts : b > a => runs'[b] = NoRun
    <3> SUFFICES ASSUME NEW b \in Attempts, b > a PROVE runs'[b] = NoRun
      OBVIOUS
    <3>1. b > job.attempt /\ b # a
      BY <1>1 DEF Attempts
    <3> QED BY <1>3, <3>1 DEF VerifyInv, TypeOK, AttemptsInOrder
  <2>3. a >= 1
    BY <1>1
  <2> HIDE DEF a
  <2> QED BY <1>2, <2>1, <2>2, <2>3 DEF AttemptsInOrder
<1>10. VerdictEarned'
  BY <1>6, VerdictKept DEF Claim
<1> QED BY <1>7, <1>8, <1>9, <1>10 DEF VerifyInv

LEMMA LeaseExpiresInv == ASSUME VerifyInv, LeaseExpires PROVE VerifyInv'
<1>1. now' \in Time /\ now <= now'
  BY DEF LeaseExpires, VerifyInv, TypeOK, Time
<1>2. TypeOK'
  BY FailedJob DEF LeaseExpires, VerifyInv, TypeOK
<1>3. AttemptsInOrder'
  BY FailedJob DEF LeaseExpires, VerifyInv, AttemptsInOrder
<1> QED BY <1>1, <1>2, <1>3, RunsKept, VerdictKept DEF LeaseExpires, VerifyInv

\* A run that ends, whatever becomes of its job.
LEMMA RunEnds ==
    ASSUME VerifyInv, NEW a \in Attempts, runs[a].pc # "idle",
           runs' = [runs EXCEPT ![a] = [NoRun EXCEPT !.pc = "ended"]],
           UNCHANGED <<now, incident, audited>>,
           job' \in JobRow, job'.attempt = job.attempt,
           job'.status = "queued" => job.attempt < MaxAttempts,
           job'.status = "leased" => job.status = "leased"
    PROVE  VerifyInv'
<1> DEFINE r == [NoRun EXCEPT !.pc = "ended"]
<1>1. r \in Run /\ SamplesOf(r) /\ r.pc = "ended"
  BY EmptyRun
<1> HIDE DEF r
<1>2. now' \in Time /\ now <= now' /\ now' = now
  BY DEF VerifyInv, TypeOK, Time
<1>3. RunsEarned' /\ runs' \in [Attempts -> Run]
  BY <1>1, <1>2, OneRun DEF r
<1>4. TypeOK'
  BY <1>3 DEF VerifyInv, TypeOK
<1>5. AttemptsInOrder'
  <2>1. \A b \in Attempts : b > job.attempt => b # a
    BY EmptyRun DEF VerifyInv, AttemptsInOrder
  <2>2. \A b \in Attempts : b > job.attempt => runs'[b] = NoRun
    BY <2>1 DEF VerifyInv, TypeOK, AttemptsInOrder
  <2> QED BY <1>2, <2>2 DEF VerifyInv, AttemptsInOrder
<1>6. VerdictEarned'
  BY <1>2, VerdictKept
<1> QED BY <1>3, <1>4, <1>5, <1>6 DEF VerifyInv

LEMMA RunFailsInv == ASSUME VerifyInv, NEW a \in Attempts, RunFails(a) PROVE VerifyInv'
<1>1. job \in JobRow
  BY DEF VerifyInv, TypeOK
<1>2. CASE Owns(a)
  <2>1. job' = Failed /\ job.status = "leased"
    BY <1>2 DEF RunFails, Owns
  <2> QED BY <2>1, FailedJob, RunEnds DEF RunFails
<1>3. CASE ~Owns(a)
  <2>1. job' = job /\ (job.status = "queued" => job.attempt < MaxAttempts)
    BY <1>3 DEF RunFails, VerifyInv, AttemptsInOrder
  <2> QED BY <1>1, <2>1, RunEnds DEF RunFails
<1> QED BY <1>2, <1>3

LEMMA ReturnInv == ASSUME VerifyInv, NEW a \in Attempts, Return(a) PROVE VerifyInv'
<1>1. /\ job \in JobRow /\ runs[a].pc # "idle"
      /\ job.status = "queued" => job.attempt < MaxAttempts
  BY DEF VerifyInv, TypeOK, AttemptsInOrder, Return
<1>2. CASE Owns(a)
  <2>1. job' = [job EXCEPT !.status = "done"] /\ job.status = "leased"
    BY <1>2 DEF Return, Owns
  <2>2. job' \in JobRow /\ job'.attempt = job.attempt /\ job'.status = "done"
    BY <1>1, <2>1 DEF JobRow
  <2> QED BY <1>1, <2>2, RunEnds DEF Return
<1>3. CASE ~Owns(a)
  <2>1. job' = job
    BY <1>3 DEF Return
  <2> QED BY <1>1, <2>1, RunEnds DEF Return
<1> QED BY <1>2, <1>3

\* A run that goes on, and gives no verdict.
LEMMA RunGoesOn ==
    ASSUME VerifyInv, NEW a \in Attempts, NEW r \in Run, runs[a].pc # "idle",
           runs' = [runs EXCEPT ![a] = r], UNCHANGED <<now, incident, job, audited>>,
           SamplesOf(r),
           r.pc = "sampling" => r.deadline >= Settle + Timeout,
           r.pc = "failed" /\ incident.checked => now >= Settle + Timeout
    PROVE  VerifyInv'
<1>1. now' \in Time /\ now <= now' /\ now' = now
  BY DEF VerifyInv, TypeOK, Time
<1>2. RunsEarned' /\ runs' \in [Attempts -> Run]
  BY <1>1, OneRun
<1>3. TypeOK'
  BY <1>2 DEF VerifyInv, TypeOK
<1>4. AttemptsInOrder'
  <2>1. \A b \in Attempts : b > job.attempt => b # a
    BY EmptyRun DEF VerifyInv, AttemptsInOrder
  <2>2. \A b \in Attempts : b > job.attempt => runs'[b] = NoRun
    BY <2>1 DEF VerifyInv, TypeOK, AttemptsInOrder
  <2> QED BY <1>1, <2>2 DEF VerifyInv, AttemptsInOrder
<1>5. VerdictEarned'
  BY <1>1, VerdictKept
<1> QED BY <1>2, <1>3, <1>4, <1>5 DEF VerifyInv

LEMMA BeginInv == ASSUME VerifyInv, NEW a \in Attempts, Begin(a) PROVE VerifyInv'
<1> DEFINE pc == IF incident.state # "VERIFYING" THEN "return"
                 ELSE IF incident.checked THEN "sampling" ELSE "failed"
           deadline == incident.updated_at + Settle + Timeout
           r0 == runs[a]
           r1 == [r0 EXCEPT !.pc = pc]
           r2 == [r1 EXCEPT !.deadline = deadline]
           r == [r2 EXCEPT !.wake = now]
<1>1. /\ r0 \in Run /\ r0.pc = "start" /\ SamplesOf(r0)
      /\ runs' = [runs EXCEPT ![a] = r] /\ UNCHANGED <<now, incident, job, audited>>
  BY DEF Begin, VerifyInv, TypeOK, RunsEarned
<1>2. /\ pc \in {"return", "sampling", "failed"}
      /\ pc = "failed" => ~incident.checked
  OBVIOUS
<1>3. deadline \in Int /\ deadline >= Settle + Timeout /\ now \in Int
  BY VerifyConstants DEF VerifyInv, TypeOK, IncidentRow, Time
<1> HIDE DEF pc, deadline, r0
<1>4. r \in Run
  <2>1. pc \in {"idle", "start", "sampling", "passed", "failed", "return", "ended"}
    BY <1>2
  <2>2. r1 \in Run
    BY <1>1, <2>1 DEF Run
  <2>3. r2 \in Run
    BY <1>3, <2>2 DEF Run
  <2> HIDE DEF r1, r2
  <2> QED BY <1>3, <2>3 DEF Run
<1>5. r.pc = pc /\ r.deadline = deadline /\ r.samples = r0.samples /\ r.streak = r0.streak
  BY <1>1 DEF Run
<1> HIDE DEF r
<1>6. r0.samples = <<>> /\ r0.streak \in Nat /\ r0.streak <= Len(r0.samples)
  BY <1>1, VerifyConstants DEF SamplesOf, Run
<1>7. SamplesOf(r)
  <2>1. Len(<<>>) = 0 /\ HealthyChecks \in Nat \ {0}
    BY EmptySeq, VerifyConstants
  <2>2. r.samples = <<>> /\ r.streak = 0 /\ r.pc \notin {"idle", "start", "passed"}
    BY <1>2, <1>5, <1>6, <2>1
  <2> QED BY <2>1, <2>2 DEF SamplesOf
<1> QED BY <1>1, <1>2, <1>3, <1>4, <1>5, <1>7, RunGoesOn DEF r0

LEMMA TakeSampleInv ==
    ASSUME VerifyInv, NEW a \in Attempts, NEW value \in Values, TakeSample(a, value)
    PROVE  VerifyInv'
<1> DEFINE r0 == runs[a]
           streak == Streak(r0.streak, value)
           samples == KeepLast(Append(r0.samples, [at |-> now, value |-> value]))
           pc == IF streak >= HealthyChecks THEN "passed"
                 ELSE IF now >= r0.deadline THEN "failed" ELSE "sampling"
           wake == now + Interval
           r1 == [r0 EXCEPT !.streak = streak]
           r2 == [r1 EXCEPT !.samples = samples]
           r3 == [r2 EXCEPT !.pc = pc]
           r == [r3 EXCEPT !.wake = wake]
<1>1. /\ r0 \in Run /\ r0.pc = "sampling" /\ SamplesOf(r0) /\ r0.wake <= now
      /\ UNCHANGED <<now, incident, job, audited>>
      /\ r0.deadline >= Settle + Timeout
  BY DEF TakeSample, VerifyInv, TypeOK, RunsEarned, DeadlineOf
<1>2. runs' = [runs EXCEPT ![a] = r]
  BY DEF TakeSample, VerifyInv, TypeOK
<1>3. /\ pc \in {"passed", "failed", "sampling"}
      /\ pc = "passed" <=> streak >= HealthyChecks
      /\ pc = "failed" => now >= r0.deadline
  OBVIOUS
<1>4. /\ now \in Time /\ now \in Nat /\ wake \in Int /\ now >= Settle
      /\ r0.deadline \in Int /\ Settle + Timeout \in Nat
  <2>1. a <= job.attempt /\ job.attempt >= 1
    <3>1. ~(a > job.attempt)
      BY <1>1, EmptyRun DEF VerifyInv, AttemptsInOrder
    <3> QED BY <3>1 DEF VerifyInv, TypeOK, JobRow, Attempts
  <2>2. now >= Settle
    BY <2>1 DEF VerifyInv, AttemptsInOrder
  <2>3. now \in Time /\ r0.deadline \in Int
    BY <1>1 DEF VerifyInv, TypeOK, Run
  <2> QED BY <2>2, <2>3, VerifyConstants DEF Time
<1>5. r0.streak \in Nat /\ r0.streak < HealthyChecks /\ HealthyChecks \in Nat /\ r0.samples \in Seq(Sample)
      /\ Len(r0.samples) <= HealthyChecks
  BY <1>1, VerifyConstants DEF Run, SamplesOf
<1>6. streak \in 0..HealthyChecks
  <2>1. streak = r0.streak + 1 \/ streak = 0
    BY DEF Streak
  <2> HIDE DEF streak
  <2> QED BY <1>5, <2>1
<1>7. samples \in Seq(Sample)
  <2>1. [at |-> now, value |-> value] \in Sample
    BY <1>4 DEF Sample
  <2> QED BY <1>5, <2>1, KeepAppended DEF After
<1> HIDE DEF streak, samples, pc, wake
<1>8. r \in Run
  <2>1. pc \in {"idle", "start", "sampling", "passed", "failed", "return", "ended"}
    BY <1>3
  <2>2. r1 \in Run
    BY <1>1, <1>6 DEF Run
  <2> HIDE DEF r1
  <2>3. r2 \in Run
    BY <1>7, <2>2 DEF Run
  <2> HIDE DEF r2
  <2>4. r3 \in Run
    BY <2>1, <2>3 DEF Run
  <2> HIDE DEF r3
  <2> QED BY <1>4, <2>4 DEF Run
<1>9. r.streak = streak /\ r.samples = samples /\ r.pc = pc /\ r.wake = wake /\ r.deadline = r0.deadline
  BY <1>1 DEF Run
<1> HIDE DEF r, r0
<1>10. SamplesOf(r)
  BY <1>1, <1>3, <1>4, <1>8, <1>9, SampleTaken DEF streak, samples, wake
<1>11. /\ r.pc = "sampling" => r.deadline >= Settle + Timeout
       /\ r.pc = "failed" => now >= Settle + Timeout
  BY <1>1, <1>3, <1>4, <1>9
<1> QED BY <1>1, <1>2, <1>8, <1>10, <1>11, RunGoesOn DEF r0

LEMMA VerifiedInv == ASSUME VerifyInv, NEW a \in Attempts, Verified(a) PROVE VerifyInv'
<1> DEFINE r0 == runs[a]
           r == [r0 EXCEPT !.pc = "return"]
<1>1. /\ r0 \in Run /\ r0.pc \in {"passed", "failed"} /\ SamplesOf(r0) /\ DeadlineOf(r0)
      /\ runs' = [runs EXCEPT ![a] = r] /\ UNCHANGED <<now, job>>
  BY DEF Verified, VerifyInv, TypeOK, RunsEarned
<1>2. r \in Run /\ r.pc = "return" /\ r.samples = r0.samples /\ r.streak = r0.streak /\ r.wake = r0.wake
  BY <1>1 DEF Run
<1>3. SamplesOf(r)
  BY <1>1, <1>2 DEF SamplesOf
<1> HIDE DEF r, r0
<1>4. CASE incident.state # "VERIFYING"
  <2>1. UNCHANGED <<now, incident, job, audited>>
    BY <1>4 DEF Verified
  <2> QED BY <1>1, <1>2, <1>3, <2>1, RunGoesOn DEF r0
<1>5. CASE incident.state = "VERIFYING"
  <2> DEFINE passed == r0.pc = "passed"
             e == [passed |-> passed, samples |-> r0.samples]
             state == IF passed THEN "RESOLVED" ELSE "ESCALATED"
  <2>1. /\ audited' = Append(audited, e)
        /\ incident' = [incident EXCEPT !.state = state, !.updated_at = now]
    BY <1>5 DEF Verified, Verdict, r0
  <2>2. /\ incident'.state = state /\ incident'.checked = incident.checked
        /\ incident' \in IncidentRow
    BY <2>1 DEF VerifyInv, TypeOK, IncidentRow
  <2>3. now' \in Time /\ now <= now' /\ now' = now
    BY <1>1 DEF VerifyInv, TypeOK, Time
  <2>4. RunsEarned' /\ runs' \in [Attempts -> Run]
    BY <1>1, <1>2, <1>3, <2>2, <2>3, OneRun
  <2>5. r0.samples \in Seq(Sample) /\ passed \in BOOLEAN
    BY <1>1 DEF Run
  <2>6. e \in Audit /\ e.passed = passed /\ e.samples = r0.samples
    <3> HIDE DEF passed
    <3> QED BY <2>5 DEF Audit
  <2>7. audited = <<>>
    BY <1>5 DEF VerifyInv, VerdictEarned, OneVerdict
  <2> HIDE DEF e
  <2>8. audited' \in Seq(Audit) /\ Len(audited') = 1 /\ audited'[1] = e
    <3>1. <<>> \in Seq(Audit) /\ Len(<<>>) = 0
      BY EmptySeq
    <3> QED BY <2>1, <2>6, <2>7, <3>1, AppendProperties
  <2>9. TypeOK'
    BY <2>2, <2>3, <2>4, <2>8, <1>1 DEF VerifyInv, TypeOK
  <2>10. AttemptsInOrder'
    <3>1. \A b \in Attempts : b > job.attempt => b # a
      BY <1>1, EmptyRun DEF VerifyInv, AttemptsInOrder, r0
    <3>2. \A b \in Attempts : b > job.attempt => runs'[b] = NoRun
      BY <1>1, <3>1 DEF VerifyInv, TypeOK, AttemptsInOrder
    <3> QED BY <1>1, <3>2 DEF VerifyInv, AttemptsInOrder
  <2>11. state \in {"RESOLVED", "ESCALATED"} /\ (state = "RESOLVED" <=> passed)
    OBVIOUS
  <2>12. OneVerdict'
    BY <2>2, <2>6, <2>8, <2>11 DEF OneVerdict
  <2>13. FullTime'
    <3>1. ~passed => r0.pc = "failed"
      BY <1>1
    <3>2. r0.pc = "failed" /\ incident.checked => now >= Settle + Timeout
      BY <1>1 DEF DeadlineOf
    <3> QED BY <2>2, <2>3, <2>11, <3>1, <3>2 DEF FullTime
  <2>14. ResolvedByAStreak'
    <3> SUFFICES ASSUME passed
                 PROVE  /\ e.passed /\ Len(e.samples) = HealthyChecks
                        /\ \A i \in 1..HealthyChecks :
                              e.samples[i].value = "healthy" /\ e.samples[i].at >= Settle
                        /\ \A i \in 1..HealthyChecks - 1 : e.samples[i + 1].at - e.samples[i].at >= Interval
      BY <2>2, <2>8, <2>11 DEF ResolvedByAStreak
    <3> DEFINE q == r0.samples
    <3>1. Len(q) = HealthyChecks /\ r0.streak = HealthyChecks /\ HealthyChecks \in Nat
      <4>1. r0.streak = HealthyChecks /\ Len(q) <= HealthyChecks /\ r0.streak <= Len(q)
        BY <1>1 DEF SamplesOf
      <4>2. Len(q) \in Nat
        BY <2>5, LenProperties
      <4> QED BY <4>1, <4>2, VerifyConstants
    <3>2. \A i \in 1..Len(q) : q[i].at >= Settle
      BY <1>1 DEF SamplesOf
    <3>3. \A i \in 1..Len(q) - 1 : q[i + 1].at - q[i].at >= Interval
      BY <1>1 DEF SamplesOf
    <3>4. \A i \in 1..Len(q) : q[i].value = "healthy"
      <4>1. \A i \in 1..Len(q) : i > Len(q) - r0.streak => q[i].value = "healthy"
        BY <1>1 DEF SamplesOf
      <4> QED BY <3>1, <4>1
    <3> QED BY <2>6, <3>1, <3>2, <3>3, <3>4
  <2> QED BY <2>4, <2>9, <2>10, <2>12, <2>13, <2>14 DEF VerifyInv, VerdictEarned
<1> QED BY <1>4, <1>5

-----------------------------------------------------------------------------
(* The theorems                                                            *)

LEMMA StepInv == VerifyInv /\ [VerifyNext]_verifyVars => VerifyInv'
<1> SUFFICES ASSUME VerifyInv, [VerifyNext]_verifyVars PROVE VerifyInv'
  OBVIOUS
<1>1. CASE Tick
  BY <1>1, TickInv
<1>2. CASE Merge
  BY <1>2, MergeInv
<1>3. CASE Claim
  BY <1>3, ClaimInv
<1>4. CASE LeaseExpires
  BY <1>4, LeaseExpiresInv
<1>5. ASSUME NEW a \in Attempts, RunFails(a) PROVE VerifyInv'
  BY <1>5, RunFailsInv
<1>6. ASSUME NEW a \in Attempts, Begin(a) PROVE VerifyInv'
  BY <1>6, BeginInv
<1>7. ASSUME NEW a \in Attempts, Verified(a) PROVE VerifyInv'
  BY <1>7, VerifiedInv
<1>8. ASSUME NEW a \in Attempts, Return(a) PROVE VerifyInv'
  BY <1>8, ReturnInv
<1>9. ASSUME NEW a \in Attempts, NEW value \in Values, TakeSample(a, value) PROVE VerifyInv'
  BY <1>9, TakeSampleInv
<1>10. CASE UNCHANGED verifyVars
  <2>1. UNCHANGED <<now, incident, job, runs, audited>>
    BY <1>10 DEF verifyVars
  <2>2. now' \in Time /\ now <= now'
    BY <2>1 DEF VerifyInv, TypeOK, Time
  <2>3. TypeOK' /\ AttemptsInOrder'
    BY <2>1 DEF VerifyInv, TypeOK, AttemptsInOrder
  <2> QED BY <2>1, <2>2, <2>3, RunsKept, VerdictKept DEF VerifyInv
<1> QED BY <1>1, <1>2, <1>3, <1>4, <1>5, <1>6, <1>7, <1>8, <1>9, <1>10 DEF VerifyNext

\* The verdict on a repair is earned, whichever of the runs gives it: an incident
\* is resolved by a streak of healthy samples of one run, none before the settling
\* time, escalated no sooner than the full time, and judged once.
THEOREM Earned == VerifySpec => []VerdictEarned
<1>1. VerifyInv => VerdictEarned
  BY DEF VerifyInv
<1> QED BY <1>1, InitInv, StepInv, PTL DEF VerifySpec

\* No verify run reads the SLI before the service has settled, and none is of an
\* attempt the queue has not given out.
THEOREM RunsInOrder == VerifySpec => [](TypeOK /\ AttemptsInOrder)
<1>1. VerifyInv => TypeOK /\ AttemptsInOrder
  BY DEF VerifyInv
<1> QED BY <1>1, InitInv, StepInv, PTL DEF VerifySpec

-----------------------------------------------------------------------------
(* The verify job is one of FencedJobs, and so of JobQueue.  What is        *)
(* written under the lease is not told apart here.                         *)

JobKey == "verify"
Queue == INSTANCE FencedJobs WITH
    Keys <- {JobKey},
    state <- [k \in {JobKey} |-> IF job.status = "leased" THEN "running" ELSE job.status],
    epoch <- [k \in {JobKey} |-> job.attempt],
    tries <- [k \in {JobKey} |-> job.attempt],
    written <- [k \in {JobKey} |-> 0]

\* The job was submitted and not tried; then each step is at most one step of it.
UsesFencedJobs ==
    /\ job = [status |-> "queued", attempt |-> 0, due |-> Settle]
    /\ [][Queue!Next]_(Queue!vars)

\* What one step does to the job.
JobMove ==
    \/ job.status = "queued" /\ job' = [job EXCEPT !.status = "leased", !.attempt = @ + 1]
    \/ job.status = "leased" /\ job' = Failed
    \/ job.status = "leased" /\ job' = [job EXCEPT !.status = "done"]

LEMMA JobMoves ==
    ASSUME [VerifyNext]_verifyVars
    PROVE  UNCHANGED job \/ JobMove
<1>1. CASE Tick \/ Merge \/ Claim \/ LeaseExpires
  BY <1>1 DEF Tick, Merge, Claim, LeaseExpires, JobMove
<1>2. ASSUME NEW a \in Attempts, RunFails(a) \/ Return(a)
      PROVE  UNCHANGED job \/ JobMove
  BY <1>2 DEF RunFails, Return, Owns, JobMove
<1>3. ASSUME NEW a \in Attempts, Begin(a) \/ Verified(a) \/ \E value \in Values : TakeSample(a, value)
      PROVE  UNCHANGED job
  BY <1>3 DEF Begin, Verified, TakeSample
<1>4. CASE UNCHANGED verifyVars
  BY <1>4 DEF verifyVars
<1> QED BY <1>1, <1>2, <1>3, <1>4 DEF VerifyNext

LEMMA JobMovesAreSteps ==
    ASSUME VerifyInv, JobMove
    PROVE  Queue!Next
<1>0. /\ job \in JobRow /\ job.attempt \in Nat
      /\ (job.status = "queued" => job.attempt < MaxAttempts)
  BY VerifyConstants DEF VerifyInv, TypeOK, JobRow, AttemptsInOrder
<1>1. CASE job.status = "queued" /\ job' = [job EXCEPT !.status = "leased", !.attempt = @ + 1]
  <2>1. job'.status = "leased" /\ job'.attempt = job.attempt + 1
    BY <1>0, <1>1 DEF JobRow
  <2>2. Queue!Grant(JobKey)
    BY <1>0, <1>1, <2>1 DEF Queue!Grant
  <2> QED BY <2>2 DEF Queue!Next
<1>2. CASE job.status = "leased" /\ job' = Failed
  <2>1. /\ job'.attempt = job.attempt /\ job'.status \in {"dead", "queued"}
        /\ job'.status = "queued" => job.attempt < MaxAttempts
    BY <1>2, FailedJob
  <2>2. Queue!Lose(JobKey)
    <3>1. CASE job'.status = "dead"
      BY <1>2, <2>1, <3>1 DEF Queue!Lose
    <3>2. CASE job'.status = "queued"
      BY <1>2, <2>1, <3>2 DEF Queue!Lose
    <3> QED BY <2>1, <3>1, <3>2
  <2> QED BY <2>2 DEF Queue!Next
<1>3. CASE job.status = "leased" /\ job' = [job EXCEPT !.status = "done"]
  <2>1. job'.attempt = job.attempt /\ job'.status = "done"
    BY <1>0, <1>3 DEF JobRow
  <2>2. Queue!Finish(JobKey)
    BY <1>3, <2>1 DEF Queue!Finish
  <2> QED BY <2>2 DEF Queue!Next
<1> QED BY <1>1, <1>2, <1>3 DEF JobMove

\* The model of a verification uses its job as FencedJobs, which JobQueue implements,
\* lets it: a run that lost its lease, and goes on sampling, neither completes the job
\* nor fails it (complete and fail in app/queue/jobs.py).
THEOREM VerifyUsesTheQueue == VerifySpec => UsesFencedJobs
<1>1. VerifyInit => job = [status |-> "queued", attempt |-> 0, due |-> Settle]
  BY DEF VerifyInit
<1>2. VerifyInv /\ [VerifyNext]_verifyVars => [Queue!Next]_(Queue!vars)
  <2> SUFFICES ASSUME VerifyInv, [VerifyNext]_verifyVars
               PROVE  Queue!Next \/ UNCHANGED Queue!vars
    OBVIOUS
  <2>1. CASE UNCHANGED job
    BY <2>1 DEF Queue!vars
  <2> QED BY <2>1, JobMoves, JobMovesAreSteps
<1> QED BY <1>1, <1>2, InitInv, StepInv, PTL DEF VerifySpec, UsesFencedJobs

-----------------------------------------------------------------------------
(* Cluster: the invariant                                                  *)

\* What is a row of exec, and what the Deployment has.
IsRun(run) == DOMAIN run = DOMAIN NoPlan
ShapeOK ==
    /\ DOMAIN dep = DOMAIN FirstDep /\ dep.rv \in Nat
    /\ DOMAIN exec = Executors
    /\ \A e \in Executors : IsRun(exec[e]) /\ exec[e].dep.rv \in Nat

\* What an executor has read is what was there: as long as the resourceVersion
\* is the one it read, the Deployment is the one it read, and no ReplicaSet has
\* been numbered since, so that the target it worked out is still the right one.
UpToDate(run) ==
    /\ run.dep.rv <= dep.rv
    /\ run.dep.rv = dep.rv => run.dep = dep
    /\ run.dep.rv = dep.rv /\ run.pc \in {"prepared", "send"} /\ run.action.kind = "undo" =>
          sets[run.target] = Target(run.action, run.dep.rev)

ClusterInv == ShapeOK /\ \A e \in Executors : UpToDate(exec[e])

-----------------------------------------------------------------------------
(* Cluster: steps                                                          *)

LEMMA ClusterStart == ClusterInit => ClusterInv
  BY DEF ClusterInit, ClusterInv, ShapeOK, IsRun, UpToDate, FirstDep, NoPlan

LEMMA SameTarget ==
    ASSUME sets' = sets
    PROVE  \A a, c : Target(a, c)' = Target(a, c)
<1>1. \A c : Earlier(c)' = Earlier(c)
  BY DEF Earlier
<1> QED BY <1>1 DEF Target

\* A step of e that leaves the cluster alone.
LEMMA OwnStep ==
    ASSUME ClusterInv, UNCHANGED <<dep, sets>>, NEW e \in Executors, NEW run,
           exec' = [exec EXCEPT ![e] = run],
           IsRun(run), run.dep.rv \in Nat, UpToDate(run)
    PROVE  ClusterInv'
<1>1. DOMAIN exec' = Executors /\ exec'[e] = run /\ \A f \in Executors : f # e => exec'[f] = exec[f]
  BY DEF ClusterInv, ShapeOK
<1>2. dep' = dep /\ sets' = sets
  OBVIOUS
<1>3. ASSUME NEW f \in Executors
      PROVE  IsRun(exec'[f]) /\ exec'[f].dep.rv \in Nat /\ UpToDate(exec'[f])
  BY <1>1 DEF ClusterInv, ShapeOK
<1>4. ASSUME NEW f \in Executors PROVE UpToDate(exec[f])'
  <2>1. UpToDate(exec'[f])
    BY <1>3
  <2> QED BY <1>2, <2>1, SameTarget DEF UpToDate
<1> QED BY <1>1, <1>2, <1>3, <1>4 DEF ClusterInv, ShapeOK

\* The steps of an executor that read, decide or give up.
LEMMA Moves ==
    ASSUME ClusterInv, NEW e \in Executors,
           Picked(e) \/ ReadDeployment(e) \/ Undo(e) \/ ScaleNoop(e) \/ DryRun(e) \/ NotTaken(e) \/ Watched(e)
    PROVE  \E run : /\ exec' = [exec EXCEPT ![e] = run]
                    /\ IsRun(run) /\ run.dep.rv \in Nat /\ UpToDate(run)
<1> DEFINE old == exec[e]
<1>1. IsRun(old) /\ old.dep.rv \in Nat /\ UpToDate(old) /\ dep.rv \in Nat /\ DOMAIN exec = Executors
  BY DEF ClusterInv, ShapeOK
<1>2. CASE \E s : exec' = [exec EXCEPT ![e].pc = "done", ![e].status = s]
  <2>1. PICK s : exec' = [exec EXCEPT ![e].pc = "done", ![e].status = s]
    BY <1>2
  <2> DEFINE run == [old EXCEPT !.pc = "done", !.status = s]
  <2>2. exec' = [exec EXCEPT ![e] = run]
    BY <1>1, <2>1
  <2>3. IsRun(run) /\ run.dep = old.dep /\ run.pc = "done"
    BY <1>1 DEF IsRun, NoPlan
  <2>4. UpToDate(run)
    BY <2>3, <1>1 DEF UpToDate
  <2> QED BY <2>2, <2>3, <2>4, <1>1
<1>3. CASE ScaleNoop(e) \/ NotTaken(e)
  BY <1>1, <1>2, <1>3 DEF ScaleNoop, NotTaken
<1>4. CASE Watched(e)
  <2> DEFINE run == [old EXCEPT !.pc = "done"]
  <2>2. exec' = [exec EXCEPT ![e] = run]
    BY <1>1, <1>4 DEF Watched
  <2>3. IsRun(run) /\ run.dep = old.dep /\ run.pc = "done"
    BY <1>1 DEF IsRun, NoPlan
  <2>4. UpToDate(run)
    BY <2>3, <1>1 DEF UpToDate
  <2> QED BY <2>2, <2>3, <2>4, <1>1
<1>5. CASE Picked(e)
  <2>1. PICK a \in Actions : exec' = [exec EXCEPT ![e].action = a, ![e].pc = "read", ![e].status = "started"]
    BY <1>5 DEF Picked
  <2> DEFINE run == [old EXCEPT !.action = a, !.pc = "read", !.status = "started"]
  <2>2. exec' = [exec EXCEPT ![e] = run]
    BY <1>1, <2>1
  <2>3. IsRun(run) /\ run.dep = old.dep /\ run.pc = "read"
    BY <1>1 DEF IsRun, NoPlan
  <2>4. UpToDate(run)
    BY <2>3, <1>1 DEF UpToDate
  <2> QED BY <2>2, <2>3, <2>4, <1>1
<1>6. CASE ReadDeployment(e)
  <2> DEFINE pc == IF old.action.kind = "undo" THEN "sets" ELSE "prepared"
             run == [old EXCEPT !.dep = dep, !.pc = pc]
  <2>2. exec' = [exec EXCEPT ![e] = run]
    BY <1>1, <1>6 DEF ReadDeployment
  <2>3. IsRun(run) /\ run.dep = dep /\ run.pc = pc /\ run.action = old.action
    BY <1>1 DEF IsRun, NoPlan
  <2>4. UpToDate(run)
    BY <2>3, <1>1 DEF UpToDate
  <2> QED BY <2>2, <2>3, <2>4, <1>1
<1>7. CASE Undo(e)
  <2> DEFINE target == Target(old.action, old.dep.rev)
             t == CHOOSE u \in Templates : sets[u] = target
  <2>1. CASE exec' = [exec EXCEPT ![e].pc = "prepared", ![e].target = t] /\ \E u \in Templates : sets[u] = target
    <3> DEFINE run == [old EXCEPT !.pc = "prepared", !.target = t]
    <3>1. exec' = [exec EXCEPT ![e] = run]
      BY <1>1, <2>1
    <3>2. sets[t] = target
      BY <2>1
    <3> HIDE DEF t
    <3>3. IsRun(run) /\ run.dep = old.dep /\ run.target = t /\ run.action = old.action
      BY <1>1 DEF IsRun, NoPlan
    <3>4. UpToDate(run)
      BY <3>2, <3>3, <1>1 DEF UpToDate
    <3> QED BY <3>1, <3>3, <3>4, <1>1
  <2>2. CASE exec' = [exec EXCEPT ![e].pc = "done", ![e].status = "succeeded"]
    BY <1>2, <2>2
  <2>3. CASE Fail(e)
    <3>1. exec' = [exec EXCEPT ![e].pc = "done", ![e].status = "failed"]
      BY <2>3, <1>1 DEF Fail, IsRun, NoPlan
    <3> QED BY <1>2, <3>1
  <2> QED BY <1>7, <2>1, <2>2, <2>3 DEF Undo
<1>8. CASE DryRun(e)
  <2>1. CASE Fail(e)
    <3>1. exec' = [exec EXCEPT ![e].pc = "done", ![e].status = "failed"]
      BY <2>1, <1>1 DEF Fail, IsRun, NoPlan
    <3> QED BY <1>2, <3>1
  <2>2. CASE old.pc = "prepared" /\ exec' = [exec EXCEPT ![e].pc = "send"]
    <3> DEFINE run == [old EXCEPT !.pc = "send"]
    <3>1. exec' = [exec EXCEPT ![e] = run]
      BY <1>1, <2>2
    <3>3. IsRun(run) /\ run.dep = old.dep /\ run.target = old.target /\ run.action = old.action
      BY <1>1 DEF IsRun, NoPlan
    <3>4. UpToDate(run)
      BY <2>2, <3>3, <1>1 DEF UpToDate
    <3> QED BY <3>1, <3>3, <3>4, <1>1
  <2> QED BY <1>8, <2>1, <2>2 DEF DryRun
<1> QED BY <1>3, <1>4, <1>5, <1>6, <1>7, <1>8

\* A step that writes the Deployment: its resourceVersion is new to everybody.
LEMMA Written ==
    ASSUME ClusterInv, DOMAIN dep' = DOMAIN FirstDep, dep'.rv = dep.rv + 1,
           DOMAIN exec' = Executors,
           \A e \in Executors : IsRun(exec'[e]) /\ exec'[e].dep = exec[e].dep
    PROVE  ClusterInv'
<1>1. dep.rv \in Nat /\ dep'.rv \in Nat
  BY DEF ClusterInv, ShapeOK
<1>2. ASSUME NEW e \in Executors PROVE UpToDate(exec[e])' /\ exec'[e].dep.rv \in Nat
  <2>1. exec[e].dep.rv \in Nat /\ exec[e].dep.rv <= dep.rv /\ exec'[e].dep = exec[e].dep
    BY DEF ClusterInv, ShapeOK, UpToDate
  <2>2. exec'[e].dep.rv \in Nat /\ exec'[e].dep.rv <= dep'.rv /\ exec'[e].dep.rv # dep'.rv
    BY <1>1, <2>1
  <2> QED BY <2>2 DEF UpToDate
<1> QED BY <1>1, <1>2 DEF ClusterInv, ShapeOK

LEMMA StoredFields ==
    ASSUME NEW d, DOMAIN d = DOMAIN FirstDep
    PROVE  DOMAIN Stored(d) = DOMAIN FirstDep /\ Stored(d).rv = d.rv + 1 /\ Stored(d).template = d.template
  BY DEF Stored, FirstDep

LEMMA PatchedFields ==
    ASSUME ClusterInv, NEW e \in Executors
    PROVE  /\ DOMAIN Patched(e) = DOMAIN FirstDep /\ Patched(e).rv = dep.rv
           /\ exec[e].action.kind = "undo" => Patched(e).template = exec[e].target
  BY DEF Patched, ClusterInv, ShapeOK, FirstDep

LEMMA Writes ==
    ASSUME ClusterInv, Release \/ Sync \/ \E e \in Executors : Lands(e)
    PROVE  ClusterInv'
<1>1. DOMAIN dep = DOMAIN FirstDep /\ DOMAIN exec = Executors /\ \A e \in Executors : IsRun(exec[e])
  BY DEF ClusterInv, ShapeOK
<1>2. CASE Release
  <2> DEFINE d == [dep EXCEPT !.template = [release |-> @.release + 1, restarted |-> 0]]
  <2>1. dep' = Stored(d) /\ exec' = exec
    BY <1>2 DEF Release
  <2>2. DOMAIN d = DOMAIN FirstDep /\ d.rv = dep.rv
    BY <1>1 DEF FirstDep
  <2> HIDE DEF d
  <2> QED BY <1>1, <2>1, <2>2, StoredFields, Written
<1>3. CASE Sync
  <2> DEFINE d == [dep EXCEPT !.rev = Newest + 1]
  <2>1. dep' = Stored(d) /\ exec' = exec
    BY <1>3 DEF Sync
  <2>2. DOMAIN d = DOMAIN FirstDep /\ d.rv = dep.rv
    BY <1>1 DEF FirstDep
  <2> HIDE DEF d
  <2> QED BY <1>1, <2>1, <2>2, StoredFields, Written
<1>4. ASSUME NEW e \in Executors, Lands(e) PROVE ClusterInv'
  <2>1. PICK s \in {"succeeded", "failed", "unknown"} :
           exec' = [exec EXCEPT ![e].pc = IF s = "succeeded" THEN "watch" ELSE "done", ![e].status = s]
    BY <1>4 DEF Lands
  <2>2. DOMAIN dep' = DOMAIN FirstDep /\ dep'.rv = dep.rv + 1
    <3>1. dep' = Stored(Patched(e))
      BY <1>4 DEF Lands
    <3> QED BY <3>1, PatchedFields, StoredFields
  <2> DEFINE pc == IF s = "succeeded" THEN "watch" ELSE "done"
             run == [exec[e] EXCEPT !.pc = pc, !.status = s]
  <2>3. exec' = [exec EXCEPT ![e] = run]
    BY <1>1, <2>1
  <2>4. IsRun(run) /\ run.dep = exec[e].dep
    BY <1>1 DEF IsRun, NoPlan
  <2> HIDE DEF run
  <2>5. DOMAIN exec' = Executors /\ \A f \in Executors : IsRun(exec'[f]) /\ exec'[f].dep = exec[f].dep
    BY <1>1, <2>3, <2>4
  <2> QED BY <2>2, <2>5, Written
<1> QED BY <1>2, <1>3, <1>4

LEMMA ClusterStep == ClusterInv /\ [ClusterNext]_clusterVars => ClusterInv'
<1> SUFFICES ASSUME ClusterInv, [ClusterNext]_clusterVars PROVE ClusterInv'
  OBVIOUS
<1>1. CASE Release \/ Sync \/ \E e \in Executors : Lands(e)
  BY <1>1, Writes
<1>2. ASSUME NEW e \in Executors,
             Picked(e) \/ ReadDeployment(e) \/ Undo(e) \/ ScaleNoop(e) \/ DryRun(e) \/ NotTaken(e) \/ Watched(e)
      PROVE  ClusterInv'
  <2>1. UNCHANGED <<dep, sets>>
    BY <1>2, Zenon DEF Picked, ReadDeployment, Undo, ScaleNoop, DryRun, NotTaken, Watched
  <2>2. PICK run : /\ exec' = [exec EXCEPT ![e] = run]
                   /\ IsRun(run) /\ run.dep.rv \in Nat /\ UpToDate(run)
    BY <1>2, Moves
  <2> QED BY <2>1, <2>2, OwnStep, Zenon
<1>3. CASE UNCHANGED clusterVars
  BY <1>3, SameTarget DEF clusterVars, ClusterInv, ShapeOK, UpToDate
<1> QED BY <1>1, <1>2, <1>3 DEF ClusterNext

\* The template changes under an executor at "send" only when its own patch lands.
LEMMA LandsRight ==
    ASSUME ClusterInv, [ClusterNext]_clusterVars, NEW e \in Executors,
           exec[e].pc = "send", dep'.template # dep.template, exec[e].action.kind = "undo",
           exec[e].action.to = 0, exec'[e] # exec[e]
    PROVE  sets[dep'.template] = Target(exec[e].action, dep.rev)
<1>0. DOMAIN exec = Executors
  BY DEF ClusterInv, ShapeOK
<1>1. dep' # dep
  BY Zenon
<1>2. ~Release /\ ~Sync
  <2>1. Release \/ Sync => exec' = exec
    BY Zenon DEF Release, Sync
  <2> QED BY <2>1, Zenon
<1>3. PICK f \in Executors : Lands(f)
  BY <1>1, <1>2, Zenon DEF ClusterNext, clusterVars, Picked, ReadDeployment, Undo, ScaleNoop, DryRun, NotTaken, Watched
<1>4. f = e
  BY <1>0, <1>3 DEF Lands
<1>5. dep' = Stored(Patched(e)) /\ dep.rv = exec[e].dep.rv
  BY <1>3, <1>4, Zenon DEF Lands, Guard
<1>6. dep'.template = exec[e].target
  BY <1>5, PatchedFields, StoredFields, Zenon
<1>7. exec[e].dep = dep /\ sets[exec[e].target] = Target(exec[e].action, exec[e].dep.rev)
  <2>1. UpToDate(exec[e])
    BY Zenon DEF ClusterInv
  <2> QED BY <1>5, <2>1 DEF UpToDate
<1> QED BY <1>6, <1>7

\* A rollback that lands goes where the cluster of that moment says it should
\* (k8s.py:127), whatever others released, restarted or rolled back meanwhile.
THEOREM RollsBackWhatIsThere == ClusterSpec => RollbackOfWhatIsThere
<1>1. ClusterInit => ClusterInv
  BY ClusterStart
<1>2. ClusterInv /\ [ClusterNext]_clusterVars => ClusterInv'
  BY ClusterStep
<1>3. ClusterInv /\ [ClusterNext]_clusterVars =>
        [\A e \in Executors :
           (exec[e].pc = "send" /\ dep'.template # dep.template /\ exec[e].action.kind = "undo"
            /\ exec[e].action.to = 0 /\ exec'[e] # exec[e])
           => sets[dep'.template] = Target(exec[e].action, dep.rev)]_clusterVars
  BY LandsRight
<1> QED BY <1>1, <1>2, <1>3, PTL DEF ClusterSpec, RollbackOfWhatIsThere

=============================================================================
