-------------------------------- MODULE Lab ---------------------------------
(***************************************************************************)
(* The fault lab: what can be broken and how it is undone (faults.py,      *)
(* cluster.py), and the acceptance run that breaks it on purpose           *)
(* (accept.py with diagnose.py and remediate.py): wait for a quiet lab,    *)
(* inject, collect alerts, wait for the diagnosis, approve the known       *)
(* repair, recover, see the alerts resolve.                                *)
(*                                                                         *)
(* A fault's description, the numbers of a chaos object and the peak SLIs  *)
(* are left out.  Waiting loops end at a deadline that may pass at any     *)
(* poll; an alert may be active or not at any poll.                        *)
(***************************************************************************)
EXTENDS Naturals, Sequences, SequencesExt

CONSTANTS
    Services,      \* the services whose alerts the model follows
    Acceptance     \* the scenarios: the faults to inject, the last is the cause,
                   \* and a bound on the notifications of each service

VARIABLES
    flagd,         \* the default variant of every flag that is not off
    unwritten,     \* writes, of a flag and a variant, accepted and not stored
    chaos,         \* the Chaos Mesh objects that exist, by name
    rollouts,      \* per Deployment: templates in revision order, change-cause
    inbox,         \* per service: its alert rows since the first injection, by id
    cases,         \* per service: the incident its alert opened
    scn            \* the run: the locals of cmd_accept and run_scenario

labVars == <<flagd, unwritten, chaos, rollouts, inbox, cases, scn>>

-----------------------------------------------------------------------------
\* The catalogue.  `mark` is what recovery recognises a fault by: the flag's
\* variant, the chaos object's kind, the rollout's change-cause.

Flagged(name, root, symptoms, on, mark) ==
    [name |-> name, kind |-> "flag", root_cause |-> root, symptoms |-> symptoms,
     on |-> on, mark |-> mark, repair |-> ""]

FlagFaults == {
    Flagged("payment-failure", "payment", {"payment", "checkout"}, "paymentFailure", "50%"),
    Flagged("payment-failure-10", "payment", {"payment", "checkout"}, "paymentFailure", "10%"),
    Flagged("payment-failure-25", "payment", {"payment", "checkout"}, "paymentFailure", "25%"),
    Flagged("payment-failure-100", "payment", {"payment", "checkout"}, "paymentFailure", "100%"),
    Flagged("payment-unreachable", "checkout", {"checkout"}, "paymentUnreachable", "on"),
    Flagged("cart-failure", "cart", {"cart", "checkout"}, "cartFailure", "50%"),
    Flagged("product-catalog-failure", "product-catalog", {"product-catalog", "frontend"},
            "productCatalogFailure", "on"),
    Flagged("product-catalog-lock-contention", "product-catalog", {"product-catalog", "frontend"},
            "productCatalogLockContention", "on"),
    Flagged("ad-failure", "ad", {"ad"}, "adFailure", "on"),
    Flagged("ad-high-cpu", "ad", {"ad"}, "adHighCpu", "on"),
    Flagged("recommendation-cache-failure", "recommendation", {"recommendation", "frontend"},
            "recommendationCacheFailure", "on"),
    Flagged("email-memory-leak", "email", {"email", "checkout"}, "emailMemoryLeak", "100x"),
    Flagged("intl-shipping-slowdown", "shipping", {"shipping", "checkout"},
            "intlShippingSlowdown", "5sec"),
    Flagged("cart-readiness-failure", "cart", {"frontend", "checkout"},
            "failedReadinessProbe", "on")}

Chaotic(name, root, symptoms, mark) ==
    [name |-> name, kind |-> "chaos", root_cause |-> root, symptoms |-> symptoms,
     on |-> name, mark |-> mark, repair |-> ""]

ChaosFaults ==
    LET upstream == {"checkout", "frontend", "frontend-proxy"}
    IN {Chaotic("network-delay", "product-catalog",
                upstream \cup {"product-catalog", "recommendation"}, "NetworkChaos"),
        Chaotic("pod-failure", "cart", {"frontend", "checkout"}, "PodChaos"),
        Chaotic("network-delay-cart", "cart", upstream \cup {"cart"}, "NetworkChaos"),
        Chaotic("network-delay-currency", "currency", upstream \cup {"currency"}, "NetworkChaos"),
        Chaotic("network-delay-shipping", "shipping", upstream \cup {"shipping"}, "NetworkChaos"),
        Chaotic("pod-failure-currency", "currency", upstream, "PodChaos"),
        Chaotic("pod-failure-product-catalog", "product-catalog",
                upstream \cup {"recommendation"}, "PodChaos"),
        Chaotic("cpu-stress", "recommendation", {"recommendation", "frontend"}, "StressChaos")}

Released(name, deployment, symptoms, cause, repair) ==
    [name |-> name, kind |-> "release", root_cause |-> deployment, symptoms |-> symptoms,
     on |-> deployment, mark |-> cause, repair |-> repair]

ReleaseFaults == {
    Released("bad-release", "checkout", {"checkout"}, "payment client moved to port 9999", "checkout"),
    Released("frontend-bad-release", "frontend", {"frontend", "frontend-proxy"},
             "catalog client moved to port 9999", "frontend"),
    Released("checkout-cart-bad-release", "checkout", {"checkout"},
             "cart client moved to port 9999", "checkout"),
    Released("recommendation-bad-release", "recommendation", {"recommendation", "frontend"},
             "catalog client moved to port 9999", "recommendation"),
    Released("shipping-bad-release", "shipping", {"shipping", "checkout", "frontend"},
             "quote client moved to port 9999", "shipping"),
    Released("benign-release-currency", "currency", {}, "refresh rates every 15 minutes", ""),
    Released("benign-release-frontend", "frontend", {}, "autumn sale banner", ""),
    Released("benign-release-checkout", "checkout", {}, "new order confirmation template", "")}

CATALOGUE == FlagFaults \cup ChaosFaults \cup ReleaseFaults

\* No recovery takes one fault for another: what marks a fault in the lab marks
\* no other one of the catalogue (Lab.is_active).
ASSUME MarkedApart ==
    \A f, g \in CATALOGUE : f.kind = g.kind /\ f.on = g.on /\ f.mark = g.mark => f.name = g.name

get(name) == CHOOSE fault \in CATALOGUE : fault.name = name

\* The faults of a scenario are of the catalogue and have different targets, as
\* in every file of eval/scenarios.
ASSUME LabAssumption ==
    \A a \in Acceptance :
        /\ a.faults \in Seq({fault.name : fault \in CATALOGUE}) /\ a.faults # <<>>
        /\ \A i, j \in DOMAIN a.faults : i # j => get(a.faults[i]).on # get(a.faults[j]).on

-----------------------------------------------------------------------------
\* The lab.

OFF == "off"

Current(d) == Last(rollouts[d].history)

\* A strategic merge patch adds the release's variables to the template that
\* runs; the template it makes is the newest revision.
release_patch(fault) ==
    LET template == Current(fault.on) \cup {fault.name}  old == rollouts[fault.on].history
        same == {i \in DOMAIN old : old[i] = template}
    IN [history |-> Append(IF same = {} THEN old ELSE RemoveAt(old, CHOOSE i \in same : TRUE), template),
        cause |-> fault.mark]

\* kubectl rollout undo: the revision before the newest becomes the newest.
Undone(d, cause) ==
    LET old == rollouts[d].history  n == Len(old)
    IN [history |-> SubSeq(old, 1, n - 2) \o <<old[n], old[n - 1]>>, cause |-> cause]

CanUndo(d) == Len(rollouts[d].history) > 1

\* Exactly this variant, this object, this change-cause.
is_active(fault) ==
    CASE fault.kind = "flag" -> flagd[fault.on] = fault.mark
      [] fault.kind = "chaos" -> fault.name \in chaos
      [] fault.kind = "release" -> rollouts[fault.on].cause = fault.mark

\* What the fault does to the lab, however its recovery recognises it.
InEffect(fault) ==
    CASE fault.kind = "flag" -> flagd[fault.on] # OFF
      [] fault.kind = "chaos" -> fault.name \in chaos
      [] fault.kind = "release" -> fault.name \in Current(fault.on)

\* The write of a flag is read back: a write that flagd-ui has not stored yet
\* raises, and is stored later.
set_flag(f, variant, outcome) ==
    CASE outcome = "ok" -> /\ flagd' = [flagd EXCEPT ![f] = variant]
                           /\ unwritten' = {w \in unwritten : w[1] # f}
      [] outcome = "late" -> flagd' = flagd /\ unwritten' = unwritten \cup {<<f, variant>>}
      [] outcome = "refused" -> UNCHANGED <<flagd, unwritten>>

\* A change is made, refused, or made by a command that fails after it: the
\* rollout does not finish in time, the flag reads back as it was.
Outcomes == {"ok", "late", "refused"}

inject(fault, outcome) ==
    /\ IF fault.kind = "flag" THEN set_flag(fault.on, fault.mark, outcome)
       ELSE UNCHANGED <<flagd, unwritten>>
    /\ chaos' = IF fault.kind = "chaos" /\ outcome # "refused"
                THEN chaos \cup {fault.name} ELSE chaos
    /\ rollouts' = IF fault.kind = "release" /\ outcome # "refused"
                   THEN [rollouts EXCEPT ![fault.on] = release_patch(fault)] ELSE rollouts

recover(fault, outcome) ==
    IF ~is_active(fault) THEN UNCHANGED <<flagd, unwritten, chaos, rollouts>>
    ELSE /\ IF fault.kind = "flag" THEN set_flag(fault.on, OFF, outcome)
            ELSE UNCHANGED <<flagd, unwritten>>
         /\ chaos' = IF fault.kind = "chaos" /\ outcome # "refused"
                     THEN chaos \ {fault.name} ELSE chaos
         /\ rollouts' = IF fault.kind = "release" /\ outcome # "refused"
                        THEN [rollouts EXCEPT ![fault.on] =
                                 Undone(fault.on, "rollback")]
                        ELSE rollouts

-----------------------------------------------------------------------------
\* The system under test, as the run sees it: alerts stored, incidents worked
\* on, an approved rollback carried out.

NoCase == [state |-> "none", plan |-> "none"]

WORKING == {"INVESTIGATING"}
FINAL == {"RESOLVED", "ESCALATED"}
OpenCase(k) == cases[k].state \notin FINAL \cup {"none"}

\* The phases from the first injection to the last look at the alert rows.
Noticing == {"inject", "alerts", "probe", "diagnose", "decide", "recover", "close", "closing"}

\* A notification reaches the API and is stored with the database's time:
\* before the approval, between it and the recovery, or after.
Notified(k, notice) ==
    /\ scn.phase \in Noticing /\ Len(inbox[k]) < scn.notices[k]
    /\ notice = "resolved" => inbox[k] # <<>>
    /\ inbox' = [inbox EXCEPT ![k] = Append(@, [status |-> notice, epoch |-> scn.epoch])]
    /\ cases' = IF notice = "firing" /\ ~OpenCase(k)
                THEN [cases EXCEPT ![k] = [NoCase EXCEPT !.state = "INVESTIGATING"]]
                ELSE cases
    /\ UNCHANGED <<flagd, unwritten, chaos, rollouts, scn>>

CaseAt(k, to) ==
    [cases EXCEPT ![k] = [state |-> to, plan |-> IF to \in FINAL THEN "none" ELSE @.plan]]

\* The workers diagnose, plan and review, or give up.
Worked(k) ==
    /\ scn.phase \in Noticing /\ cases[k].state = "INVESTIGATING"
    /\ \/ \E plan \in {"wanted", "another"} :
             cases' = [CaseAt(k, "AWAITING_APPROVAL") EXCEPT ![k].plan = plan]
       \/ cases' = CaseAt(k, "ESCALATED")
    /\ UNCHANGED <<flagd, unwritten, chaos, rollouts, inbox, scn>>

\* The executor rolls back whatever revision precedes the one it finds.
Executed(k) ==
    LET d == scn.cause.repair
    IN /\ cases[k].state = "EXECUTING"
       /\ \/ /\ CanUndo(d)
             /\ rollouts' = [rollouts EXCEPT ![d] = Undone(d, "sre-blackboard")]
             /\ cases' = CaseAt(k, "VERIFYING")
          \/ rollouts' = rollouts /\ cases' = CaseAt(k, "ESCALATED")
       /\ UNCHANGED <<flagd, unwritten, chaos, inbox, scn>>

VerifiedCase(k) ==
    /\ scn.phase \in Noticing /\ cases[k].state = "VERIFYING"
    /\ \E to \in FINAL : cases' = CaseAt(k, to)
    /\ UNCHANGED <<flagd, unwritten, chaos, rollouts, inbox, scn>>

\* flagd-ui stores a write that it had accepted.
WriteLands ==
    \E w \in unwritten :
        /\ unwritten' = unwritten \ {w}
        /\ flagd' = [flagd EXCEPT ![w[1]] = w[2]]
        /\ UNCHANGED <<chaos, rollouts, inbox, cases, scn>>

-----------------------------------------------------------------------------
\* The run of one scenario.  `phase` is where run_scenario is, the rest are
\* its locals and the result it fills in; `passed` stands for the checks that
\* were made on the way (the first alert in time, the probes, a root cause).

Lab == <<flagd, unwritten, chaos, rollouts>>

\* What every loop that waits for quiet does with one poll: nothing may be
\* active for hold_s in a row, counted again from each poll that finds something.
Waited(still, held, expired, quiet, noisy) ==
    scn' = IF still /\ scn.quiet /\ held THEN quiet
           ELSE IF expired THEN noisy
           ELSE [scn EXCEPT !.quiet = still]

\* cmd_accept first watches a lab with no fault: an alert ends the run.
check_baseline(active) ==
    /\ scn.phase = "baseline"
    /\ scn' = [scn EXCEPT !.phase = IF active = {} THEN "quiet" ELSE "ended"]
    /\ UNCHANGED <<Lab, inbox, cases>>

wait_quiet(active, held, expired) ==
    /\ scn.phase = "quiet"
    /\ Waited(active = {}, held, expired,
              [scn EXCEPT !.phase = "inject", !.quietBefore = TRUE],
              [scn EXCEPT !.phase = "report", !.error = TRUE])
    /\ UNCHANGED <<Lab, inbox, cases>>

\* An exception of what is tried: reported, and what was injected is recovered.
Raised == [scn EXCEPT !.error = TRUE, !.phase = "recover", !.epoch = 2]

InjectDistractor(outcome) ==
    /\ scn.phase = "inject" /\ Len(scn.todo) > 1
    /\ inject(get(Head(scn.todo)), outcome)
    /\ scn' = IF outcome = "ok"
              THEN [scn EXCEPT !.todo = Tail(@), !.injected = Append(@, Head(scn.todo))]
              ELSE Raised
    /\ UNCHANGED <<inbox, cases>>

\* The cause is on the list of what to recover before it is injected.
InjectCause(outcome) ==
    /\ scn.phase = "inject" /\ Len(scn.todo) = 1
    /\ inject(scn.cause, outcome)
    /\ scn' = [(IF outcome = "ok" THEN [scn EXCEPT !.phase = "alerts"] ELSE Raised)
               EXCEPT !.injected = Append(@, scn.cause.name)]
    /\ UNCHANGED <<inbox, cases>>

\* Collect the alerts: until settle_s after the first one, or until none came.
\* A late first alert fails the scenario.
PollAlerts(timely, over) ==
    LET found == {k \in Services : \E i \in DOMAIN inbox[k] : inbox[k][i].status = "firing"}
    IN /\ scn.phase = "alerts"
       /\ over => (scn.seen # {} \/ found = {})
       /\ scn' = [scn EXCEPT !.seen = found,
                             !.passed = @ /\ (scn.seen = {} => timely),
                             !.phase = IF ~over THEN @ ELSE IF found = {} THEN "recover" ELSE "probe",
                             !.epoch = IF over /\ found = {} THEN 2 ELSE @]
       /\ UNCHANGED <<Lab, inbox, cases>>

Probe(good) ==
    /\ scn.phase = "probe"
    /\ scn' = [scn EXCEPT !.passed = @ /\ good, !.phase = "diagnose"]
    /\ UNCHANGED <<Lab, inbox, cases>>

Cases == {k \in Services : cases[k].state # "none"}

\* Diagnoser.wait: until no incident is being worked on, then a copy of each.
WaitDiagnoses(expired, top) ==
    /\ scn.phase = "diagnose"
    /\ expired \/ (Cases # {} /\ \A k \in Cases : cases[k].state \notin WORKING)
    /\ scn' = [scn EXCEPT !.passed = @ /\ Cases # {} /\ top # "none",
                          !.correct = Cases # {} /\ top = "right",
                          !.read = [k \in Cases |-> cases[k].state],
                          !.remediated = Cases # {},
                          !.phase = IF Cases = {} THEN "recover" ELSE "decide",
                          !.epoch = IF Cases = {} THEN 2 ELSE 1]
    /\ UNCHANGED <<Lab, inbox, cases>>

Decided(k, decision) ==
    [scn EXCEPT !.read = [j \in DOMAIN @ \ {k} |-> @[j]],
                !.approved = IF decision = "approve" THEN @ \cup {k} ELSE @]

\* The decision on one incident, from its state as it was read and its plan as
\* it is: none without a known repair, the known repair approved once.
Decision(k) ==
    IF scn.read[k] # "AWAITING_APPROVAL" \/ scn.cause.repair = "" THEN "none"
    ELSE IF cases[k].plan # "wanted" THEN "reject"
    ELSE IF scn.approved = {} THEN "approve" ELSE "none"

\* The API refuses a decision on an incident that waits for none any more.
Decide(k) ==
    /\ scn.phase = "decide" /\ k \in DOMAIN scn.read
    /\ LET refused == Decision(k) # "none" /\ cases[k].state # "AWAITING_APPROVAL"
       IN /\ scn' = IF refused THEN Raised ELSE Decided(k, Decision(k))
          /\ cases' = IF refused \/ Decision(k) = "none" THEN cases
                      ELSE CaseAt(k, IF Decision(k) = "approve" THEN "EXECUTING" ELSE "ESCALATED")
    /\ UNCHANGED <<Lab, inbox>>

\* Remediator.run waits for what it approved, then reads how it ended.
WaitFinal(expired) ==
    /\ scn.phase = "decide" /\ DOMAIN scn.read = {}
    /\ expired \/ \A k \in scn.approved : cases[k].state \in FINAL
    /\ scn' = [scn EXCEPT !.repaired = scn.approved # {},
                          !.closedLoop = \E k \in scn.approved : cases[k].state = "RESOLVED",
                          !.phase = "recover", !.epoch = 2]
    /\ UNCHANGED <<Lab, inbox, cases>>

Raises ==
    /\ scn.phase \in {"alerts", "probe", "diagnose", "decide"}
    /\ scn' = Raised
    /\ UNCHANGED <<Lab, inbox, cases>>

\* The last one injected first; an exception here ends the whole run.
RecoverNext(outcome) ==
    /\ scn.phase = "recover" /\ scn.injected # <<>>
    /\ recover(get(Last(scn.injected)), outcome)
    /\ scn' = IF outcome = "ok" THEN [scn EXCEPT !.injected = Front(@)]
              ELSE [scn EXCEPT !.phase = "crashed"]
    /\ UNCHANGED <<inbox, cases>>

LastStatus(k) == Last(inbox[k]).status

\* Every alert seen has a resolved notification and the lab is quiet again.
WaitResolved(active, held, expired) ==
    /\ scn.phase = "recover" /\ scn.injected = <<>>
    /\ Waited(active = {} /\ \A k \in scn.seen : LastStatus(k) = "resolved", held, expired,
              [scn EXCEPT !.phase = "close", !.resolved = TRUE], [scn EXCEPT !.phase = "close"])
    /\ UNCHANGED <<Lab, inbox, cases>>

\* Diagnoser.close: the open incidents are read, then moved to ESCALATED in one
\* transaction, which fails when one of them has changed since (its version
\* changes with its state).
CloseReads ==
    /\ scn.phase = "close"
    /\ scn' = [scn EXCEPT !.phase = "closing",
                          !.closing = {<<k, cases[k].state>> : k \in {j \in Services : OpenCase(j)}}]
    /\ UNCHANGED <<Lab, inbox, cases>>

\* Alerts that resolved before the recovery, or fired again after resolving.
Flapping(k) ==
    LET history == inbox[k]  t1 == IF scn.repaired THEN 1 ELSE 2
    IN \/ \E i \in DOMAIN history : history[i].status = "resolved" /\ history[i].epoch < t1
       \/ \E i \in 1..(Len(history) - 1) : /\ history[i].status = "resolved"
                                           /\ history[i + 1].status = "firing"

CloseWrites ==
    LET stale == \E c \in scn.closing : cases[c[1]].state # c[2]
        mine == {c[1] : c \in scn.closing}
    IN /\ scn.phase = "closing"
       /\ cases' = IF stale THEN cases
                   ELSE [k \in Services |-> IF k \in mine THEN CaseAt(k, "ESCALATED")[k] ELSE cases[k]]
       /\ scn' = IF stale THEN [scn EXCEPT !.phase = "crashed"]
                 ELSE [scn EXCEPT !.phase = "report", !.closing = {},
                                  !.flapping = \E k \in scn.seen : Flapping(k)]
       /\ UNCHANGED <<Lab, inbox>>

symptom_matched == scn.seen \cap scn.cause.symptoms # {}

ok_Slip ==
    /\ ~scn.error /\ scn.quietBefore /\ scn.passed
    /\ symptom_matched /\ ~scn.flapping /\ scn.resolved

ok ==
    /\ ~scn.error /\ scn.quietBefore /\ scn.passed
    /\ symptom_matched /\ ~scn.flapping /\ scn.resolved
    /\ scn.remediated => (scn.cause.repair = "" \/ scn.closedLoop)

\* At least two thirds of the scenarios' top candidates are right.
required_correct(n) == (2 * n + 2) \div 3

\* cmd_accept's exit code, for this one scenario.
Report ==
    /\ scn.phase = "report"
    /\ scn' = [scn EXCEPT !.phase = "ended",
                          !.accepted = /\ ok
                                       /\ (IF scn.correct THEN 1 ELSE 0) >= required_correct(1)]
    /\ UNCHANGED <<Lab, inbox, cases>>

-----------------------------------------------------------------------------
FaultsRun == {get(n) : n \in UNION {Range(a.faults) : a \in Acceptance}}
ReleasesRun == {fault \in FaultsRun : fault.kind = "release"}

\* The lab before the run: never used, or left as a recovered run leaves it.
LabInit ==
    /\ \E a \in Acceptance, used \in BOOLEAN :
          /\ scn = [phase |-> "baseline", todo |-> a.faults, cause |-> get(Last(a.faults)),
                    notices |-> a.notices,
                    quietBefore |-> FALSE, quiet |-> FALSE, epoch |-> 0, injected |-> <<>>,
                    seen |-> {}, passed |-> TRUE, correct |-> FALSE,
                    read |-> <<>>, approved |-> {}, remediated |-> FALSE,
                    repaired |-> FALSE, closedLoop |-> FALSE, error |-> FALSE,
                    resolved |-> FALSE, closing |-> {}, flapping |-> FALSE, accepted |-> FALSE]
          /\ rollouts = [d \in {f.on : f \in ReleasesRun} |->
                LET before == {f \in ReleasesRun : f.on = d /\ f.name \in Range(a.faults)}
                IN IF used /\ before # {}
                   THEN [history |-> <<{f.name : f \in before}, {}>>, cause |-> "rollback"]
                   ELSE [history |-> <<{}>>, cause |-> ""]]
    /\ flagd = [f \in {g.on : g \in {h \in FaultsRun : h.kind = "flag"}} |-> OFF]
    /\ unwritten = {} /\ chaos = {}
    /\ inbox = [k \in Services |-> <<>>]
    /\ cases = [k \in Services |-> NoCase]

LabNext ==
    \/ \E k \in Services :
          \/ \E notice \in {"firing", "resolved"} : Notified(k, notice)
          \/ Worked(k) \/ Executed(k) \/ VerifiedCase(k) \/ Decide(k)
    \/ WriteLands
    \/ \E outcome \in Outcomes :
          InjectDistractor(outcome) \/ InjectCause(outcome) \/ RecoverNext(outcome)
    \/ \E active \in {{}, Services}, held, expired \in BOOLEAN :
          wait_quiet(active, held, expired) \/ WaitResolved(active, held, expired)
    \/ \E active \in {{}, Services} : check_baseline(active)
    \/ \E timely, over \in BOOLEAN : PollAlerts(timely, over)
    \/ \E good \in BOOLEAN : Probe(good)
    \/ \E expired \in BOOLEAN, top \in {"right", "wrong", "none"} : WaitDiagnoses(expired, top)
    \/ \E expired \in BOOLEAN : WaitFinal(expired)
    \/ Raises \/ CloseReads \/ CloseWrites \/ Report

LabSpec == LabInit /\ [][LabNext]_labVars

-----------------------------------------------------------------------------
\* An acceptance run that exits with 0 leaves the lab as it found it: nothing
\* that its scenario injected is in effect, none is still to be written, and a
\* rollback that it approved has been carried out and will not be again
\* (ScenarioResult.ok, the finally of run_scenario, Lab.recover).
AcceptedMeansRestored ==
    scn.accepted =>
        /\ \A fault \in FaultsRun : ~InEffect(fault)
        /\ unwritten = {}
        /\ \A k \in Services : cases[k].state \notin {"EXECUTING", "VERIFYING"}

\* And it means that each alert it saw paged once: fired, then resolved, and
\* stayed resolved until the run had finished looking (the loop that waits for
\* the notifications, _flapping).
AcceptedMeansOnePage ==
    scn.phase = "report" /\ ok =>
        \A k \in scn.seen : \E n \in 1..(Len(inbox[k]) - 1) :
            \A i \in DOMAIN inbox[k] :
                inbox[k][i].status = IF i <= n THEN "firing" ELSE "resolved"

\* A cause whose injection failed half way is recovered all the same, unless
\* sre-blackboard is repairing it at the same time (run_scenario lists the cause
\* before it injects it).
CauseRecovered ==
    /\ scn.phase \in {"close", "closing", "report", "ended"} /\ scn.quietBefore
    /\ scn.cause.kind # "flag" /\ scn.approved = {}
    => ~InEffect(scn.cause)

\* The known repair is approved on one incident only, though several propose it
\* (Remediator.run): a second rollback would bring the bad release back.
OneApproval ==
    \A k, j \in scn.approved : k = j

\* What a run leaves behind and what its success shows: the lab restored, also
\* after a failed injection, one page for each alert, one approval.
AcceptanceSound == AcceptedMeansRestored /\ CauseRecovered /\ AcceptedMeansOnePage /\ OneApproval

=============================================================================
