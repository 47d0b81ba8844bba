------------------------------- MODULE Policy -------------------------------
(***************************************************************************)
(* From findings to a verdict: what an investigator, the synthesizer and   *)
(* the planner may cite (app/agents/citations.py), and what the policy     *)
(* makes of the plan (app/remediation/policy.py, actions.py), whether the  *)
(* planner proposed it or a person revised it.                             *)
(*                                                                         *)
(* An answer is checked as it stands when its rewrites are used up: what   *)
(* fails is dropped.  Confidence is in percent, the change window in whole *)
(* hours.  Prose, alternatives, which never block, and the claims of a     *)
(* diagnosis other than its root causes are left out.  No check looks at   *)
(* the order of a plan's actions: a plan is the set of them.               *)
(***************************************************************************)
EXTENDS Naturals, Sequences, FiniteSets, FiniteSetsExt

CONSTANTS
    Evidence,        \* this incident's rows: id -> the tool and its deployment
    Foreign,         \* ids that are of no row of this incident
    ShownTo,         \* per investigator, and for the planner: the ids it was shown
    Causes,          \* root causes the synthesizer may name
    MaxCauses,       \* bound: of them in one diagnosis
    PlanActions,     \* actions a plan may have
    Targets,         \* remediation_targets
    MinConfidence,   \* remediation_min_confidence
    ChangeWindows,   \* remediation_change_window: pairs of hours
    Hours            \* bound: hours at which a plan is submitted

\* A root cause cites something (schemas.RootCause).
ASSUME PolicyConstants ==
    /\ MaxCauses \in Nat
    /\ \A c \in Causes : c.ids # {}

VARIABLE judged      \* one incident on its way to a verdict

policyVars == <<judged>>

Rows == DOMAIN Evidence
NoCause == [service |-> "none", confidence |-> 0, ids |-> {}]

-----------------------------------------------------------------------------
(* Citations.                                                              *)

SIGNAL_TOOLS ==
    [metrics |-> {"prom_query", "prom_range"}, logs |-> {"logs_search"}, traces |-> {"traces_search", "trace_get"},
     changes |-> {"rollout_history", "deploy_diff", "k8s_events"}, flags |-> {"flag_state"}]
KNOWLEDGE_TOOLS == {"kb_search"}

ToolsOf(ids) == {Evidence[e].tool : e \in ids \cap Rows}
IdProblems(ids, shown) == ids \ (Rows \cap shown)

\* check_report, for one finding.
FindingKept(f, shown) ==
    LET tools == ToolsOf(f.ids)  measured == tools \ KNOWLEDGE_TOOLS
    IN  /\ IdProblems(f.ids, shown) = {}
        /\ f.kind # "hypothesis" => f.ids # {} /\ measured # {}
        /\ measured # {} => measured \cap SIGNAL_TOOLS[f.signal] # {}

\* _keep: live asks for one result that is not the knowledge base's.
Keep_Slip(ids, shown, measured) == IdProblems(ids, shown) = {}
Keep(ids, shown, measured) ==
    /\ IdProblems(ids, shown) = {}
    /\ measured /\ ToolsOf(ids) # {} => ~(ToolsOf(ids) \subseteq KNOWLEDGE_TOOLS)

\* The places of the candidates that are kept; the most likely is the first.
check_diagnosis(causes, shown) == {i \in DOMAIN causes : Keep(causes[i].ids, shown, TRUE)}

check_plan(plan, shown) == {a \in plan : Keep(a.ids, shown, FALSE)}

-----------------------------------------------------------------------------
(* The policy.                                                             *)

CATALOGUE_RISK == [rollout_undo |-> 3, restart_deployment |-> 2, scale_deployment |-> 2]
EvidenceTools(action) == IF action = "rollout_undo" THEN {"rollout_history", "deploy_diff"} ELSE {}

InCatalogue(a) == a.action \in DOMAIN CATALOGUE_RISK

InScope(a) == a.deployment \in Targets

OnProblemHost(a, cause) ==
    cause # NoCause /\ a.deployment = cause.service /\ cause.confidence >= MinConfidence

HasEvidence(a) ==
    /\ a.ids \subseteq Rows
    /\ EvidenceTools(a.action) # {} =>
          \E e \in a.ids : Evidence[e].tool \in EvidenceTools(a.action) /\ Evidence[e].deployment = a.deployment

\* _clock: an hour after 24 is no time, and raises.
ValidWindow(w) == w[1] \in 0..24 /\ w[2] \in 0..24

\* May wrap past midnight.
Inside(w, hour) == IF w[1] <= w[2] THEN w[1] <= hour /\ hour < w[2] ELSE hour >= w[1] \/ hour < w[2]

\* The window is as long as it reads: so many hours of the day lie in it as from
\* its start to its end, over midnight if need be, and none in an empty one (_window).
ASSUME WindowLength ==
    \A w \in (0..24) \X (0..24) :
        Cardinality({hour \in 0..23 : Inside(w, hour)}) = IF w[1] <= w[2] THEN w[2] - w[1] ELSE 24 - w[1] + w[2]

\* The plan's risk is that of its riskiest action in the catalogue.
Risk(plan) == Max({CATALOGUE_RISK[a.action] : a \in {b \in plan : InCatalogue(b)}})

\* What blocks a plan: a check of one of its actions, the window, or an error.
Blocked(plan, cause, ctx) ==
    \/ plan = {}
    \/ ~ValidWindow(ctx.window) \/ ~Inside(ctx.window, ctx.hour)
    \/ \E a \in plan : ~(InCatalogue(a) /\ InScope(a) /\ OnProblemHost(a, cause) /\ HasEvidence(a))

\* evaluate: 2 for deny, 1 for require_approval, 0 for allow.
evaluate(plan, cause, ctx) ==
    IF Blocked(plan, cause, ctx) THEN 2
    ELSE IF Risk(plan) <= ctx.auto_max_risk THEN 0 ELSE 1

-----------------------------------------------------------------------------
(* An incident on its way.                                                 *)

\* An investigator's finding: what it cites can be cited from now on, if it is kept.
Reported(agent, finding) ==
    /\ judged.stage = "report"
    /\ FindingKept(finding, ShownTo[agent])
    /\ judged' = [judged EXCEPT !.cited = @ \cup finding.ids]

\* What the diagnosis cites is all the planner may cite besides its own results.
Diagnosed(causes) ==
    LET kept == check_diagnosis(causes, judged.cited)
    IN  /\ judged.stage = "report"
        /\ judged' = [judged EXCEPT !.stage = "plan",
                                    !.cause = IF kept = {} THEN NoCause ELSE causes[Min(kept)],
                                    !.cited = UNION {causes[i].ids : i \in kept}]

\* The planner's plan, checked, or a person's, which goes to the policy as it is.
Proposed(plan, by) ==
    /\ judged.stage = "plan"
    /\ judged' = [judged EXCEPT
         !.stage = "review", !.cited = {},
         !.plan = IF by = "person" THEN plan
                  ELSE check_plan(plan, ShownTo["planner"] \cup judged.cited)]

\* review: the policy at the time and with the settings of the submission.
Reviewed(ctx) ==
    /\ judged.stage = "review"
    /\ judged' = [judged EXCEPT !.stage = "reviewed", !.ctx = ctx,
                                !.verdict = evaluate(judged.plan, judged.cause, ctx)]

Contexts == [window: ChangeWindows, hour: Hours, auto_max_risk: 1..3]

PolicyInit ==
    judged = [stage |-> "report", cited |-> {}, cause |-> NoCause, plan |-> {}, verdict |-> 2,
              ctx |-> [window |-> <<0, 24>>, hour |-> 0, auto_max_risk |-> 1]]

Findings == [kind: {"fact", "inference", "hypothesis"}, signal: DOMAIN SIGNAL_TOOLS, ids: SUBSET (Rows \cup Foreign)]
Diagnoses == UNION {[1..n -> Causes] : n \in 0..MaxCauses}
Plans == {plan \in SUBSET PlanActions : Cardinality(plan) <= 2}

PolicyNext ==
    \/ \E agent \in DOMAIN ShownTo \ {"planner"}, f \in Findings : Reported(agent, f)
    \/ \E causes \in Diagnoses : Diagnosed(causes)
    \/ \E plan \in Plans, by \in {"planner", "person"} : Proposed(plan, by)
    \/ \E ctx \in Contexts : Reviewed(ctx)

PolicySpec == PolicyInit /\ [][PolicyNext]_policyVars

-----------------------------------------------------------------------------

\* Nothing is done on hearsay: a plan that is not denied, whoever wrote it and even
\* if its actions cite a runbook only, is for a service whose root cause rests on
\* a result that is not the knowledge base's and that an investigator of this
\* incident was shown (citations.py:11, policy.py:120).
NeverOnHearsay ==
    judged.stage = "reviewed" /\ judged.verdict < 2 =>
        \E e \in judged.cause.ids : /\ e \in Rows /\ Evidence[e].tool \notin KNOWLEDGE_TOOLS
                                    /\ \E agent \in DOMAIN ShownTo \ {"planner"} : e \in ShownTo[agent]

\* More to do is never easier to get through: with any action added, a plan's
\* verdict is at least as strict (_evaluate).
AddingNeverRelaxes ==
    judged.stage = "reviewed" /\ judged.plan # {} =>
        \A a \in PlanActions :
            evaluate(judged.plan \cup {a}, judged.cause, judged.ctx) >= judged.verdict

\* Review lets a plan through on evidence, and never because there is more of it.
ReviewHolds == NeverOnHearsay /\ AddingNeverRelaxes

=============================================================================
