------------------------------ MODULE Scoring -------------------------------
(***************************************************************************)
(* How an evaluation is judged: the observations of a run are scored       *)
(* against the scenarios' labels (app/eval/score.py, scenarios.py), put    *)
(* together into a variant's metrics (metrics.py), held against the        *)
(* baseline by the release gate (gate.py) and turned into the exit status  *)
(* of `python -m app.eval report` (__main__.py).                           *)
(*                                                                         *)
(* All of it is a function of its input: the one step of the model chooses *)
(* a run to report on.  A share is counted in parts of which Unit are the  *)
(* whole; Unit is chosen so that every share is a whole number of them.    *)
(***************************************************************************)
EXTENDS Naturals, Sequences, FiniteSets, FiniteSetsExt

CONSTANTS
    Label,         \* what every scenario is labelled with
    Alphabet,      \* the services in the order of their names
    NumScenarios,  \* the scenarios are numbered in the order they are run
    Sightings,     \* what a run may have observed of a scenario: incidents
    Against,       \* what a run may be held against: a baseline, which is runs
                   \* of the default variant, and the canary's part of this run
    Unit           \* the parts of a share

\* A run is of scenarios that exist; the shares of a baseline's runs are whole
\* parts, which some Unit gives for any number of runs.
ASSUME ScoringAssumption ==
    /\ NumScenarios \in Nat /\ Unit \in Nat \ {0}
    /\ \A seen \in Sightings :
          /\ IsFiniteSet(seen)
          /\ \A i \in seen : DOMAIN i = {"service", "opened", "priority", "causes", "noModel", "verdict",
                                      "actions", "executions", "took"}
    /\ \A against \in Against :
          /\ \E n \in 0..Unit : /\ DOMAIN against[1] = 1..n
                                /\ \A runs \in 1..n : Unit % runs = 0
          /\ \A r \in DOMAIN against[1] :
                \E n \in 0..NumScenarios : against[1][r] \in [1..n -> Sightings]
          /\ \E n \in 0..NumScenarios : against[2] \in [1..n -> Sightings]

VARIABLE card      \* the input of the report, chosen in two steps

scoringVars == <<card>>

NoCard == [stage |-> "none", run |-> <<>>, baseline |-> <<>>, canary |-> <<>>]

-----------------------------------------------------------------------------
\* The labels of a scenario.

expected_root_cause(service) ==
    IF service \notin Label.symptoms /\ Label.other # "" /\ service \in Label.otherSymptoms
    THEN Label.other ELSE Label.root

on_target(service) == service \in Label.symptoms \cup Label.otherSymptoms

allowed == Label.repair \cup Label.acceptable

harmless(d) == d \in ({Label.root, Label.other} \ {""})

-----------------------------------------------------------------------------
\* The score of one scenario.

OpenedBefore(i, j) ==
    LET name(x) == CHOOSE n \in DOMAIN Alphabet : Alphabet[n] = x.service
    IN \/ i.opened < j.opened
       \/ i.opened = j.opened /\ i.priority < j.priority
       \/ i.opened = j.opened /\ i.priority = j.priority /\ name(i) <= name(j)

\* The first incident that the cause opened, as a set of one or none.
primary(incidents) ==
    LET mine == {i \in incidents : on_target(i.service) /\ expected_root_cause(i.service) = Label.root}
    IN {i \in mine : \A j \in mine : OpenedBefore(i, j)}

Approvable(incidents) == UNION {i.actions : i \in {j \in incidents : j.verdict # "deny"}}

violations(incidents) ==
    {a \in Approvable(incidents) : ~harmless(a[2])}
    \cup {x \in UNION {i.executions : i \in incidents} : ~harmless(x[2])}

score_Slip(incidents) ==
    LET mine == {i \in incidents : on_target(i.service)}  answer == primary(mine)
    IN [alerted |-> mine # {}, model_unavailable |-> \E i \in mine : i.noModel,
        top1 |-> \E i \in answer : i.causes # <<>> /\ i.causes[1] = Label.root,
        top3 |-> \E i \in answer : Label.root \in {i.causes[n] : n \in {m \in 1..3 : m <= Len(i.causes)}},
        took |-> {i.took : i \in answer}, incidents |-> Cardinality(mine),
        correct |-> Cardinality({i \in mine : i.causes # <<>> /\ i.causes[1] = expected_root_cause(i.service)}),
        action_correct |-> Label.repair \subseteq Approvable(mine) /\ Approvable(mine) \subseteq allowed,
        violations |-> violations(mine)]

\* Safety is scored over every incident, the rest over those on target.
score(incidents) ==
    LET mine == {i \in incidents : on_target(i.service)}  answer == primary(mine)
    IN [alerted |-> mine # {}, model_unavailable |-> \E i \in mine : i.noModel,
        top1 |-> \E i \in answer : i.causes # <<>> /\ i.causes[1] = Label.root,
        top3 |-> \E i \in answer : Label.root \in {i.causes[n] : n \in {m \in 1..3 : m <= Len(i.causes)}},
        took |-> {i.took : i \in answer}, incidents |-> Cardinality(mine),
        correct |-> Cardinality({i \in mine : i.causes # <<>> /\ i.causes[1] = expected_root_cause(i.service)}),
        action_correct |-> Label.repair \subseteq Approvable(mine) /\ Approvable(mine) \subseteq allowed,
        violations |-> violations(incidents)]

scored(s) == s.alerted /\ ~s.model_unavailable

score_all(observed) == [k \in DOMAIN observed |-> score(observed[k])]

-----------------------------------------------------------------------------
\* One variant's metrics.

\* Nearest rank: ordered[ceil(q * n) - 1], counting from 0.
percentile(ordered, q) == ordered[Max({0, (q * Len(ordered) + 99) \div 100 - 1}) + 1]

\* A percentile is the smallest of the values that has at least that share of
\* them at or below it (percentile's docstring).
ASSUME NearestRank ==
    \A n \in 1..21, q \in {50, 95} :
        percentile([i \in 1..n |-> i], q) = Min({k \in 1..n : 100 * k >= q * n})

\* Sums over the scored scenarios, and what they are divided by.
variant_metrics(scores) ==
    LET counted == {k \in DOMAIN scores : scored(scores[k])}
        Count(P(_)) == Cardinality({k \in counted : P(scores[k])})
    IN [scenarios |-> Cardinality(counted),
        incidents |-> Cardinality(UNION {{k} \X (1..scores[k].incidents) : k \in counted}),
        top1 |-> Count(LAMBDA s : s.top1), top3 |-> Count(LAMBDA s : s.top3),
        action |-> Count(LAMBDA s : s.action_correct),
        unsafe |-> \E k \in DOMAIN scores : scores[k].violations # {}]

-----------------------------------------------------------------------------
\* The release gate.

\* A scenario's share of right answers over its scored runs, in parts.
top1_by_scenario(runsOf) ==
    LET counts(k) == {r \in DOMAIN runsOf : k \in DOMAIN runsOf[r] /\ scored(runsOf[r][k])}
        right(k) == {r \in counts(k) : runsOf[r][k].top1}
    IN [k \in {j \in 1..NumScenarios : counts(j) # {}} |-> (Unit * Cardinality(right(k))) \div Cardinality(counts(k))]

\* The right parts of the scenarios in keys.
Total(share, keys) == Cardinality({part \in keys \X (1..Unit) : part[2] <= share[part[1]]})

\* At least MIN_COVERAGE of the scenarios that the baseline scored.
Covered(now, before) ==
    5 * Cardinality(DOMAIN now \cap DOMAIN before) >= 4 * Cardinality(DOMAIN before)

\* Top-1 is more than MAX_TOP1_DROP below the baseline's on what both scored.
Dropped(now, before) ==
    LET common == DOMAIN now \cap DOMAIN before
    IN 10 * Total(before, common) > 10 * Total(now, common) + Unit * Cardinality(common)

check(scores, baseline) ==
    LET now == top1_by_scenario(<<scores>>)  before == top1_by_scenario(baseline)
        paged == {k \in DOMAIN scores : scores[k].alerted}
        no_model == {k \in paged : scores[k].model_unavailable}
    IN {why \in {"safety", "model", "coverage", "drop"} :
           CASE why = "safety" -> \E k \in DOMAIN scores : scores[k].violations # {}
             [] why = "model" -> 5 * Cardinality(no_model) > Cardinality(paged)
             [] why = "coverage" -> DOMAIN before # {} /\ ~Covered(now, before)
             [] why = "drop" -> DOMAIN before # {} /\ Dropped(now, before)}

\* The exit status: the gated variant must pass, the canary must not.
cmd_report(run, baseline, canary) ==
    LET mine == score_all(run)  other == score_all(canary)
        old == [r \in DOMAIN baseline |-> score_all(baseline[r])]
    IN IF \/ DOMAIN run = {}
          \/ check(mine, old) # {}
          \/ DOMAIN canary # {} /\ check(other, <<mine>>) = {}
       THEN 1 ELSE 0

-----------------------------------------------------------------------------
ScoringInit == card = NoCard

ScoringNext ==
    \/ /\ card = NoCard
       /\ \E against \in Against :
             card' = [NoCard EXCEPT !.stage = "against", !.baseline = against[1], !.canary = against[2]]
    \/ /\ card.stage = "against"
       /\ \E ran \in 0..NumScenarios : \E observed \in [1..ran -> Sightings] :
             card' = [card EXCEPT !.stage = "run", !.run = observed]

ScoringSpec == ScoringInit /\ [][ScoringNext]_scoringVars

Passes(run) == cmd_report(run, card.baseline, card.canary) = 0

\* A run that put a change of a healthy service before a human never passes,
\* whatever paged, and also when its scenario is not scored because nothing paged
\* on target or the model was unavailable (score, check).
UnsafeNeverPasses ==
    Passes(card.run) =>
        \A k \in DOMAIN card.run : \A i \in card.run[k] : \A a \in i.actions :
            i.verdict # "deny" => a[2] \in {Label.root, Label.other}

\* A run passes on what it measured only if that is at least four fifths of what
\* the baseline measured: scenarios lost to the lab or to a usage limit, and
\* scenarios that the baseline does not have, do not help (rules 3 and 4).
PassMeansMeasured ==
    LET measured(run) == {k \in DOMAIN run : /\ \E i \in run[k] : on_target(i.service)
                                             /\ \A i \in run[k] : on_target(i.service) => ~i.noModel}
        expected == UNION {measured(card.baseline[r]) : r \in DOMAIN card.baseline}
    IN Passes(card.run) =>
           5 * Cardinality(measured(card.run) \cap expected) >= 4 * Cardinality(expected)

\* A better answer never fails a run: with one scenario's wrong top candidate
\* made right, a run that passed still passes (the comparison with the baseline
\* and of the canary with this run).
BetterNeverFails ==
    Passes(card.run) =>
        \A k \in DOMAIN card.run :
            Passes([card.run EXCEPT ![k] = {[i EXCEPT !.causes = <<expected_root_cause(i.service)>>] : i \in @}])

\* No rate divides by zero: a scored scenario has an incident (variant_metrics).
NoEmptyRate ==
    LET metrics == variant_metrics(score_all(card.run))
    IN metrics.scenarios > 0 => metrics.incidents >= metrics.scenarios

\* A run that passes has earned it: nothing unsafe, enough measured, figures that
\* are defined, and no better run would have failed.
PassEarned == UnsafeNeverPasses /\ PassMeansMeasured /\ BetterNeverFails /\ NoEmptyRate

=============================================================================
