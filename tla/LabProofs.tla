----------------------------- MODULE LabProofs ------------------------------
(***************************************************************************)
(* Proofs about Scoring, for every set of scenarios and of what their runs *)
(* show, and about Lab, for every set of services and of scenarios of the  *)
(* catalogue with faults of different targets, and every bound on alerts.  *)
(***************************************************************************)
EXTENDS Scoring, Lab, Integers, SequenceTheorems, FiniteSetTheorems, WellFoundedInduction, TLAPS

-----------------------------------------------------------------------------
(* Scoring: the input                                                      *)

\* A run observes the first n scenarios; the input holds nothing else.
RunIs(run) == \E n \in 0..NumScenarios : run \in [1..n -> Sightings]

CardInv ==
    /\ DOMAIN card = {"stage", "run", "baseline", "canary"}
    /\ RunIs(card.run) /\ RunIs(card.canary)
    /\ \E n \in Nat : DOMAIN card.baseline = 1..n
    /\ \A r \in DOMAIN card.baseline : RunIs(card.baseline[r])

LEMMA NoRun == RunIs(<<>>)
<1>1. 1..0 = {}
  OBVIOUS
<1>2. <<>> \in [1..0 -> Sightings]
  BY <1>1
<1> QED BY <1>2, ScoringAssumption DEF RunIs

LEMMA CardStart == ScoringInit => CardInv
<1> SUFFICES ASSUME ScoringInit PROVE CardInv
  OBVIOUS
<1>1. /\ DOMAIN card = {"stage", "run", "baseline", "canary"}
      /\ card.run = <<>> /\ card.canary = <<>> /\ card.baseline = <<>>
  BY DEF ScoringInit, NoCard
<1>2. DOMAIN card.baseline = 1..0
  BY <1>1
<1> QED BY <1>1, <1>2, NoRun DEF CardInv

LEMMA CardStep == CardInv /\ [ScoringNext]_scoringVars => CardInv'
<1> SUFFICES ASSUME CardInv, [ScoringNext]_scoringVars PROVE CardInv'
  OBVIOUS
<1>1. ASSUME NEW against \in Against,
             card' = [NoCard EXCEPT !.stage = "against", !.baseline = against[1], !.canary = against[2]]
      PROVE  CardInv'
  <2>1. /\ DOMAIN card' = {"stage", "run", "baseline", "canary"}
        /\ card'.run = <<>> /\ card'.canary = against[2] /\ card'.baseline = against[1]
    BY <1>1 DEF NoCard
  <2>2. RunIs(against[2]) /\ \A r \in DOMAIN against[1] : RunIs(against[1][r])
    BY ScoringAssumption DEF RunIs
  <2>3. \E n \in Nat : DOMAIN against[1] = 1..n
    BY ScoringAssumption
  <2> QED BY <2>1, <2>2, <2>3, NoRun DEF CardInv
<1>2. ASSUME NEW ran \in 0..NumScenarios, NEW observed \in [1..ran -> Sightings],
             card' = [card EXCEPT !.stage = "run", !.run = observed]
      PROVE  CardInv'
  <2>1. /\ DOMAIN card' = {"stage", "run", "baseline", "canary"}
        /\ card'.run = observed /\ card'.canary = card.canary /\ card'.baseline = card.baseline
    BY <1>2 DEF CardInv
  <2>2. RunIs(observed)
    BY DEF RunIs
  <2> QED BY <2>1, <2>2 DEF CardInv
<1>3. CASE UNCHANGED scoringVars
  BY <1>3 DEF CardInv, scoringVars
<1> QED BY <1>1, <1>2, <1>3 DEF ScoringNext

-----------------------------------------------------------------------------
(* Scoring: one scenario                                                   *)

OnTarget(seen) == {i \in seen : on_target(i.service)}

\* A scenario is measured if it paged and no incident of it went without a model.
Measured(seen) == OnTarget(seen) # {} /\ \A i \in OnTarget(seen) : ~i.noModel

LEMMA ScoreIs ==
  ASSUME NEW seen
  PROVE  /\ score(seen).alerted <=> OnTarget(seen) # {}
         /\ scored(score(seen)) <=> Measured(seen)
         /\ score(seen).violations = violations(seen)
         /\ score(seen).incidents = Cardinality(OnTarget(seen))
         /\ score(seen).top1 <=> \E i \in primary(OnTarget(seen)) : i.causes # <<>> /\ i.causes[1] = Label.root
         /\ score(seen).model_unavailable <=> \E i \in OnTarget(seen) : i.noModel
  BY DEF score, scored, Measured, OnTarget

-----------------------------------------------------------------------------
(* Scoring: shares                                                         *)

\* A run's shares are nothing or the whole.
LEMMA RunShares ==
  ASSUME NEW scores, NEW n \in 0..NumScenarios, DOMAIN scores = 1..n
  PROVE  LET now == top1_by_scenario(<<scores>>)
         IN  /\ DOMAIN now = {k \in DOMAIN scores : scored(scores[k])}
             /\ \A k \in DOMAIN now : now[k] = IF scores[k].top1 THEN Unit ELSE 0
<1> DEFINE counts(k) == {r \in DOMAIN <<scores>> : k \in DOMAIN <<scores>>[r] /\ scored(<<scores>>[r][k])}
           right(k) == {r \in counts(k) : <<scores>>[r][k].top1}
<1>1. DOMAIN <<scores>> = {1} /\ <<scores>>[1] = scores
  OBVIOUS
<1>2. \A k : counts(k) # {} <=> k \in DOMAIN scores /\ scored(scores[k])
  BY <1>1
<1>3. \A k \in DOMAIN scores : k \in 1..NumScenarios
  BY ScoringAssumption
<1>4. top1_by_scenario(<<scores>>) =
          [k \in {j \in 1..NumScenarios : counts(j) # {}} |-> (Unit * Cardinality(right(k))) \div Cardinality(counts(k))]
  BY Zenon DEF top1_by_scenario
<1>5. ASSUME NEW k, counts(k) # {}
      PROVE  (Unit * Cardinality(right(k))) \div Cardinality(counts(k)) = IF scores[k].top1 THEN Unit ELSE 0
  <2>1. counts(k) = {1}
    BY <1>1, <1>5
  <2>2. right(k) = IF scores[k].top1 THEN {1} ELSE {}
    BY <1>1, <2>1
  <2>3. Cardinality({1}) = 1 /\ Cardinality({}) = 0
    BY FS_Singleton, FS_EmptySet, Zenon
  <2> QED
    <3> HIDE DEF counts, right
    <3>0. (Unit * 1) \div 1 = Unit /\ (Unit * 0) \div 1 = 0
      BY ScoringAssumption
    <3>1. CASE scores[k].top1
      <4>1. Cardinality(right(k)) = 1 /\ Cardinality(counts(k)) = 1
        BY <2>1, <2>2, <2>3, <3>1, Zenon
      <4> QED BY <4>1, <3>0, <3>1
    <3>2. CASE ~scores[k].top1
      <4>1. Cardinality(right(k)) = 0 /\ Cardinality(counts(k)) = 1
        BY <2>1, <2>2, <2>3, <3>2, Zenon
      <4> QED BY <4>1, <3>0, <3>2
    <3> QED BY <3>1, <3>2
<1> HIDE DEF counts, right
<1> QED BY <1>2, <1>3, <1>4, <1>5

\* The scenarios a run measured are those it has a share for.
LEMMA MeasuredShares ==
  ASSUME NEW run, NEW n \in 0..NumScenarios, DOMAIN run = 1..n
  PROVE  /\ DOMAIN score_all(run) = DOMAIN run
         /\ DOMAIN top1_by_scenario(<<score_all(run)>>) = {k \in DOMAIN run : Measured(run[k])}
         /\ \A k \in DOMAIN top1_by_scenario(<<score_all(run)>>) :
                top1_by_scenario(<<score_all(run)>>)[k] = IF score(run[k]).top1 THEN Unit ELSE 0
<1>2. DOMAIN score_all(run) = DOMAIN run /\ \A k \in DOMAIN run : score_all(run)[k] = score(run[k])
  BY DEF score_all
<1>3. \A k \in DOMAIN run : scored(score_all(run)[k]) <=> Measured(run[k])
  BY <1>2, ScoreIs
<1> DEFINE scores == score_all(run)
           now == top1_by_scenario(<<scores>>)
<1>4. DOMAIN scores = 1..n
  BY <1>2
<1>5. /\ DOMAIN now = {k \in DOMAIN scores : scored(scores[k])}
      /\ \A k \in DOMAIN now : now[k] = IF scores[k].top1 THEN Unit ELSE 0
  <2> HIDE DEF scores
  <2> QED BY <1>4, RunShares, Zenon
<1>6. DOMAIN now = {k \in DOMAIN run : Measured(run[k])}
  <2> HIDE DEF now
  <2> QED BY <1>2, <1>3, <1>5
<1>7. \A k \in DOMAIN now : now[k] = IF score(run[k]).top1 THEN Unit ELSE 0
  <2> HIDE DEF now
  <2> QED BY <1>2, <1>5
<1> QED BY <1>2, <1>6, <1>7

\* What the baseline measured has a share, of any number of runs.
LEMMA BaselineShares ==
  ASSUME NEW runsOf, NEW n \in Nat, DOMAIN runsOf = 1..n
  PROVE  LET before == top1_by_scenario(runsOf)
         IN  /\ DOMAIN before = {k \in 1..NumScenarios :
                    \E r \in DOMAIN runsOf : k \in DOMAIN runsOf[r] /\ scored(runsOf[r][k])}
             /\ \A k \in DOMAIN before : before[k] \in Nat
<1> DEFINE counts(k) == {r \in DOMAIN runsOf : k \in DOMAIN runsOf[r] /\ scored(runsOf[r][k])}
           right(k) == {r \in counts(k) : runsOf[r][k].top1}
<1>1. IsFiniteSet(DOMAIN runsOf)
  BY FS_Interval
<1>2. top1_by_scenario(runsOf) =
          [k \in {j \in 1..NumScenarios : counts(j) # {}} |-> (Unit * Cardinality(right(k))) \div Cardinality(counts(k))]
  BY Zenon DEF top1_by_scenario
<1>3. ASSUME NEW k, counts(k) # {}
      PROVE  (Unit * Cardinality(right(k))) \div Cardinality(counts(k)) \in Nat
  <2>1. IsFiniteSet(counts(k)) /\ IsFiniteSet(right(k))
    <3>1. counts(k) \in SUBSET DOMAIN runsOf /\ right(k) \in SUBSET DOMAIN runsOf
      OBVIOUS
    <3> QED BY <1>1, <3>1, FS_Subset
  <2> HIDE DEF counts, right
  <2>2. Cardinality(counts(k)) \in Nat /\ Cardinality(right(k)) \in Nat /\ Cardinality(counts(k)) # 0
    BY <1>3, <2>1, FS_CardinalityType, FS_EmptySet
  <2>3. Unit * Cardinality(right(k)) \in Nat
    BY <2>2, ScoringAssumption
  <2>4. \A a, b \in Nat : b # 0 => a \div b \in Nat
    OBVIOUS
  <2> QED BY <2>2, <2>3, <2>4
<1>4. \A k : counts(k) # {} <=> \E r \in DOMAIN runsOf : k \in DOMAIN runsOf[r] /\ scored(runsOf[r][k])
  OBVIOUS
<1> HIDE DEF counts, right
<1> QED BY <1>2, <1>3, <1>4

\* A total is a number, and grows with the shares.
LEMMA TotalGrows ==
  ASSUME NEW keys, IsFiniteSet(keys), NEW share, NEW more,
         \A k \in keys : share[k] \in Nat /\ more[k] \in Nat /\ share[k] <= more[k]
  PROVE  /\ Total(share, keys) \in Nat /\ Total(more, keys) \in Nat
         /\ Total(share, keys) <= Total(more, keys)
<1> DEFINE few == {part \in keys \X (1..Unit) : part[2] <= share[part[1]]}
           many == {part \in keys \X (1..Unit) : part[2] <= more[part[1]]}
<1>1. IsFiniteSet(1..Unit)
  BY FS_Interval, ScoringAssumption
<1>2. IsFiniteSet(keys \X (1..Unit))
  BY <1>1, FS_Product
<1>3. few \in SUBSET many
  <2>1. ASSUME NEW part \in few PROVE part \in many
    <3>1. part \in keys \X (1..Unit) /\ part[2] <= share[part[1]]
      OBVIOUS
    <3>2. part[1] \in keys /\ part[2] \in Nat
      BY <3>1, ScoringAssumption
    <3>3. part[2] <= more[part[1]]
      BY <3>1, <3>2
    <3> QED BY <3>1, <3>3
  <2> QED BY <2>1
<1>4. many \in SUBSET (keys \X (1..Unit))
  OBVIOUS
<1> HIDE DEF few, many
<1>5. IsFiniteSet(many)
  BY <1>2, <1>4, FS_Subset
<1>6. Cardinality(few) <= Cardinality(many) /\ IsFiniteSet(few)
  BY <1>3, <1>5, FS_Subset
<1>7. Cardinality(few) \in Nat /\ Cardinality(many) \in Nat
  BY <1>5, <1>6, FS_CardinalityType
<1>8. Total(share, keys) = Cardinality(few) /\ Total(more, keys) = Cardinality(many)
  BY Zenon DEF Total, few, many
<1> QED BY <1>6, <1>7, <1>8

-----------------------------------------------------------------------------
(* Scoring: the gate                                                       *)

LEMMA CheckIs ==
  ASSUME NEW scores, NEW baseline
  PROVE  LET now == top1_by_scenario(<<scores>>)  before == top1_by_scenario(baseline)
             paged == {k \in DOMAIN scores : scores[k].alerted}
             no_model == {k \in paged : scores[k].model_unavailable}
         IN  check(scores, baseline) = {} <=>
                /\ \A k \in DOMAIN scores : scores[k].violations = {}
                /\ ~(5 * Cardinality(no_model) > Cardinality(paged))
                /\ DOMAIN before # {} => Covered(now, before) /\ ~Dropped(now, before)
  BY DEF check

Old == [r \in DOMAIN card.baseline |-> score_all(card.baseline[r])]

LEMMA PassIs ==
  ASSUME NEW run
  PROVE  Passes(run) <=>
            /\ DOMAIN run # {}
            /\ check(score_all(run), Old) = {}
            /\ DOMAIN card.canary # {} => check(score_all(card.canary), <<score_all(run)>>) # {}
<1> DEFINE Fails == \/ DOMAIN run = {}
                    \/ check(score_all(run), Old) # {}
                    \/ DOMAIN card.canary # {} /\ check(score_all(card.canary), <<score_all(run)>>) = {}
<1>1. cmd_report(run, card.baseline, card.canary) = IF Fails THEN 1 ELSE 0
  BY Zenon DEF cmd_report, Old
<1>2. Passes(run) <=> ~Fails
  <2> HIDE DEF Fails
  <2> QED BY <1>1 DEF Passes
<1> QED BY <1>2, Zenon

-----------------------------------------------------------------------------
(* Scoring: what a run that passes has earned                              *)

LEMMA RunDomain ==
  ASSUME NEW run, RunIs(run)
  PROVE  /\ \E n \in 0..NumScenarios : DOMAIN run = 1..n
         /\ \A k \in DOMAIN run : k \in 1..NumScenarios /\ run[k] \in Sightings
<1>1. PICK n \in 0..NumScenarios : run \in [1..n -> Sightings]
  BY DEF RunIs
<1>2. \A k \in 1..n : k \in 1..NumScenarios
  BY ScoringAssumption
<1> QED BY <1>1, <1>2

\* Nothing unsafe is put before a human.
LEMMA SafePasses == CardInv => UnsafeNeverPasses
<1> SUFFICES ASSUME CardInv, Passes(card.run),
                    NEW k \in DOMAIN card.run, NEW i \in card.run[k], NEW a \in i.actions, i.verdict # "deny"
             PROVE  a[2] \in {Label.root, Label.other}
  BY DEF UnsafeNeverPasses
<1>1. check(score_all(card.run), Old) = {}
  BY PassIs
<1>2. DOMAIN score_all(card.run) = DOMAIN card.run /\ score_all(card.run)[k] = score(card.run[k])
  BY DEF score_all
<1>3. score(card.run[k]).violations = {}
  BY <1>1, <1>2, CheckIs
<1>4. violations(card.run[k]) = {}
  BY <1>3, ScoreIs
<1>5. a \in Approvable(card.run[k])
  BY DEF Approvable
<1>6. harmless(a[2])
  BY <1>4, <1>5 DEF violations
<1> QED BY <1>6 DEF harmless

\* Four fifths of what the baseline measured are measured.
LEMMA MeasuredPasses == CardInv => PassMeansMeasured
<1> DEFINE measured(run) == {k \in DOMAIN run : /\ \E i \in run[k] : on_target(i.service)
                                               /\ \A i \in run[k] : on_target(i.service) => ~i.noModel}
           expected == UNION {measured(card.baseline[r]) : r \in DOMAIN card.baseline}
           now == top1_by_scenario(<<score_all(card.run)>>)
           before == top1_by_scenario(Old)
<1> SUFFICES ASSUME CardInv, Passes(card.run)
             PROVE  5 * Cardinality(measured(card.run) \cap expected) >= 4 * Cardinality(expected)
  BY Zenon DEF PassMeansMeasured
<1>1. \A run : measured(run) = {k \in DOMAIN run : Measured(run[k])}
  BY DEF Measured, OnTarget
<1>2. DOMAIN now = measured(card.run)
  <2>1. DOMAIN now = {k \in DOMAIN card.run : Measured(card.run[k])}
    BY RunDomain, MeasuredShares DEF CardInv
  <2> HIDE DEF now, measured
  <2> QED BY <1>1, <2>1
<1>3. DOMAIN before = expected
  <2>1. PICK n \in Nat : DOMAIN card.baseline = 1..n
    BY DEF CardInv
  <2>2. DOMAIN Old = 1..n /\ \A r \in 1..n : Old[r] = score_all(card.baseline[r])
    BY <2>1 DEF Old
  <2>3. DOMAIN before = {k \in 1..NumScenarios :
                    \E r \in DOMAIN Old : k \in DOMAIN Old[r] /\ scored(Old[r][k])}
    <3>1. n \in Nat
      BY <2>1
    <3> QED BY <2>2, <3>1, BaselineShares, Zenon
  <2>4. ASSUME NEW r \in 1..n
        PROVE  /\ DOMAIN Old[r] = DOMAIN card.baseline[r]
               /\ \A k \in DOMAIN Old[r] : k \in 1..NumScenarios /\ (scored(Old[r][k]) <=> Measured(card.baseline[r][k]))
    <3>1. RunIs(card.baseline[r])
      BY <2>1 DEF CardInv
    <3>2. DOMAIN Old[r] = DOMAIN card.baseline[r]
          /\ \A k \in DOMAIN Old[r] : Old[r][k] = score(card.baseline[r][k])
      BY <2>2 DEF score_all
    <3> QED BY <3>1, <3>2, RunDomain, ScoreIs
  <2>5. \A k : k \in DOMAIN before <=> \E r \in 1..n : k \in DOMAIN card.baseline[r] /\ Measured(card.baseline[r][k])
    <3> HIDE DEF before
    <3> QED BY <2>2, <2>3, <2>4
  <2>6. \A k : k \in expected <=> \E r \in 1..n : k \in DOMAIN card.baseline[r] /\ Measured(card.baseline[r][k])
    <3> HIDE DEF measured
    <3> QED BY <1>1, <2>1
  <2> HIDE DEF before, expected
  <2> QED BY <2>5, <2>6
<1>4. CASE expected = {}
  <2>1. Cardinality({}) = 0
    BY FS_EmptySet, Zenon
  <2>2. measured(card.run) \cap expected = {}
    BY <1>4
  <2> HIDE DEF measured, expected
  <2>3. Cardinality(expected) = 0 /\ Cardinality(measured(card.run) \cap expected) = 0
    BY <1>4, <2>1, <2>2, Zenon
  <2> QED BY <2>3
<1>5. CASE expected # {}
  <2>1. check(score_all(card.run), Old) = {}
    BY PassIs
  <2>2. DOMAIN before # {} => Covered(now, before)
    BY <2>1, CheckIs, Zenon
  <2> HIDE DEF now, before, measured, expected
  <2>3. Covered(now, before)
    BY <1>3, <1>5, <2>2
  <2> QED BY <1>2, <1>3, <2>3 DEF Covered
<1> QED BY <1>4, <1>5, Zenon

\* A scenario with the same incidents and every top candidate right.
Corrected(seen) == {[i EXCEPT !.causes = <<expected_root_cause(i.service)>>] : i \in seen}

LEMMA CorrectedScore ==
  ASSUME NEW seen \in Sightings
  PROVE  /\ score(Corrected(seen)).alerted <=> score(seen).alerted
         /\ score(Corrected(seen)).model_unavailable <=> score(seen).model_unavailable
         /\ scored(score(Corrected(seen))) <=> scored(score(seen))
         /\ score(seen).violations = {} => score(Corrected(seen)).violations = {}
         /\ score(seen).top1 => score(Corrected(seen)).top1
<1> DEFINE right(i) == [i EXCEPT !.causes = <<expected_root_cause(i.service)>>]
<1>1. \A i \in seen : /\ right(i).service = i.service /\ right(i).opened = i.opened
                      /\ right(i).priority = i.priority /\ right(i).noModel = i.noModel
                      /\ right(i).verdict = i.verdict /\ right(i).actions = i.actions
                      /\ right(i).executions = i.executions
                      /\ right(i).causes = <<expected_root_cause(i.service)>>
  BY ScoringAssumption
<1>2. Corrected(seen) = {right(i) : i \in seen}
  BY Zenon DEF Corrected
<1> HIDE DEF right
<1>3. OnTarget(Corrected(seen)) = {right(i) : i \in OnTarget(seen)}
  BY <1>1, <1>2 DEF OnTarget
<1>4. OnTarget(Corrected(seen)) # {} <=> OnTarget(seen) # {}
  BY <1>3
<1>5. \A i \in OnTarget(seen) : i \in seen
  BY DEF OnTarget
<1>6. (\E i \in OnTarget(Corrected(seen)) : i.noModel) <=> \E i \in OnTarget(seen) : i.noModel
  <2>1. \A i \in OnTarget(seen) : right(i).noModel = i.noModel
    BY <1>1, <1>5
  <2> QED BY <1>3, <2>1
<1>7. Measured(Corrected(seen)) <=> Measured(seen)
  BY <1>4, <1>6 DEF Measured
<1>8. violations(Corrected(seen)) = violations(seen)
  <2>1. \A a : a \in Approvable(Corrected(seen)) <=> a \in Approvable(seen)
    BY <1>1, <1>2 DEF Approvable
  <2>2. \A a : a \in UNION {i.executions : i \in Corrected(seen)} <=> a \in UNION {i.executions : i \in seen}
    BY <1>1, <1>2
  <2>3. Approvable(Corrected(seen)) = Approvable(seen)
    BY <2>1
  <2>4. UNION {i.executions : i \in Corrected(seen)} = UNION {i.executions : i \in seen}
    BY <2>2
  <2> QED BY <2>3, <2>4, Zenon DEF violations
<1>9. ASSUME NEW i \in primary(OnTarget(seen))
      PROVE  right(i) \in primary(OnTarget(Corrected(seen))) /\ right(i).causes # <<>> /\ right(i).causes[1] = Label.root
  <2>1. /\ i \in OnTarget(seen) /\ on_target(i.service) /\ expected_root_cause(i.service) = Label.root
        /\ \A j \in OnTarget(seen) : on_target(j.service) /\ expected_root_cause(j.service) = Label.root
                                     => OpenedBefore(i, j)
    BY DEF primary
  <2>2. \A j \in OnTarget(seen) : OpenedBefore(i, j) => OpenedBefore(right(i), right(j))
    <3> SUFFICES ASSUME NEW j \in OnTarget(seen), OpenedBefore(i, j) PROVE OpenedBefore(right(i), right(j))
      OBVIOUS
    <3>1. /\ right(i).service = i.service /\ right(i).opened = i.opened /\ right(i).priority = i.priority
          /\ right(j).service = j.service /\ right(j).opened = j.opened /\ right(j).priority = j.priority
      BY <1>1, <1>5, <2>1
    <3> QED BY <3>1, Zenon DEF OpenedBefore
  <2>3. right(i) \in OnTarget(Corrected(seen)) /\ right(i).service = i.service
    BY <1>1, <1>3, <1>5, <2>1
  <2>4. ASSUME NEW j \in OnTarget(Corrected(seen)), expected_root_cause(j.service) = Label.root
        PROVE  OpenedBefore(right(i), j)
    <3>1. PICK k \in OnTarget(seen) : j = right(k)
      BY <1>3
    <3>2. right(k).service = k.service
      BY <1>1, <1>5
    <3>3. on_target(k.service)
      BY DEF OnTarget
    <3> QED BY <2>1, <2>2, <2>4, <3>1, <3>2, <3>3
  <2>5. right(i) \in primary(OnTarget(Corrected(seen)))
    BY <2>1, <2>3, <2>4 DEF primary
  <2>6. right(i).causes = <<Label.root>>
    BY <1>1, <1>5, <2>1
  <2> QED BY <2>5, <2>6
<1>10. (\E i \in primary(OnTarget(seen)) : i.causes # <<>> /\ i.causes[1] = Label.root)
       => \E i \in primary(OnTarget(Corrected(seen))) : i.causes # <<>> /\ i.causes[1] = Label.root
  BY <1>9
<1> QED BY <1>4, <1>6, <1>7, <1>8, <1>10, ScoreIs

\* Scores of the same scenarios that are as good: none is lost, unsafe or wrong
\* that was not before.
AsGood(scores, better) ==
    /\ DOMAIN better = DOMAIN scores
    /\ \A k \in DOMAIN scores :
          /\ better[k].alerted <=> scores[k].alerted
          /\ better[k].model_unavailable <=> scores[k].model_unavailable
          /\ scored(better[k]) <=> scored(scores[k])
          /\ scores[k].violations = {} => better[k].violations = {}
          /\ scores[k].top1 => better[k].top1

LEMMA SharesGrow ==
  ASSUME NEW scores, NEW better, AsGood(scores, better), NEW n \in 0..NumScenarios, DOMAIN scores = 1..n
  PROVE  LET now == top1_by_scenario(<<scores>>)  new == top1_by_scenario(<<better>>)
         IN  /\ DOMAIN new = DOMAIN now
             /\ DOMAIN now \subseteq 1..n
             /\ \A k \in DOMAIN now : now[k] \in Nat /\ new[k] \in Nat /\ now[k] <= new[k]
<1> DEFINE now == top1_by_scenario(<<scores>>)
           new == top1_by_scenario(<<better>>)
<1>1. /\ DOMAIN now = {k \in DOMAIN scores : scored(scores[k])}
      /\ \A k \in DOMAIN now : now[k] = IF scores[k].top1 THEN Unit ELSE 0
  BY RunShares, Zenon
<1>2. DOMAIN better = 1..n
  BY DEF AsGood
<1>3. /\ DOMAIN new = {k \in DOMAIN better : scored(better[k])}
      /\ \A k \in DOMAIN new : new[k] = IF better[k].top1 THEN Unit ELSE 0
  BY <1>2, RunShares, Zenon
<1> HIDE DEF now, new
<1>4. DOMAIN new = DOMAIN now
  BY <1>1, <1>3 DEF AsGood
<1>5. ASSUME NEW k \in DOMAIN now
      PROVE  now[k] \in Nat /\ new[k] \in Nat /\ now[k] <= new[k]
  <2>1. k \in DOMAIN scores /\ (scores[k].top1 => better[k].top1)
    BY <1>1 DEF AsGood
  <2>2. /\ now[k] = IF scores[k].top1 THEN Unit ELSE 0
        /\ new[k] = IF better[k].top1 THEN Unit ELSE 0
    BY <1>1, <1>3, <1>4
  <2> QED BY <2>1, <2>2, ScoringAssumption
<1>6. DOMAIN now \subseteq 1..n
  BY <1>1
<1> QED BY <1>4, <1>5, <1>6 DEF now, new

\* Better scores pass the gate that scores passed.
LEMMA GateKept ==
  ASSUME NEW scores, NEW better, AsGood(scores, better), NEW n \in 0..NumScenarios, DOMAIN scores = 1..n,
         NEW runsOf, NEW m \in Nat, DOMAIN runsOf = 1..m, check(scores, runsOf) = {}
  PROVE  check(better, runsOf) = {}
<1> DEFINE now == top1_by_scenario(<<scores>>)
           new == top1_by_scenario(<<better>>)
           before == top1_by_scenario(runsOf)
           common == DOMAIN now \cap DOMAIN before
<1>1. /\ DOMAIN new = DOMAIN now /\ DOMAIN now \subseteq 1..n
      /\ \A k \in DOMAIN now : now[k] \in Nat /\ new[k] \in Nat /\ now[k] <= new[k]
  BY SharesGrow, Zenon
<1>2. /\ \A k \in DOMAIN scores : scores[k].violations = {}
      /\ ~(5 * Cardinality({k \in {j \in DOMAIN scores : scores[j].alerted} : scores[k].model_unavailable})
              > Cardinality({k \in DOMAIN scores : scores[k].alerted}))
      /\ DOMAIN before # {} => Covered(now, before) /\ ~Dropped(now, before)
  BY CheckIs, Zenon
<1>3. \A k \in DOMAIN better : better[k].violations = {}
  BY <1>2 DEF AsGood
<1>4. {k \in DOMAIN better : better[k].alerted} = {k \in DOMAIN scores : scores[k].alerted}
  BY DEF AsGood
<1>5. {k \in {j \in DOMAIN better : better[j].alerted} : better[k].model_unavailable}
        = {k \in {j \in DOMAIN scores : scores[j].alerted} : scores[k].model_unavailable}
  BY DEF AsGood
<1>6. Covered(now, before) => Covered(new, before)
  <2> HIDE DEF now, new, before
  <2> QED BY <1>1 DEF Covered
<1>7. Dropped(new, before) => Dropped(now, before)
  <2>1. IsFiniteSet(common) /\ \A k \in common : before[k] \in Nat
    <3>1. IsFiniteSet(1..n)
      BY FS_Interval, ScoringAssumption
    <3>2. common \in SUBSET (1..n)
      <4> HIDE DEF now, before
      <4> QED BY <1>1
    <3>3. IsFiniteSet(common)
      <4> HIDE DEF common
      <4> QED BY <3>1, <3>2, FS_Subset
    <3>4. \A k \in DOMAIN before : before[k] \in Nat
      BY BaselineShares, Zenon
    <3> HIDE DEF now, before
    <3> QED BY <3>3, <3>4
  <2> HIDE DEF now, new, before
  <2>2. \A k \in common : k \in DOMAIN now
    OBVIOUS
  <2>3. DOMAIN new \cap DOMAIN before = common
    BY <1>1
  <2> HIDE DEF common
  <2>4. Total(now, common) \in Nat /\ Total(new, common) \in Nat /\ Total(now, common) <= Total(new, common)
    BY <1>1, <2>1, <2>2, TotalGrows
  <2>5. Total(before, common) \in Nat
    BY <2>1, TotalGrows
  <2>6. Unit * Cardinality(common) \in Nat
    BY <2>1, FS_CardinalityType, ScoringAssumption
  <2>7. Dropped(now, before) <=> 10 * Total(before, common) > 10 * Total(now, common) + Unit * Cardinality(common)
    BY DEF Dropped, common
  <2>8. Dropped(new, before) <=> 10 * Total(before, common) > 10 * Total(new, common) + Unit * Cardinality(common)
    BY <2>3, Zenon DEF Dropped
  <2> QED BY <2>4, <2>5, <2>6, <2>7, <2>8
<1>8. ~(5 * Cardinality({k \in {j \in DOMAIN better : better[j].alerted} : better[k].model_unavailable})
          > Cardinality({k \in DOMAIN better : better[k].alerted}))
  BY <1>2, <1>4, <1>5, Zenon
<1>9. DOMAIN before # {} => Covered(new, before) /\ ~Dropped(new, before)
  BY <1>2, <1>6, <1>7, Zenon
<1> QED BY <1>3, <1>8, <1>9, CheckIs, Zenon

\* What failed against scores fails against better ones.
LEMMA CanaryStopped ==
  ASSUME NEW scores, NEW better, AsGood(scores, better), NEW n \in 0..NumScenarios, DOMAIN scores = 1..n,
         NEW others, NEW m \in 0..NumScenarios, DOMAIN others = 1..m, check(others, <<scores>>) # {}
  PROVE  check(others, <<better>>) # {}
<1> SUFFICES ASSUME check(others, <<better>>) = {} PROVE check(others, <<scores>>) = {}
  OBVIOUS
<1> DEFINE now == top1_by_scenario(<<others>>)
           before == top1_by_scenario(<<scores>>)
           better_before == top1_by_scenario(<<better>>)
           common == DOMAIN now \cap DOMAIN before
<1>1. /\ DOMAIN better_before = DOMAIN before /\ DOMAIN before \subseteq 1..n
      /\ \A k \in DOMAIN before : before[k] \in Nat /\ better_before[k] \in Nat /\ before[k] <= better_before[k]
  BY SharesGrow, Zenon
<1>2. \A k \in DOMAIN now : now[k] \in Nat
  <2>1. \A k \in DOMAIN now : now[k] = IF others[k].top1 THEN Unit ELSE 0
    BY RunShares, Zenon
  <2> HIDE DEF now
  <2> QED BY <2>1
<1>3. /\ \A k \in DOMAIN others : others[k].violations = {}
      /\ ~(5 * Cardinality({k \in {j \in DOMAIN others : others[j].alerted} : others[k].model_unavailable})
              > Cardinality({k \in DOMAIN others : others[k].alerted}))
      /\ DOMAIN better_before # {} => Covered(now, better_before) /\ ~Dropped(now, better_before)
  BY CheckIs, Zenon
<1>4. Covered(now, better_before) => Covered(now, before)
  <2> HIDE DEF now, before, better_before
  <2> QED BY <1>1 DEF Covered
<1>5. Dropped(now, before) => Dropped(now, better_before)
  <2>1. IsFiniteSet(common)
    <3>1. IsFiniteSet(1..n)
      BY FS_Interval, ScoringAssumption
    <3>2. common \in SUBSET (1..n)
      <4> HIDE DEF now, before
      <4> QED BY <1>1
    <3> HIDE DEF common
    <3> QED BY <3>1, <3>2, FS_Subset
  <2> HIDE DEF now, before, better_before
  <2>2. \A k \in common : k \in DOMAIN now /\ k \in DOMAIN before
    OBVIOUS
  <2>3. DOMAIN now \cap DOMAIN better_before = common
    BY <1>1
  <2> HIDE DEF common
  <2>4. /\ Total(before, common) \in Nat /\ Total(better_before, common) \in Nat
        /\ Total(before, common) <= Total(better_before, common)
    BY <1>1, <2>1, <2>2, TotalGrows
  <2>5. Total(now, common) \in Nat
    BY <1>2, <2>1, <2>2, TotalGrows
  <2>6. Unit * Cardinality(common) \in Nat
    BY <2>1, FS_CardinalityType, ScoringAssumption
  <2>7. Dropped(now, before) <=> 10 * Total(before, common) > 10 * Total(now, common) + Unit * Cardinality(common)
    BY DEF Dropped, common
  <2>8. Dropped(now, better_before)
          <=> 10 * Total(better_before, common) > 10 * Total(now, common) + Unit * Cardinality(common)
    BY <2>3, Zenon DEF Dropped
  <2> QED BY <2>4, <2>5, <2>6, <2>7, <2>8
<1>6. DOMAIN before # {} => Covered(now, before) /\ ~Dropped(now, before)
  <2> HIDE DEF now, before, better_before
  <2> QED BY <1>1, <1>3, <1>4, <1>5, Zenon
<1> QED BY <1>3, <1>6, CheckIs, Zenon

LEMMA BetterPasses == CardInv => BetterNeverFails
<1> SUFFICES ASSUME CardInv, Passes(card.run), NEW k \in DOMAIN card.run
             PROVE  Passes([card.run EXCEPT ![k] = Corrected(card.run[k])])
  BY Zenon DEF BetterNeverFails, Corrected
<1> DEFINE better == [card.run EXCEPT ![k] = Corrected(card.run[k])]
<1>1. PICK n \in 0..NumScenarios : DOMAIN card.run = 1..n
  BY RunDomain DEF CardInv
<1>2. DOMAIN better = 1..n /\ \A j \in 1..n : better[j] = IF j = k THEN Corrected(card.run[k]) ELSE card.run[j]
  BY <1>1
<1> HIDE DEF better
<1>3. AsGood(score_all(card.run), score_all(better))
  <2>1. card.run[k] \in Sightings
    BY RunDomain DEF CardInv
  <2>2. DOMAIN score_all(card.run) = 1..n /\ \A j \in 1..n : score_all(card.run)[j] = score(card.run[j])
    BY <1>1 DEF score_all
  <2>3. DOMAIN score_all(better) = 1..n /\ \A j \in 1..n : score_all(better)[j] = score(better[j])
    BY <1>2 DEF score_all
  <2> QED BY <1>2, <2>1, <2>2, <2>3, CorrectedScore DEF AsGood
<1>4. DOMAIN score_all(card.run) = 1..n
  BY <1>1 DEF score_all
<1>5. PICK m \in Nat : DOMAIN Old = 1..m
  BY DEF CardInv, Old
<1>6. check(score_all(better), Old) = {}
  <2>1. check(score_all(card.run), Old) = {}
    BY PassIs
  <2> QED BY <1>3, <1>4, <1>5, <2>1, GateKept
<1>7. ASSUME DOMAIN card.canary # {}
      PROVE  check(score_all(card.canary), <<score_all(better)>>) # {}
  <2>1. check(score_all(card.canary), <<score_all(card.run)>>) # {}
    BY <1>7, PassIs
  <2>2. \E j \in 0..NumScenarios : DOMAIN score_all(card.canary) = 1..j
    BY RunDomain DEF CardInv, score_all
  <2> QED BY <1>3, <1>4, <2>1, <2>2, CanaryStopped
<1>8. DOMAIN better # {}
  BY <1>1, <1>2
<1>9. Passes(better)
  BY <1>6, <1>7, <1>8, PassIs
<1> QED BY <1>9 DEF better

\* A scenario that counts has an incident.
LEMMA RatesDefined == CardInv => NoEmptyRate
<1> DEFINE scores == score_all(card.run)
           counted == {k \in DOMAIN scores : scored(scores[k])}
           each == UNION {{k} \X (1..scores[k].incidents) : k \in counted}
           first == [k \in counted |-> <<k, 1>>]
<1> SUFFICES ASSUME CardInv
             PROVE  Cardinality(each) >= Cardinality(counted)
  <2>1. variant_metrics(scores).scenarios = Cardinality(counted) /\ variant_metrics(scores).incidents = Cardinality(each)
    BY DEF variant_metrics
  <2> QED BY <2>1 DEF NoEmptyRate
<1>1. PICK n \in 0..NumScenarios : DOMAIN card.run = 1..n
  BY RunDomain DEF CardInv
<1>2. DOMAIN scores = 1..n /\ \A k \in 1..n : scores[k] = score(card.run[k])
  BY <1>1 DEF score_all
<1>3. IsFiniteSet(1..n)
  BY FS_Interval, ScoringAssumption
<1>4. ASSUME NEW k \in counted
      PROVE  scores[k].incidents \in Nat /\ 1 <= scores[k].incidents
  <2>1. k \in 1..n /\ scored(score(card.run[k])) /\ scores[k] = score(card.run[k])
    BY <1>2
  <2>2. card.run[k] \in Sightings
    BY <1>1, <2>1, RunDomain DEF CardInv
  <2>3. OnTarget(card.run[k]) # {}
    BY <2>1, ScoreIs DEF Measured
  <2>4. OnTarget(card.run[k]) \in SUBSET card.run[k]
    BY DEF OnTarget
  <2>5. IsFiniteSet(OnTarget(card.run[k]))
    BY <2>2, <2>4, ScoringAssumption, FS_Subset
  <2>6. Cardinality(OnTarget(card.run[k])) \in Nat /\ Cardinality(OnTarget(card.run[k])) # 0
    BY <2>3, <2>5, FS_CardinalityType, FS_EmptySet
  <2>7. scores[k].incidents = Cardinality(OnTarget(card.run[k]))
    BY <2>1, ScoreIs
  <2> QED BY <2>6, <2>7
<1>5. counted \in SUBSET (1..n)
  BY <1>2
<1> HIDE DEF scores, counted
<1>6. IsFiniteSet(counted)
  BY <1>3, <1>5, FS_Subset
<1>7. IsFiniteSet(each)
  <2>1. ASSUME NEW k \in counted PROVE IsFiniteSet({k} \X (1..scores[k].incidents))
    <3>1. scores[k].incidents \in Int
      BY <1>4
    <3>2. IsFiniteSet(1..scores[k].incidents)
      BY <3>1, FS_Interval
    <3> QED BY <3>2, FS_Singleton, FS_Product
  <2>2. IsFiniteSet({{k} \X (1..scores[k].incidents) : k \in counted})
    <3> DEFINE incidents == [k \in counted |-> {k} \X (1..scores[k].incidents)]
               all == {{k} \X (1..scores[k].incidents) : k \in counted}
    <3>1. incidents \in [counted -> all] /\ \A t \in all : \E k \in counted : incidents[k] = t
      OBVIOUS
    <3>2. incidents \in Surjection(counted, all)
      <4> HIDE DEF incidents, all
      <4> QED BY <3>1 DEF Surjection
    <3> HIDE DEF incidents
    <3> QED BY <1>6, <3>2, FS_Surjection
  <2> QED BY <2>1, <2>2, FS_UNION
<1>8. first \in Injection(counted, each)
  <2>1. \A k \in counted : first[k] \in each
    <3> SUFFICES ASSUME NEW k \in counted PROVE <<k, 1>> \in each
      OBVIOUS
    <3>1. 1 \in 1..scores[k].incidents
      BY <1>4
    <3> QED BY <3>1
  <2>2. \A k, j \in counted : first[k] = first[j] => k = j
    OBVIOUS
  <2>3. first \in [counted -> each]
    <3> HIDE DEF each
    <3> QED BY <2>1
  <2> HIDE DEF first, each
  <2> QED BY <2>2, <2>3 DEF Injection, IsInjective
<1> HIDE DEF first, each
<1>9. Cardinality(counted) <= Cardinality(each)
  BY <1>7, <1>8, FS_Injection
<1>10. Cardinality(counted) \in Nat /\ Cardinality(each) \in Nat
  BY <1>6, <1>7, FS_CardinalityType
<1> QED BY <1>9, <1>10

\* The exit status of a report is earned, for any label, any catalogue, any run
\* and any baseline, of however many runs (score, variant_metrics, check, cmd_report).
THEOREM ReportEarned == ScoringSpec => []PassEarned
<1>1. CardInv => PassEarned
  BY SafePasses, MeasuredPasses, BetterPasses, RatesDefined, Zenon DEF PassEarned
<1> QED BY <1>1, CardStart, CardStep, PTL DEF ScoringSpec

-----------------------------------------------------------------------------
(* Lab: the catalogue                                                      *)

Names == {fault.name : fault \in CATALOGUE}

LEMMA Described ==
  \A fault \in CATALOGUE :
      /\ fault.kind \in {"flag", "chaos", "release"}
      /\ fault.kind = "release" => fault.mark \notin {"", "rollback", "sre-blackboard"}
      /\ fault.kind = "chaos" => fault.on = fault.name
      /\ fault.repair # "" => fault.kind = "release" /\ fault.repair = fault.on
<1>1. ASSUME NEW fault \in FlagFaults
      PROVE  fault.kind = "flag" /\ fault.repair = ""
  <2>1. PICK n, r, s, o, m : fault = Flagged(n, r, s, o, m)
    BY Zenon DEF FlagFaults
  <2> QED BY <2>1 DEF Flagged
<1>2. ASSUME NEW fault \in ChaosFaults
      PROVE  fault.kind = "chaos" /\ fault.repair = "" /\ fault.on = fault.name
  <2>1. PICK n, r, s, m : fault = Chaotic(n, r, s, m)
    BY Zenon DEF ChaosFaults
  <2> QED BY <2>1 DEF Chaotic
<1>3. ASSUME NEW fault \in ReleaseFaults
      PROVE  /\ fault.kind = "release" /\ fault.mark \notin {"", "rollback", "sre-blackboard"}
             /\ fault.repair \in {"", fault.on}
  <2> DEFINE Marks == {"payment client moved to port 9999", "catalog client moved to port 9999",
                       "cart client moved to port 9999", "quote client moved to port 9999",
                       "refresh rates every 15 minutes", "autumn sale banner", "new order confirmation template"}
  <2>1. PICK n, d, s, c, r : fault = Released(n, d, s, c, r) /\ c \in Marks /\ r \in {"", d}
    BY Zenon DEF ReleaseFaults
  <2>2. c \notin {"", "rollback", "sre-blackboard"}
    BY <2>1
  <2> HIDE DEF Marks
  <2> QED BY <2>1, <2>2 DEF Released
<1>4. \A fault \in CATALOGUE : fault \in FlagFaults \/ fault \in ChaosFaults \/ fault \in ReleaseFaults
  BY Zenon DEF CATALOGUE
<1> QED BY <1>1, <1>2, <1>3, <1>4

LEMMA Got ==
  ASSUME NEW n \in Names
  PROVE  get(n) \in CATALOGUE /\ get(n).name = n
BY DEF Names, get

-----------------------------------------------------------------------------
(* Lab: the invariant, of the scenario a                                   *)

ScnFields == {"phase", "todo", "cause", "notices", "quietBefore", "quiet", "epoch", "injected", "seen", "passed",
              "correct", "read", "approved", "remediated", "repaired", "closedLoop", "error", "resolved", "closing",
              "flapping", "accepted"}

Before == {"baseline", "quiet", "inject"}
During == {"alerts", "probe", "diagnose", "decide"}
Done == {"close", "closing", "report", "ended"}
Later == {"recover", "crashed"} \cup Done

Static(a) ==
    /\ DOMAIN scn = ScnFields /\ scn.cause = get(Last(a.faults))
    /\ DOMAIN cases = Services /\ DOMAIN inbox = Services
    /\ DOMAIN flagd = {f.on : f \in {g \in FaultsRun : g.kind = "flag"}}
    /\ DOMAIN rollouts = {f.on : f \in ReleasesRun}

\* What is to be recovered is a beginning of the scenario's faults.
Place(a) ==
    /\ scn.phase \in Before \cup During \cup Later
    /\ scn.injected \in Seq(Names) /\ Len(scn.injected) <= Len(a.faults)
    /\ \A i \in 1..Len(scn.injected) : scn.injected[i] = a.faults[i]
    /\ scn.phase \in Before =>
          /\ scn.todo \in Seq(Names) /\ Len(scn.todo) = Len(a.faults) - Len(scn.injected) /\ Len(scn.todo) > 0
          /\ \A i \in 1..Len(scn.todo) : scn.todo[i] = a.faults[Len(scn.injected) + i]
    /\ scn.phase \in {"baseline", "quiet"} \cup Done => Len(scn.injected) = 0
    /\ scn.error \in BOOLEAN /\ (scn.error => scn.phase \in Later)

Busy(k) == cases[k].state \in {"EXECUTING", "VERIFYING"}

\* One incident is approved, by a scenario with a repair; a repair that is under
\* way was approved and is not what closed the loop.
Approval ==
    /\ scn.approved \subseteq Services /\ \A k, j \in scn.approved : k = j
    /\ scn.approved # {} => scn.phase \in {"decide"} \cup Later /\ scn.remediated /\ scn.cause.repair # ""
    /\ \A k \in Services : Busy(k) => k \in scn.approved /\ ~scn.closedLoop
    /\ scn.closedLoop \in BOOLEAN /\ (scn.closedLoop => scn.phase \in Later)
    /\ scn.phase = "decide" => scn.remediated

\* The run cannot be accepted any more: the lab may be left broken.
Doomed == \/ scn.error \/ scn.phase = "crashed"
          \/ scn.phase \in Later /\ scn.approved # {} /\ ~scn.closedLoop

Clean(n) ==
    /\ get(n).kind = "flag" => flagd[get(n).on] = OFF
    /\ get(n).kind = "chaos" => n \notin chaos
    /\ get(n).kind = "release" => /\ rollouts[get(n).on].history \in {<<{}>>, <<{n}, {}>>}
                                  /\ rollouts[get(n).on].cause # get(n).mark

Broken(n) ==
    /\ get(n).kind = "flag" => flagd[get(n).on] = get(n).mark
    /\ get(n).kind = "chaos" => n \in chaos
    /\ get(n).kind = "release" => /\ rollouts[get(n).on].history = <<{}, {n}>>
                                  /\ rollouts[get(n).on].cause = get(n).mark

\* What the run knows of a fault is true while it may be accepted, and of a cause
\* that is no flag while nobody else repairs it.
Known(a, i) == \/ ~Doomed
               \/ i = Len(a.faults) /\ get(a.faults[i]).kind # "flag" /\ scn.approved = {}

LabState(a) ==
    /\ \A i \in 1..Len(a.faults) : Known(a, i) =>
          /\ Clean(a.faults[i]) \/ Broken(a.faults[i])
          /\ i > Len(scn.injected) => Clean(a.faults[i])
    /\ ~Doomed => unwritten = {}
    /\ ~Doomed => \A f \in DOMAIN flagd :
          (\A i \in 1..Len(a.faults) : get(a.faults[i]).kind = "flag" => get(a.faults[i]).on # f) => flagd[f] = OFF
    /\ \A d \in DOMAIN rollouts :
          (\A i \in 1..Len(a.faults) : get(a.faults[i]).kind = "release" => get(a.faults[i]).on # d)
             => rollouts[d].history = <<{}>>
    /\ \A n \in chaos : \E i \in 1..Len(a.faults) : n = a.faults[i] /\ get(n).kind = "chaos"

\* A rollback is carried out on the release that the run made.
Repairable(a) ==
    /\ scn.phase \in During /\ scn.cause.repair # ""
    /\ scn.approved = {} \/ \E k \in Services : cases[k].state = "EXECUTING"
    => Broken(a.faults[Len(a.faults)])

Refired(h) == \E i \in 1..(Len(h) - 1) : h[i].status = "resolved" /\ h[i + 1].status = "firing"

\* An alert fires before it resolves.
Rows == \A k \in Services :
    /\ inbox[k] \in Seq([status: {"firing", "resolved"}, epoch: Nat])
    /\ inbox[k] # <<>> => inbox[k][1].status = "firing"

SeenFired == \A k \in scn.seen : k \in Services /\ inbox[k] # <<>>

\* What was seen has resolved, once that was waited for.
SeenResolved == scn.resolved =>
    /\ scn.phase \in Done \cup {"crashed"}
    /\ \A k \in scn.seen : \E i \in DOMAIN inbox[k] : inbox[k][i].status = "resolved"

\* And was looked at again at the end.
SeenOnce == scn.phase = "report" /\ ~scn.error /\ ~scn.flapping => \A k \in scn.seen : ~Refired(inbox[k])

Pages == scn.epoch \in Nat /\ Rows /\ SeenFired /\ SeenResolved /\ SeenOnce

Exit == scn.accepted => scn.phase = "ended" /\ ok

LabInvOf(a) == Static(a) /\ Place(a) /\ Approval /\ LabState(a) /\ Repairable(a) /\ Pages /\ Exit
LabInv == \E a \in Acceptance : LabInvOf(a)

-----------------------------------------------------------------------------
(* Lab: the scenario                                                       *)

\* The facts about a scenario's faults.
Faults(a) ==
    /\ Len(a.faults) \in Nat /\ Len(a.faults) > 0 /\ DOMAIN a.faults = 1..Len(a.faults)
    /\ \A i \in 1..Len(a.faults) :
          /\ a.faults[i] \in Names
          /\ get(a.faults[i]) \in FaultsRun /\ get(a.faults[i]).name = a.faults[i]
          /\ get(a.faults[i]).kind \in {"flag", "chaos", "release"}
          /\ get(a.faults[i]).kind = "release" => get(a.faults[i]).mark \notin {"", "rollback", "sre-blackboard"}
          /\ get(a.faults[i]).repair # "" => /\ get(a.faults[i]).kind = "release"
                                            /\ get(a.faults[i]).repair = get(a.faults[i]).on
    /\ \A i, j \in 1..Len(a.faults) :
          i # j => get(a.faults[i]).on # get(a.faults[j]).on /\ a.faults[i] # a.faults[j]
    /\ Last(a.faults) = a.faults[Len(a.faults)]

LEMMA FaultsOf == ASSUME NEW a \in Acceptance PROVE Faults(a)
<1>1. a.faults \in Seq(Names) /\ a.faults # <<>>
  BY LabAssumption DEF Names
<1>2. \A i, j \in DOMAIN a.faults : i # j => get(a.faults[i]).on # get(a.faults[j]).on
  BY LabAssumption
<1>3. Len(a.faults) \in Nat /\ Len(a.faults) > 0 /\ DOMAIN a.faults = 1..Len(a.faults)
  BY <1>1
<1>4. \A i \in 1..Len(a.faults) : a.faults[i] \in Names
  BY <1>1
<1>5. \A i \in 1..Len(a.faults) : get(a.faults[i]) \in FaultsRun
  <2> SUFFICES ASSUME NEW i \in 1..Len(a.faults) PROVE get(a.faults[i]) \in FaultsRun
    OBVIOUS
  <2>1. a.faults[i] \in Range(a.faults)
    BY <1>3 DEF Range
  <2>2. a.faults[i] \in UNION {Range(b.faults) : b \in Acceptance}
    BY <2>1
  <2> QED BY <2>2 DEF FaultsRun
<1>6. \A n \in Names : /\ get(n).name = n /\ get(n).kind \in {"flag", "chaos", "release"}
                       /\ get(n).kind = "release" => get(n).mark \notin {"", "rollback", "sre-blackboard"}
                       /\ get(n).repair # "" => get(n).kind = "release" /\ get(n).repair = get(n).on
  BY Got, Described
<1>7. Last(a.faults) = a.faults[Len(a.faults)]
  BY DEF Last
<1>8. \A i, j \in 1..Len(a.faults) :
          i # j => get(a.faults[i]).on # get(a.faults[j]).on /\ a.faults[i] # a.faults[j]
  BY <1>2, <1>3
<1> QED BY <1>3, <1>4, <1>5, <1>6, <1>7, <1>8 DEF Faults

-----------------------------------------------------------------------------
(* Lab: what a step leaves alone                                           *)

LEMMA LabKept ==
  ASSUME NEW a \in Acceptance, LabState(a), UNCHANGED Lab, scn'.injected = scn.injected,
         Doomed => Doomed', scn'.approved = {} => scn.approved = {}
  PROVE  LabState(a)'
<1>1. \A n : (Clean(n)' <=> Clean(n)) /\ (Broken(n)' <=> Broken(n))
  BY DEF Clean, Broken, Lab
<1>2. \A i \in 1..Len(a.faults) : Known(a, i)' => Known(a, i)
  BY DEF Known
<1>3. UNCHANGED <<flagd, unwritten, chaos, rollouts>> /\ Len(scn'.injected) = Len(scn.injected)
  BY DEF Lab
<1> QED BY <1>1, <1>2, <1>3 DEF LabState

\* Steps that change rows only.
LEMMA RowsStep ==
  ASSUME NEW a \in Acceptance, LabInvOf(a), UNCHANGED Lab, UNCHANGED scn,
         DOMAIN cases' = Services, DOMAIN inbox' = Services,
         \A k \in Services : Busy(k)' => Busy(k),
         \A k \in Services : cases'[k].state = "EXECUTING" => cases[k].state = "EXECUTING",
         Pages'
  PROVE  LabInvOf(a)'
<1>1. Static(a)' /\ Place(a)' /\ Exit'
  BY DEF LabInvOf, Static, Place, Exit, ok, symptom_matched, Lab
<1>2. Approval'
  BY DEF LabInvOf, Approval
<1>3. LabState(a)'
  BY LabKept DEF LabInvOf, Doomed
<1>4. Repairable(a)'
  BY DEF LabInvOf, Repairable, Broken, Lab
<1> QED BY <1>1, <1>2, <1>3, <1>4 DEF LabInvOf

LEMMA CaseAtIs ==
  ASSUME NEW k \in Services, NEW to, DOMAIN cases = Services
  PROVE  /\ DOMAIN CaseAt(k, to) = Services /\ CaseAt(k, to)[k].state = to
         /\ \A j \in Services \ {k} : CaseAt(k, to)[j] = cases[j]
BY DEF CaseAt

LEMMA NotifiedInv ==
  ASSUME NEW a \in Acceptance, LabInvOf(a), NEW k \in Services, NEW notice \in {"firing", "resolved"},
         Notified(k, notice)
  PROVE  LabInvOf(a)'
<1>1. UNCHANGED Lab /\ UNCHANGED scn /\ scn.phase \in Noticing
  BY DEF Notified, Lab
<1>2. DOMAIN cases' = Services /\ \A j \in Services : cases'[j] = cases[j] \/ cases'[j].state = "INVESTIGATING"
  BY DEF Notified, NoCase, LabInvOf, Static
<1>3. \A j \in Services : Busy(j)' => Busy(j)
  BY <1>2 DEF Busy
<1>4. \A j \in Services : cases'[j].state = "EXECUTING" => cases[j].state = "EXECUTING"
  BY <1>2
<1>5. /\ DOMAIN inbox' = Services
      /\ inbox'[k] = Append(inbox[k], [status |-> notice, epoch |-> scn.epoch])
      /\ \A j \in Services \ {k} : inbox'[j] = inbox[j]
  BY DEF Notified, LabInvOf, Static
<1>6. Pages'
  <2> DEFINE row == [status |-> notice, epoch |-> scn.epoch]
  <2>1. scn.epoch \in Nat /\ Rows /\ SeenFired /\ SeenResolved /\ SeenOnce
    BY DEF LabInvOf, Pages
  <2>2. inbox[k] \in Seq([status: {"firing", "resolved"}, epoch: Nat])
    BY <2>1 DEF Rows
  <2>3. row \in [status: {"firing", "resolved"}, epoch: Nat] /\ row.status = notice
    BY <2>1 DEF Rows
  <2> HIDE DEF row
  <2>4. /\ inbox'[k] \in Seq([status: {"firing", "resolved"}, epoch: Nat])
        /\ inbox'[k] # <<>> /\ Len(inbox'[k]) = Len(inbox[k]) + 1
        /\ \A i \in DOMAIN inbox[k] : i \in DOMAIN inbox'[k] /\ inbox'[k][i] = inbox[k][i]
        /\ inbox'[k][Len(inbox[k]) + 1] = row
    BY <1>5, <2>2, <2>3 DEF row
  <2>5. inbox'[k][1].status = "firing"
    <3>1. CASE inbox[k] = <<>>
      <4>1. notice # "resolved" /\ Len(inbox[k]) = 0
        BY <3>1 DEF Notified
      <4> QED BY <2>3, <2>4, <4>1
    <3>2. CASE inbox[k] # <<>>
      <4>1. 1 \in DOMAIN inbox[k]
        BY <2>2, <3>2
      <4> QED BY <2>1, <2>4, <3>2, <4>1 DEF Rows
    <3> QED BY <3>1, <3>2
  <2>6. scn.phase # "report"
    BY <1>1 DEF Noticing
  <2>7. SeenResolved'
    <3> SUFFICES ASSUME scn'.resolved
                 PROVE  /\ scn'.phase \in Done \cup {"crashed"}
                        /\ \A j \in scn'.seen : \E i \in DOMAIN inbox'[j] : inbox'[j][i].status = "resolved"
      BY DEF SeenResolved
    <3>1. scn' = scn /\ scn.resolved
      BY <1>1
    <3>2. ASSUME NEW j \in scn.seen PROVE \E i \in DOMAIN inbox'[j] : inbox'[j][i].status = "resolved"
      <4>1. j \in Services
        BY <2>1 DEF SeenFired
      <4>2. PICK i \in DOMAIN inbox[j] : inbox[j][i].status = "resolved"
        BY <2>1, <3>1 DEF SeenResolved
      <4>3. CASE j = k
        BY <2>4, <4>2, <4>3
      <4>4. CASE j # k
        BY <1>5, <4>1, <4>2, <4>4
      <4> QED BY <4>3, <4>4
    <3> QED BY <2>1, <3>1, <3>2 DEF SeenResolved
  <2>8. Rows'
    BY <1>5, <2>1, <2>4, <2>5 DEF Rows
  <2>9. SeenFired'
    BY <1>1, <1>5, <2>1, <2>4 DEF SeenFired
  <2>10. SeenOnce'
    BY <1>1, <2>6 DEF SeenOnce
  <2> QED BY <1>1, <2>1, <2>7, <2>8, <2>9, <2>10 DEF Pages
<1> QED BY <1>1, <1>2, <1>3, <1>4, <1>5, <1>6, RowsStep

LEMMA WorkedInv ==
  ASSUME NEW a \in Acceptance, LabInvOf(a), NEW k \in Services, Worked(k) \/ VerifiedCase(k)
  PROVE  LabInvOf(a)'
<1>1. UNCHANGED Lab /\ UNCHANGED scn /\ UNCHANGED inbox
  BY DEF Worked, VerifiedCase, Lab
<1>2. DOMAIN cases' = Services /\ \A j \in Services : cases'[j] = cases[j] \/ cases'[j].state \in {"AWAITING_APPROVAL"} \cup FINAL
  <2>1. DOMAIN cases = Services
    BY DEF LabInvOf, Static
  <2>2. CASE Worked(k)
    <3>1. PICK plan \in {"wanted", "another"} :
              cases' = [CaseAt(k, "AWAITING_APPROVAL") EXCEPT ![k].plan = plan] \/ cases' = CaseAt(k, "ESCALATED")
      BY <2>2 DEF Worked
    <3>2. CASE cases' = CaseAt(k, "ESCALATED")
      BY <2>1, <3>2, CaseAtIs DEF FINAL
    <3>3. CASE cases' = [CaseAt(k, "AWAITING_APPROVAL") EXCEPT ![k].plan = plan]
      <4>1. /\ DOMAIN cases' = Services /\ \A j \in Services \ {k} : cases'[j] = cases[j]
            /\ cases'[k] = [CaseAt(k, "AWAITING_APPROVAL")[k] EXCEPT !.plan = plan]
        BY <2>1, <3>3, CaseAtIs
      <4>2. cases'[k].state = "AWAITING_APPROVAL"
        BY <2>1, <4>1 DEF CaseAt
      <4> QED BY <4>1, <4>2
    <3> QED BY <3>1, <3>2, <3>3
  <2>3. CASE VerifiedCase(k)
    BY <2>1, <2>3, CaseAtIs DEF VerifiedCase
  <2> QED BY <2>2, <2>3
<1>3. \A j \in Services : Busy(j)' => Busy(j)
  BY <1>2 DEF Busy, FINAL
<1>4. \A j \in Services : cases'[j].state = "EXECUTING" => cases[j].state = "EXECUTING"
  BY <1>2 DEF FINAL
<1>5. DOMAIN inbox' = Services /\ Pages'
  BY <1>1 DEF LabInvOf, Pages, Rows, SeenFired, SeenResolved, SeenOnce, Static
<1> QED BY <1>1, <1>2, <1>3, <1>4, <1>5, RowsStep

-----------------------------------------------------------------------------
(* Lab: the run goes on                                                    *)

\* Steps of the run that leave the rows, the approval and its repair alone.
LEMMA RunStep ==
  ASSUME NEW a \in Acceptance, LabInvOf(a), Place(a)', LabState(a)', Repairable(a)',
         DOMAIN flagd' = DOMAIN flagd, DOMAIN rollouts' = DOMAIN rollouts,
         UNCHANGED inbox, DOMAIN cases' = Services, \A k \in Services : Busy(k)' => Busy(k),
         DOMAIN scn' = ScnFields, scn'.cause = scn.cause,
         scn'.approved = scn.approved, scn'.closedLoop = scn.closedLoop, scn'.accepted = scn.accepted \/ Exit',
         scn.phase \notin {"ended", "crashed"}, scn'.epoch \in Nat,
         scn.phase \in Later => scn'.phase \in Later,
         scn.approved # {} => scn'.phase \in {"decide"} \cup Later,
         scn.approved # {} => scn'.remediated, scn'.phase = "decide" => scn'.remediated,
         SeenFired', SeenResolved', SeenOnce'
  PROVE  LabInvOf(a)'
<1>1. Static(a)'
  BY DEF LabInvOf, Static
<1>2. Approval'
  BY DEF LabInvOf, Approval
<1>3. Pages'
  BY DEF LabInvOf, Pages, Rows
<1>4. Exit'
  BY DEF LabInvOf, Exit
<1> QED BY <1>1, <1>2, <1>3, <1>4 DEF LabInvOf

\* Those that leave the lab alone too.
LEMMA CasesStep ==
  ASSUME NEW a \in Acceptance, LabInvOf(a), UNCHANGED Lab,
         UNCHANGED inbox, DOMAIN cases' = Services, \A k \in Services : Busy(k)' => Busy(k),
         \A k \in Services : cases'[k].state = "EXECUTING" => cases[k].state = "EXECUTING",
         DOMAIN scn' = ScnFields, scn'.cause = scn.cause, scn'.injected = scn.injected, scn'.todo = scn.todo,
         scn'.approved = scn.approved, scn'.closedLoop = scn.closedLoop, scn'.accepted = scn.accepted \/ Exit',
         scn.phase \notin {"ended", "crashed"}, scn'.phase \in Before \cup During \cup Later, scn'.epoch \in Nat,
         scn'.phase \in Before => scn.phase \in Before,
         scn'.phase \in During => scn.phase \in During,
         scn.phase \in Later => scn'.phase \in Later,
         scn'.phase \in {"baseline", "quiet"} \cup Done => Len(scn.injected) = 0,
         scn'.error \in BOOLEAN, scn'.error => scn'.phase \in Later, scn.error => scn'.error,
         scn.approved # {} => scn'.phase \in {"decide"} \cup Later,
         scn.approved # {} => scn'.remediated, scn'.phase = "decide" => scn'.remediated,
         SeenFired', SeenResolved', SeenOnce'
  PROVE  LabInvOf(a)'
<1>1. Place(a)'
  BY DEF LabInvOf, Place
<1>2. Doomed => Doomed'
  BY DEF Doomed
<1>3. LabState(a)'
  BY <1>2, LabKept DEF LabInvOf
<1>4. Repairable(a)'
  <2>1. Broken(a.faults[Len(a.faults)])' <=> Broken(a.faults[Len(a.faults)])
    BY DEF Broken, Lab
  <2> QED BY <2>1 DEF LabInvOf, Repairable
<1>5. DOMAIN flagd' = DOMAIN flagd /\ DOMAIN rollouts' = DOMAIN rollouts
  BY DEF Lab
<1> QED BY <1>1, <1>3, <1>4, <1>5, RunStep

\* Those that leave the incidents alone too.
LEMMA PhaseStep ==
  ASSUME NEW a \in Acceptance, LabInvOf(a), UNCHANGED Lab, UNCHANGED <<inbox, cases>>, DOMAIN scn' = ScnFields,
         scn'.cause = scn.cause, scn'.injected = scn.injected, scn'.todo = scn.todo,
         scn'.approved = scn.approved, scn'.closedLoop = scn.closedLoop, scn'.accepted = scn.accepted \/ Exit',
         scn.phase \notin {"ended", "crashed"}, scn'.phase \in Before \cup During \cup Later, scn'.epoch \in Nat,
         scn'.phase \in Before => scn.phase \in Before,
         scn'.phase \in During => scn.phase \in During,
         scn.phase \in Later => scn'.phase \in Later,
         scn'.phase \in {"baseline", "quiet"} \cup Done => Len(scn.injected) = 0,
         scn'.error \in BOOLEAN, scn'.error => scn'.phase \in Later, scn.error => scn'.error,
         scn.approved # {} => scn'.phase \in {"decide"} \cup Later,
         scn.approved # {} => scn'.remediated, scn'.phase = "decide" => scn'.remediated,
         SeenFired', SeenResolved', SeenOnce'
  PROVE  LabInvOf(a)'
<1>1. UNCHANGED inbox /\ cases' = cases /\ DOMAIN cases' = Services
  BY DEF LabInvOf, Static
<1>2. \A k \in Services : Busy(k)' => Busy(k)
  BY <1>1 DEF Busy
<1> QED BY <1>1, <1>2, CasesStep

-----------------------------------------------------------------------------
(* Lab: the steps of the run                                               *)

\* What PhaseStep asks of the fields that most steps keep.
Keeps == /\ DOMAIN scn' = ScnFields
         /\ \A x \in {"cause", "injected", "todo", "approved", "closedLoop", "accepted", "seen"} : scn'[x] = scn[x]

LEMMA SeenKept ==
  ASSUME SeenFired, SeenResolved, UNCHANGED inbox, scn'.seen = scn.seen, scn'.resolved = scn.resolved,
         scn.resolved => scn'.phase \in Done \cup {"crashed"}, scn'.phase = "report" => scn'.error
  PROVE  SeenFired' /\ SeenResolved' /\ SeenOnce'
<1>1. SeenFired' /\ SeenOnce'
  BY DEF SeenFired, SeenOnce
<1>2. SeenResolved'
  BY DEF SeenResolved
<1> QED BY <1>1, <1>2

LEMMA BaselineInv ==
  ASSUME NEW a \in Acceptance, LabInvOf(a), NEW active \in {{}, Services}, check_baseline(active)
  PROVE  LabInvOf(a)'
<1>0. /\ DOMAIN scn = ScnFields /\ scn.epoch \in Nat /\ scn.error \in BOOLEAN
      /\ SeenFired /\ SeenResolved /\ SeenOnce /\ Place(a) /\ Approval
  BY DEF LabInvOf, Static, Pages, Place
<1>1. /\ Keeps /\ scn.phase = "baseline" /\ scn'.phase \in {"quiet", "ended"}
      /\ \A x \in {"epoch", "error", "remediated", "resolved"} : scn'[x] = scn[x]
      /\ UNCHANGED Lab /\ UNCHANGED <<inbox, cases>>
  BY <1>0 DEF check_baseline, Keeps, ScnFields
<1>2. SeenFired' /\ SeenResolved' /\ SeenOnce'
  BY <1>0, <1>1, SeenKept DEF Keeps, SeenResolved, Done
<1> QED BY <1>0, <1>1, <1>2, PhaseStep DEF Keeps, Before, During, Later, Done, Place, Approval

LEMMA WaitQuietInv ==
  ASSUME NEW a \in Acceptance, LabInvOf(a), NEW active \in {{}, Services}, NEW held \in BOOLEAN, NEW expired \in BOOLEAN,
         wait_quiet(active, held, expired)
  PROVE  LabInvOf(a)'
<1>0. /\ DOMAIN scn = ScnFields /\ scn.epoch \in Nat /\ scn.error \in BOOLEAN
      /\ SeenFired /\ SeenResolved /\ SeenOnce /\ Place(a) /\ Approval
  BY DEF LabInvOf, Static, Pages, Place
<1>1. /\ Keeps /\ scn.phase = "quiet" /\ scn'.phase \in {"quiet", "inject", "report"}
      /\ \A x \in {"epoch", "remediated", "resolved"} : scn'[x] = scn[x]
      /\ scn'.error = IF scn'.phase = "report" THEN TRUE ELSE scn.error
      /\ UNCHANGED Lab /\ UNCHANGED <<inbox, cases>>
  BY <1>0 DEF wait_quiet, Waited, Keeps, ScnFields
<1>2. SeenFired' /\ SeenResolved' /\ SeenOnce'
  BY <1>0, <1>1, SeenKept DEF Keeps, SeenResolved, Done
<1> QED BY <1>0, <1>1, <1>2, PhaseStep DEF Keeps, Before, During, Later, Done, Place, Approval

LEMMA PollAlertsInv ==
  ASSUME NEW a \in Acceptance, LabInvOf(a), NEW timely \in BOOLEAN, NEW over \in BOOLEAN, PollAlerts(timely, over)
  PROVE  LabInvOf(a)'
<1>0. /\ DOMAIN scn = ScnFields /\ scn.epoch \in Nat /\ scn.error \in BOOLEAN
      /\ SeenFired /\ SeenResolved /\ SeenOnce /\ Place(a) /\ Approval
  BY DEF LabInvOf, Static, Pages, Place
<1> DEFINE found == {k \in Services : \E i \in DOMAIN inbox[k] : inbox[k][i].status = "firing"}
<1>1. /\ scn.phase = "alerts" /\ scn'.phase \in {"alerts", "recover", "probe"} /\ scn'.seen = found
      /\ DOMAIN scn' = ScnFields /\ scn'.epoch \in Nat
      /\ \A x \in {"cause", "injected", "todo", "approved", "closedLoop", "accepted", "error", "remediated", "resolved"} :
            scn'[x] = scn[x]
      /\ UNCHANGED Lab /\ UNCHANGED <<inbox, cases>>
  BY <1>0 DEF PollAlerts, ScnFields
<1>2. SeenFired' /\ SeenResolved' /\ SeenOnce'
  <2>1. SeenFired'
    <3>1. \A k \in found : k \in Services /\ inbox[k] # <<>>
      OBVIOUS
    <3> HIDE DEF found
    <3> QED BY <1>1, <3>1 DEF SeenFired
  <2> QED BY <1>0, <1>1, <2>1 DEF SeenResolved, SeenOnce, Done
<1> HIDE DEF found
<1> QED BY <1>0, <1>1, <1>2, PhaseStep DEF Keeps, Before, During, Later, Done, Place, Approval

LEMMA ProbeInv ==
  ASSUME NEW a \in Acceptance, LabInvOf(a), NEW good \in BOOLEAN, Probe(good)
  PROVE  LabInvOf(a)'
<1>0. /\ DOMAIN scn = ScnFields /\ scn.epoch \in Nat /\ scn.error \in BOOLEAN
      /\ SeenFired /\ SeenResolved /\ SeenOnce /\ Place(a) /\ Approval
  BY DEF LabInvOf, Static, Pages, Place
<1>1. /\ Keeps /\ scn.phase = "probe" /\ scn'.phase = "diagnose"
      /\ \A x \in {"epoch", "error", "remediated", "resolved"} : scn'[x] = scn[x]
      /\ UNCHANGED Lab /\ UNCHANGED <<inbox, cases>>
  BY <1>0 DEF Probe, Keeps, ScnFields
<1>2. SeenFired' /\ SeenResolved' /\ SeenOnce'
  BY <1>0, <1>1, SeenKept DEF Keeps, SeenResolved, Done
<1> QED BY <1>0, <1>1, <1>2, PhaseStep DEF Keeps, Before, During, Later, Done, Place, Approval

LEMMA WaitDiagnosesInv ==
  ASSUME NEW a \in Acceptance, LabInvOf(a), NEW expired \in BOOLEAN, NEW top \in {"right", "wrong", "none"}, WaitDiagnoses(expired, top)
  PROVE  LabInvOf(a)'
<1>0. /\ DOMAIN scn = ScnFields /\ scn.epoch \in Nat /\ scn.error \in BOOLEAN
      /\ SeenFired /\ SeenResolved /\ SeenOnce /\ Place(a) /\ Approval
  BY DEF LabInvOf, Static, Pages, Place
<1>1. /\ Keeps /\ scn.phase = "diagnose" /\ scn'.epoch \in Nat
      /\ scn'.phase = IF Cases = {} THEN "recover" ELSE "decide"
      /\ scn'.remediated = (Cases # {})
      /\ \A x \in {"error", "resolved"} : scn'[x] = scn[x]
      /\ UNCHANGED Lab /\ UNCHANGED <<inbox, cases>>
  BY <1>0 DEF WaitDiagnoses, Keeps, ScnFields
<1>2. SeenFired' /\ SeenResolved' /\ SeenOnce'
  BY <1>0, <1>1, SeenKept DEF Keeps, SeenResolved, Done
<1> QED BY <1>0, <1>1, <1>2, PhaseStep DEF Keeps, Before, During, Later, Done, Place, Approval

LEMMA RaisesInv ==
  ASSUME NEW a \in Acceptance, LabInvOf(a), Raises
  PROVE  LabInvOf(a)'
<1>0. /\ DOMAIN scn = ScnFields /\ scn.epoch \in Nat /\ scn.error \in BOOLEAN
      /\ SeenFired /\ SeenResolved /\ SeenOnce /\ Place(a) /\ Approval
  BY DEF LabInvOf, Static, Pages, Place
<1>1. /\ Keeps /\ scn.phase \in During /\ scn'.phase = "recover" /\ scn'.epoch = 2 /\ scn'.error = TRUE
      /\ \A x \in {"remediated", "resolved"} : scn'[x] = scn[x]
      /\ UNCHANGED Lab /\ UNCHANGED <<inbox, cases>>
  BY <1>0 DEF Raises, Raised, Keeps, ScnFields, During
<1>2. SeenFired' /\ SeenResolved' /\ SeenOnce'
  BY <1>0, <1>1, SeenKept DEF Keeps, SeenResolved, Done, During
<1>3. /\ scn.phase \notin Before \cup Later /\ scn.phase \notin {"ended", "crashed"}
      /\ scn.approved # {} => scn.remediated
  BY <1>0, <1>1 DEF Before, During, Later, Done, Approval
<1>4. /\ scn'.phase \notin {"baseline", "quiet"} \cup Done \cup Before \cup During /\ scn'.phase \in Later
      /\ scn'.phase # "decide"
  BY <1>1 DEF Before, During, Later, Done
<1>5. scn'.remediated = scn.remediated
  BY <1>1
<1>6. scn'.epoch \in Nat
  BY <1>1, SMT
<1>7. scn'.error \in BOOLEAN /\ (scn.error => scn'.error)
  BY <1>1, Zenon
<1> QED BY <1>1, <1>2, <1>3, <1>4, <1>5, <1>6, <1>7, PhaseStep DEF Keeps

LEMMA WaitResolvedInv ==
  ASSUME NEW a \in Acceptance, LabInvOf(a), NEW active \in {{}, Services}, NEW held \in BOOLEAN, NEW expired \in BOOLEAN,
         WaitResolved(active, held, expired)
  PROVE  LabInvOf(a)'
<1>0. /\ DOMAIN scn = ScnFields /\ scn.epoch \in Nat /\ scn.error \in BOOLEAN
      /\ SeenFired /\ SeenResolved /\ SeenOnce /\ Place(a) /\ Approval
  BY DEF LabInvOf, Static, Pages, Place
<1>1. /\ Keeps /\ scn.phase = "recover" /\ scn'.phase \in {"recover", "close"} /\ scn.injected = <<>>
      /\ \A x \in {"epoch", "error", "remediated"} : scn'[x] = scn[x]
      /\ \/ scn'.resolved = scn.resolved
         \/ scn'.phase = "close" /\ \A k \in scn.seen : LastStatus(k) = "resolved"
      /\ UNCHANGED Lab /\ UNCHANGED <<inbox, cases>>
  <2> DEFINE quiet == [scn EXCEPT !.phase = "close", !.resolved = TRUE]
             noisy == [scn EXCEPT !.phase = "close"]
             still == active = {} /\ \A k \in scn.seen : LastStatus(k) = "resolved"
  <2>1. /\ scn.phase = "recover" /\ scn.injected = <<>> /\ UNCHANGED Lab /\ UNCHANGED <<inbox, cases>>
        /\ \/ still /\ scn' = quiet
           \/ scn' = noisy
           \/ scn' = [scn EXCEPT !.quiet = still]
    BY DEF WaitResolved, Waited
  <2>2. CASE still /\ scn' = quiet
    BY <1>0, <2>1, <2>2 DEF Keeps, ScnFields
  <2>3. CASE scn' = noisy \/ scn' = [scn EXCEPT !.quiet = still]
    <3> HIDE DEF still
    <3>1. Keeps /\ scn'.phase \in {"recover", "close"}
      BY <1>0, <2>1, <2>3 DEF Keeps, ScnFields
    <3>2. /\ \A x \in {"epoch", "error", "remediated"} : scn'[x] = scn[x]
          /\ scn'.resolved = scn.resolved
      BY <1>0, <2>1, <2>3 DEF ScnFields
    <3> HIDE DEF quiet, noisy
    <3> QED BY <2>1, <3>1, <3>2
  <2> QED BY <2>1, <2>2, <2>3, Zenon
<1>2. SeenFired' /\ SeenResolved' /\ SeenOnce'
  <2>1. ~scn.resolved
    BY <1>0, <1>1 DEF SeenResolved, Done
  <2>2. ASSUME \A k \in scn.seen : LastStatus(k) = "resolved", NEW k \in scn.seen
        PROVE  \E i \in DOMAIN inbox[k] : inbox[k][i].status = "resolved"
    <3>1. inbox[k] # <<>> /\ inbox[k] \in Seq([status: {"firing", "resolved"}, epoch: Nat])
      BY <1>0 DEF SeenFired, LabInvOf, Pages, Rows
    <3>2. Len(inbox[k]) \in DOMAIN inbox[k]
      BY <3>1
    <3> QED BY <2>2, <3>2 DEF LastStatus, Last
  <2>3. SeenResolved'
    BY <1>1, <2>1, <2>2 DEF SeenResolved, Keeps, Done
  <2> QED BY <1>0, <1>1, <2>3 DEF SeenFired, SeenOnce, Keeps
<1>3. Len(scn.injected) = 0
  BY <1>1
<1> QED BY <1>0, <1>1, <1>2, <1>3, PhaseStep DEF Keeps, Before, During, Later, Done, Place, Approval

LEMMA CloseReadsInv ==
  ASSUME NEW a \in Acceptance, LabInvOf(a), CloseReads
  PROVE  LabInvOf(a)'
<1>0. /\ DOMAIN scn = ScnFields /\ scn.epoch \in Nat /\ scn.error \in BOOLEAN
      /\ SeenFired /\ SeenResolved /\ SeenOnce /\ Place(a) /\ Approval
  BY DEF LabInvOf, Static, Pages, Place
<1>1. /\ Keeps /\ scn.phase = "close" /\ scn'.phase = "closing"
      /\ \A x \in {"epoch", "error", "remediated", "resolved"} : scn'[x] = scn[x]
      /\ UNCHANGED Lab /\ UNCHANGED <<inbox, cases>>
  BY <1>0 DEF CloseReads, Keeps, ScnFields
<1>2. SeenFired' /\ SeenResolved' /\ SeenOnce'
  BY <1>0, <1>1, SeenKept DEF Keeps, SeenResolved, Done
<1> QED BY <1>0, <1>1, <1>2, PhaseStep DEF Keeps, Before, During, Later, Done, Place, Approval

LEMMA ReportInv ==
  ASSUME NEW a \in Acceptance, LabInvOf(a), Report
  PROVE  LabInvOf(a)'
<1>0. /\ DOMAIN scn = ScnFields /\ scn.epoch \in Nat /\ scn.error \in BOOLEAN
      /\ SeenFired /\ SeenResolved /\ SeenOnce /\ Place(a) /\ Approval
  BY DEF LabInvOf, Static, Pages, Place
<1>1. /\ scn.phase = "report" /\ scn'.phase = "ended" /\ DOMAIN scn' = ScnFields
      /\ \A x \in ScnFields \ {"phase", "accepted"} : scn'[x] = scn[x]
      /\ scn'.accepted => ok
      /\ UNCHANGED Lab /\ UNCHANGED <<inbox, cases>>
  BY <1>0 DEF Report, ScnFields
<1>2. SeenFired' /\ SeenResolved' /\ SeenOnce'
  BY <1>0, <1>1, SeenKept DEF SeenResolved, Done, ScnFields
<1>3. ok' <=> ok
  BY <1>1 DEF ok, symptom_matched, ScnFields
<1>4. Exit'
  BY <1>1, <1>3, Zenon DEF Exit
<1>5. /\ scn'.cause = scn.cause /\ scn'.injected = scn.injected /\ scn'.todo = scn.todo
      /\ scn'.approved = scn.approved /\ scn'.closedLoop = scn.closedLoop /\ scn'.epoch = scn.epoch
      /\ scn'.error = scn.error /\ scn'.remediated = scn.remediated
  BY <1>1 DEF ScnFields
<1> QED BY <1>0, <1>1, <1>2, <1>4, <1>5, PhaseStep DEF Before, During, Later, Done, Place, Approval

\* The approved incident has ended, or the wait for it.
LEMMA WaitFinalInv ==
  ASSUME NEW a \in Acceptance, LabInvOf(a), NEW expired \in BOOLEAN, WaitFinal(expired)
  PROVE  LabInvOf(a)'
<1>0. /\ DOMAIN scn = ScnFields /\ scn.epoch \in Nat /\ scn.error \in BOOLEAN /\ DOMAIN cases = Services
      /\ SeenFired /\ SeenResolved /\ SeenOnce /\ Place(a) /\ Approval /\ Static(a) /\ LabState(a) /\ Rows /\ Exit
  BY DEF LabInvOf, Static, Pages, Place
<1> DEFINE closed == \E k \in scn.approved : cases[k].state = "RESOLVED"
<1>1. /\ scn.phase = "decide" /\ scn'.phase = "recover" /\ DOMAIN scn' = ScnFields /\ scn'.epoch = 2
      /\ \A x \in {"cause", "injected", "todo", "approved", "accepted", "seen", "error", "remediated", "resolved"} :
            scn'[x] = scn[x]
      /\ UNCHANGED Lab /\ UNCHANGED <<inbox, cases>>
  BY <1>0 DEF WaitFinal, ScnFields
<1>2. scn'.closedLoop = closed
  BY <1>0 DEF WaitFinal, ScnFields
<1>3. SeenFired' /\ SeenResolved' /\ SeenOnce'
  BY <1>0, <1>1, SeenKept DEF SeenResolved, Done
<1>4. Static(a)'
  BY <1>0, <1>1 DEF Static, Lab
<1>5. Place(a)'
  BY <1>0, <1>1 DEF Place, Before, During, Later, Done
<1>6. Approval'
  <2>1. ASSUME NEW k \in Services, Busy(k)' PROVE k \in scn.approved /\ ~closed
    <3>1. Busy(k) /\ k \in scn.approved
      BY <1>0, <1>1, <2>1 DEF Busy, Approval
    <3>2. ASSUME NEW j \in scn.approved PROVE cases[j].state # "RESOLVED"
      BY <1>0, <3>1 DEF Busy, Approval
    <3> QED BY <3>1, <3>2
  <2>2. closed \in BOOLEAN
    OBVIOUS
  <2> HIDE DEF closed
  <2>3. scn'.closedLoop \in BOOLEAN /\ \A k \in Services : Busy(k)' => k \in scn'.approved /\ ~scn'.closedLoop
    BY <1>1, <1>2, <2>1, <2>2
  <2> QED BY <1>0, <1>1, <2>3 DEF Approval, Later
<1>7. LabState(a)'
  <2>1. ~Doomed
    BY <1>0, <1>1 DEF Doomed, Place, Later, Done
  <2> QED BY <1>0, <1>1, <2>1, LabKept
<1>8. Repairable(a)'
  BY <1>1 DEF Repairable, During
<1>9. Pages' /\ Exit'
  BY <1>0, <1>1, <1>3 DEF Pages, Rows, Exit
<1> QED BY <1>4, <1>5, <1>6, <1>7, <1>8, <1>9 DEF LabInvOf

LEMMA CloseWritesInv ==
  ASSUME NEW a \in Acceptance, LabInvOf(a), CloseWrites
  PROVE  LabInvOf(a)'
<1>0. /\ DOMAIN scn = ScnFields /\ scn.epoch \in Nat /\ scn.error \in BOOLEAN /\ DOMAIN cases = Services
      /\ SeenFired /\ SeenResolved /\ SeenOnce /\ Place(a) /\ Approval
  BY DEF LabInvOf, Static, Pages, Place
<1> DEFINE stale == \E c \in scn.closing : cases[c[1]].state # c[2]
           mine == {c[1] : c \in scn.closing}
           flaps == \E k \in scn.seen : Flapping(k)
<1>1. scn.phase = "closing" /\ UNCHANGED Lab /\ UNCHANGED inbox
  BY DEF CloseWrites
<1>2. CASE stale
  <2>1. /\ Keeps /\ scn'.phase = "crashed" /\ cases' = cases
        /\ \A x \in {"epoch", "error", "remediated", "resolved"} : scn'[x] = scn[x]
    BY <1>0, <1>2 DEF CloseWrites, Keeps, ScnFields
  <2>2. SeenFired' /\ SeenResolved' /\ SeenOnce'
    BY <1>0, <1>1, <2>1, SeenKept DEF Keeps
  <2> QED BY <1>0, <1>1, <2>1, <2>2, PhaseStep DEF Keeps, Before, During, Later, Done, Place, Approval
<1>3. CASE ~stale
  <2>1. /\ cases' = [k \in Services |-> IF k \in mine THEN CaseAt(k, "ESCALATED")[k] ELSE cases[k]]
        /\ scn' = [scn EXCEPT !.phase = "report", !.closing = {}, !.flapping = flaps]
    BY <1>3 DEF CloseWrites
  <2> HIDE DEF mine, flaps
  <2>2. /\ Keeps /\ scn'.phase = "report" /\ scn'.flapping = flaps
        /\ \A x \in {"epoch", "error", "remediated", "resolved"} : scn'[x] = scn[x]
    BY <1>0, <2>1 DEF Keeps, ScnFields
  <2>3. DOMAIN cases' = Services /\ \A k \in Services : cases'[k] = cases[k] \/ cases'[k].state = "ESCALATED"
    BY <1>0, <2>1, CaseAtIs
  <2>4. /\ \A k \in Services : Busy(k)' => Busy(k)
        /\ \A k \in Services : cases'[k].state = "EXECUTING" => cases[k].state = "EXECUTING"
    BY <2>3 DEF Busy
  <2>5. SeenFired' /\ SeenResolved'
    BY <1>0, <1>1, <2>2 DEF SeenFired, SeenResolved, Keeps, Done
  <2>6. SeenOnce'
    <3>1. ~flaps => \A k \in scn.seen : ~Refired(inbox[k])
      BY DEF flaps, Flapping, Refired
    <3> QED BY <1>1, <2>2, <3>1 DEF SeenOnce, Keeps
  <2> QED BY <1>0, <1>1, <2>2, <2>3, <2>4, <2>5, <2>6, CasesStep
          DEF Keeps, Before, During, Later, Done, Place, Approval
<1> QED BY <1>2, <1>3

\* A write that lands late finds a run that will not be accepted.
LEMMA WriteLandsInv ==
  ASSUME NEW a \in Acceptance, LabInvOf(a), WriteLands
  PROVE  LabInvOf(a)'
<1>1. PICK w \in unwritten : /\ flagd' = [flagd EXCEPT ![w[1]] = w[2]]
                             /\ UNCHANGED <<chaos, rollouts, inbox, cases, scn>>
  BY DEF WriteLands
<1>2. DOMAIN flagd' = DOMAIN flagd /\ chaos' = chaos /\ rollouts' = rollouts /\ inbox' = inbox /\ cases' = cases /\ scn' = scn
  BY <1>1
<1>3. Doomed /\ LabState(a)
  BY <1>1 DEF LabInvOf, LabState
<1>4. Doomed'
  BY <1>2, <1>3 DEF Doomed
<1>5. scn.phase \notin During
  BY <1>3 DEF LabInvOf, Place, Doomed, Later, Done, During
<1>6. \A n : get(n).kind # "flag" => (Clean(n) => Clean(n)') /\ (Broken(n) => Broken(n)')
  BY <1>2 DEF Clean, Broken
<1>7. \A i \in 1..Len(a.faults) : Known(a, i)' => Known(a, i) /\ get(a.faults[i]).kind # "flag"
  BY <1>2, <1>3, <1>4 DEF Known
<1>8. LabState(a)'
  BY <1>2, <1>3, <1>4, <1>6, <1>7 DEF LabState
<1>9. Static(a)' /\ Place(a)' /\ Exit'
  BY <1>2 DEF LabInvOf, Static, Place, Exit, ok, symptom_matched
<1>10. Approval' /\ Repairable(a)'
  BY <1>2, <1>5 DEF LabInvOf, Approval, Repairable, Busy
<1>11. Pages'
  BY <1>2 DEF LabInvOf, Pages, Rows, SeenFired, SeenResolved, SeenOnce
<1> QED BY <1>8, <1>9, <1>10, <1>11 DEF LabInvOf

\* One decision: the repair is approved when no other one has been.
LEMMA DecideInv ==
  ASSUME NEW a \in Acceptance, LabInvOf(a), NEW k \in Services, Decide(k)
  PROVE  LabInvOf(a)'
<1>0. /\ DOMAIN scn = ScnFields /\ scn.epoch \in Nat /\ scn.error \in BOOLEAN /\ DOMAIN cases = Services
      /\ SeenFired /\ SeenResolved /\ SeenOnce /\ Place(a) /\ Approval /\ Static(a) /\ LabState(a) /\ Rows /\ Exit
  BY DEF LabInvOf, Static, Pages, Place
<1>1. scn.phase = "decide" /\ UNCHANGED Lab /\ UNCHANGED inbox /\ scn.remediated /\ ~scn.closedLoop
  BY <1>0 DEF Decide, Approval, Later, Done
<1>2. CASE Decision(k) # "none" /\ cases[k].state # "AWAITING_APPROVAL"
  <2>1. cases' = cases /\ scn' = Raised
    BY <1>2 DEF Decide
  <2>3. UNCHANGED <<Lab, inbox, cases>>
    BY <1>1, <2>1
  <2>4. Raises
    BY <1>1, <2>1, <2>3, Zenon DEF Raises
  <2> QED BY <2>4, RaisesInv
<1>3. CASE ~(Decision(k) # "none" /\ cases[k].state # "AWAITING_APPROVAL")
  <2>1. /\ scn' = Decided(k, Decision(k))
        /\ cases' = IF Decision(k) = "none" THEN cases
                    ELSE CaseAt(k, IF Decision(k) = "approve" THEN "EXECUTING" ELSE "ESCALATED")
    BY <1>3 DEF Decide
  <2>2. /\ scn'.phase = "decide" /\ DOMAIN scn' = ScnFields
        /\ scn'.approved = IF Decision(k) = "approve" THEN scn.approved \cup {k} ELSE scn.approved
        /\ \A x \in {"cause", "injected", "todo", "closedLoop", "accepted", "seen", "epoch", "error", "remediated",
                     "resolved"} : scn'[x] = scn[x]
    BY <1>0, <1>1, <2>1 DEF Decided, ScnFields
  <2>3. SeenFired' /\ SeenResolved' /\ SeenOnce'
    BY <1>0, <1>1, <2>2, SeenKept DEF SeenResolved, Done
  <2>4. CASE Decision(k) # "approve"
    <3>1. DOMAIN cases' = Services /\ \A j \in Services : cases'[j] = cases[j] \/ cases'[j].state = "ESCALATED"
      BY <1>0, <2>1, <2>4, CaseAtIs
    <3>2. /\ \A j \in Services : Busy(j)' => Busy(j)
          /\ \A j \in Services : cases'[j].state = "EXECUTING" => cases[j].state = "EXECUTING"
      BY <3>1 DEF Busy
    <3>3. scn'.approved = scn.approved
      BY <2>2, <2>4
    <3> QED BY <1>0, <1>1, <2>2, <2>3, <3>1, <3>2, <3>3, CasesStep DEF Before, During, Later, Done, Place, Approval
  <2>5. CASE Decision(k) = "approve"
    <3>1. scn.approved = {} /\ scn.cause.repair # ""
      BY <2>5 DEF Decision
    <3>2. scn'.approved = {k} /\ cases' = CaseAt(k, "EXECUTING")
      BY <2>1, <2>2, <2>5, <3>1
    <3>3. DOMAIN cases' = Services /\ \A j \in Services \ {k} : cases'[j] = cases[j]
      BY <1>0, <3>2, CaseAtIs
    <3>4. \A j \in Services : ~Busy(j)
      BY <1>0, <3>1 DEF Approval
    <3>5. Approval'
      <4>1. \A j \in Services : Busy(j)' => j = k
        BY <3>3, <3>4 DEF Busy
      <4> QED BY <1>0, <1>1, <2>2, <3>1, <3>2, <4>1 DEF Approval
    <3>6. Static(a)' /\ Place(a)' /\ Exit'
      <4>1. Static(a)'
        BY <1>0, <1>1, <2>2, <3>3 DEF Static, Lab
      <4>2. Place(a)'
        BY <1>0, <1>1, <2>2 DEF Place, Before, During, Later, Done
      <4>3. Exit'
        BY <1>0, <1>1, <2>2 DEF Exit
      <4> QED BY <4>1, <4>2, <4>3
    <3>7. LabState(a)'
      <4>1. ~Doomed
        BY <1>0, <1>1 DEF Doomed, Place, Later, Done
      <4> QED BY <1>0, <1>1, <2>2, <3>1, <4>1, LabKept
    <3>8. Repairable(a)'
      <4>1. Broken(a.faults[Len(a.faults)])
        BY <1>1, <3>1 DEF LabInvOf, Repairable, During
      <4> QED BY <1>1, <4>1 DEF Repairable, Broken, Lab
    <3>9. Pages'
      BY <1>0, <1>1, <2>2, <2>3 DEF Pages, Rows
    <3> QED BY <3>5, <3>6, <3>7, <3>8, <3>9 DEF LabInvOf
  <2> QED BY <2>4, <2>5
<1> QED BY <1>2, <1>3

-----------------------------------------------------------------------------
(* Lab: a fault is injected, recovered or repaired                         *)

\* A step that touches the lab at the m-th fault only.
OnlyAt(a, m) ==
    /\ DOMAIN flagd' = DOMAIN flagd /\ DOMAIN rollouts' = DOMAIN rollouts
    /\ \A f \in DOMAIN flagd :
          ~(get(a.faults[m]).kind = "flag" /\ f = get(a.faults[m]).on) => flagd'[f] = flagd[f]
    /\ \A d \in DOMAIN rollouts :
          ~(get(a.faults[m]).kind = "release" /\ d = get(a.faults[m]).on) => rollouts'[d] = rollouts[d]
    /\ \A x : ~(get(a.faults[m]).kind = "chaos" /\ x = a.faults[m]) => (x \in chaos' <=> x \in chaos)

LEMMA FaultStep ==
  ASSUME NEW a \in Acceptance, Static(a), LabState(a), NEW m \in 1..Len(a.faults), OnlyAt(a, m),
         \A i \in 1..Len(a.faults) : Known(a, i)' => Known(a, i), Doomed => Doomed',
         ~Doomed' => unwritten' = {},
         \A i \in 1..Len(a.faults) : i # m /\ i > Len(scn'.injected) => i > Len(scn.injected),
         Known(a, m)' => /\ Clean(a.faults[m])' \/ Broken(a.faults[m])'
                         /\ m > Len(scn'.injected) => Clean(a.faults[m])'
  PROVE  LabState(a)'
<1>0. Faults(a)
  BY FaultsOf
<1>1. ASSUME NEW i \in 1..Len(a.faults), i # m
      PROVE  (Clean(a.faults[i]) => Clean(a.faults[i])') /\ (Broken(a.faults[i]) => Broken(a.faults[i])')
  <2>1. get(a.faults[i]).on # get(a.faults[m]).on /\ a.faults[i] # a.faults[m] /\ get(a.faults[i]) \in FaultsRun
    BY <1>0, <1>1 DEF Faults
  <2>2. get(a.faults[i]).kind = "flag" => get(a.faults[i]).on \in DOMAIN flagd
    BY <2>1 DEF Static
  <2>3. get(a.faults[i]).kind = "release" => get(a.faults[i]).on \in DOMAIN rollouts
    BY <2>1 DEF Static, ReleasesRun
  <2>4. /\ get(a.faults[i]).kind = "flag" => flagd'[get(a.faults[i]).on] = flagd[get(a.faults[i]).on]
        /\ get(a.faults[i]).kind = "release" => rollouts'[get(a.faults[i]).on] = rollouts[get(a.faults[i]).on]
        /\ a.faults[i] \in chaos' <=> a.faults[i] \in chaos
    BY <2>1, <2>2, <2>3 DEF OnlyAt
  <2> QED BY <2>4 DEF Clean, Broken
<1>2. \A i \in 1..Len(a.faults) : Known(a, i)' =>
          /\ Clean(a.faults[i])' \/ Broken(a.faults[i])'
          /\ i > Len(scn'.injected) => Clean(a.faults[i])'
  <2> SUFFICES ASSUME NEW i \in 1..Len(a.faults), Known(a, i)', i # m
               PROVE  /\ Clean(a.faults[i])' \/ Broken(a.faults[i])'
                      /\ i > Len(scn'.injected) => Clean(a.faults[i])'
    OBVIOUS
  <2>1. /\ Clean(a.faults[i]) \/ Broken(a.faults[i])
        /\ i > Len(scn.injected) => Clean(a.faults[i])
    BY DEF LabState
  <2>2. i > Len(scn'.injected) => i > Len(scn.injected)
    OBVIOUS
  <2> QED BY <1>1, <2>1, <2>2
<1>3. ~Doomed' => \A f \in DOMAIN flagd' :
          (\A i \in 1..Len(a.faults) : get(a.faults[i]).kind = "flag" => get(a.faults[i]).on # f) => flagd'[f] = OFF
  BY DEF OnlyAt, LabState
<1>4. \A d \in DOMAIN rollouts' :
          (\A i \in 1..Len(a.faults) : get(a.faults[i]).kind = "release" => get(a.faults[i]).on # d)
             => rollouts'[d].history = <<{}>>
  BY DEF OnlyAt, LabState
<1>5. \A n \in chaos' : \E i \in 1..Len(a.faults) : n = a.faults[i] /\ get(n).kind = "chaos"
  BY DEF OnlyAt, LabState
<1> QED BY <1>2, <1>3, <1>4, <1>5 DEF LabState

LEMMA Pair ==
  ASSUME NEW S, NEW p \in S, NEW q \in S, NEW s \in Seq(S), Len(s) = 2, s[1] = p, s[2] = q
  PROVE  s = <<p, q>>
<1>1. <<p, q>> \in Seq(S) /\ Len(<<p, q>>) = 2
  OBVIOUS
<1>2. \A i \in 1..2 : s[i] = <<p, q>>[i]
  OBVIOUS
<1> QED BY <1>1, <1>2, SeqEqual, Zenon

LEMMA Single ==
  ASSUME NEW S, NEW p \in S, NEW s \in Seq(S), Len(s) = 1, s[1] = p
  PROVE  s = <<p>>
<1>1. <<p>> \in Seq(S) /\ Len(<<p>>) = 1
  OBVIOUS
<1>2. \A i \in 1..1 : s[i] = <<p>>[i]
  OBVIOUS
<1> QED BY <1>1, <1>2, SeqEqual, Zenon

\* What the operations make of a history with the templates e and x.
HistoryOf(e, x) ==
    /\ Last(<<e>>) = e /\ Last(<<x, e>>) = e
    /\ {i \in DOMAIN <<e>> : <<e>>[i] = x} = {}
    /\ {i \in DOMAIN <<x, e>> : <<x, e>>[i] = x} = {1}
    /\ Append(<<e>>, x) = <<e, x>>
    /\ RemoveAt(<<x, e>>, 1) = <<e>>
    /\ SubSeq(<<e, x>>, 1, Len(<<e, x>>) - 2) \o <<x, e>> = <<x, e>>

LEMMA Literals == ASSUME NEW e, NEW x, e # x PROVE HistoryOf(e, x)
<1> DEFINE S == {e, x}
<1>0. S # {} /\ e \in S /\ x \in S
  OBVIOUS
<1>1. Last(<<e>>) = e /\ Last(<<x, e>>) = e
  BY DEF Last
<1>2. {i \in DOMAIN <<e>> : <<e>>[i] = x} = {}
  OBVIOUS
<1>3. {i \in DOMAIN <<x, e>> : <<x, e>>[i] = x} = {1}
  OBVIOUS
<1> HIDE DEF S
<1>4. <<e>> \in Seq(S) /\ <<x, e>> \in Seq(S) /\ <<e, x>> \in Seq(S)
  BY <1>0
<1>5. Append(<<e>>, x) = <<e, x>>
  <2>1. Append(<<e>>, x) \in Seq(S) /\ Len(Append(<<e>>, x)) = 2 /\ Append(<<e>>, x)[1] = e /\ Append(<<e>>, x)[2] = x
    BY <1>0, <1>4
  <2> QED BY <1>0, <2>1, Pair
<1>6. RemoveAt(<<x, e>>, 1) = <<e>>
  <2> DEFINE s == SubSeq(<<x, e>>, 2, 2)
             r == <<>> \o s
  <2>1. SubSeq(<<x, e>>, 1, 0) = <<>> /\ Len(<<x, e>>) = 2
    OBVIOUS
  <2>2. s \in Seq(S) /\ Len(s) = 1 /\ s[1] = e
    BY <1>4
  <2> HIDE DEF s
  <2>3. r \in Seq(S) /\ Len(r) = 1 /\ r[1] = e
    BY <2>2
  <2>4. r = <<e>>
    BY <1>0, <2>3, Single
  <2>5. 1 - 1 = 0 /\ 1 + 1 = 2
    OBVIOUS
  <2>6. RemoveAt(<<x, e>>, 1) = SubSeq(<<x, e>>, 1, 0) \o s
    BY <2>1, <2>5, Zenon DEF RemoveAt, s
  <2> QED BY <2>1, <2>4, <2>6
<1>7. SubSeq(<<e, x>>, 1, Len(<<e, x>>) - 2) \o <<x, e>> = <<x, e>>
  <2>1. Len(<<e, x>>) - 2 = 0 /\ SubSeq(<<e, x>>, 1, 0) = <<>>
    OBVIOUS
  <2>2. <<>> \o <<x, e>> = <<x, e>>
    BY <1>4
  <2> QED BY <2>1, <2>2, Zenon
<1> QED BY <1>1, <1>2, <1>3, <1>5, <1>6, <1>7 DEF HistoryOf

\* The history of a release while the run goes on: the template before, and it.
LEMMA Histories == ASSUME NEW n PROVE HistoryOf({}, {n})
<1>1. {} # {n}
  OBVIOUS
<1> QED BY <1>1, Literals

\* What an injection does to a fault that is not there.
LEMMA InjectIs ==
  ASSUME NEW a \in Acceptance, Static(a), NEW m \in 1..Len(a.faults), Clean(a.faults[m]), unwritten = {},
         NEW outcome \in Outcomes, inject(get(a.faults[m]), outcome)
  PROVE  /\ OnlyAt(a, m)
         /\ outcome = "ok" => Broken(a.faults[m])' /\ unwritten' = {}
         /\ get(a.faults[m]).kind # "flag" => Clean(a.faults[m])' \/ Broken(a.faults[m])'
<1> DEFINE n == a.faults[m]
           g == get(n)
<1>0. /\ g \in FaultsRun /\ g.name = n /\ g.kind \in {"flag", "chaos", "release"}
      /\ g.kind = "release" => g.mark \notin {"", "rollback", "sre-blackboard"}
  BY FaultsOf DEF Faults
<1>1. CASE g.kind = "flag"
  <2>1. chaos' = chaos /\ rollouts' = rollouts /\ g.on \in DOMAIN flagd /\ set_flag(g.on, g.mark, outcome)
    BY <1>0, <1>1 DEF inject, Static
  <2>2. outcome = "ok" => flagd' = [flagd EXCEPT ![g.on] = g.mark] /\ unwritten' = {}
    BY <2>1 DEF set_flag
  <2>3. outcome # "ok" => flagd' = flagd
    BY <2>1 DEF set_flag, Outcomes
  <2> HIDE DEF g
  <2>4. outcome = "ok" => flagd'[g.on] = g.mark
    BY <2>1, <2>2
  <2>5. DOMAIN flagd' = DOMAIN flagd /\ \A f \in DOMAIN flagd : f # g.on => flagd'[f] = flagd[f]
    BY <2>2, <2>3
  <2> QED BY <1>1, <2>1, <2>2, <2>4, <2>5 DEF OnlyAt, Broken, g
<1>2. CASE g.kind = "chaos"
  <2>1. /\ flagd' = flagd /\ unwritten' = {} /\ rollouts' = rollouts
        /\ chaos' = IF outcome # "refused" THEN chaos \cup {n} ELSE chaos
    BY <1>0, <1>2 DEF inject
  <2> QED BY <1>2, <2>1 DEF OnlyAt, Broken, Clean, Outcomes
<1>3. CASE g.kind = "release"
  <2>1. /\ flagd' = flagd /\ unwritten' = {} /\ chaos' = chaos /\ g.on \in DOMAIN rollouts
        /\ rollouts' = IF outcome # "refused" THEN [rollouts EXCEPT ![g.on] = release_patch(g)] ELSE rollouts
    BY <1>0, <1>3 DEF inject, Static, ReleasesRun
  <2>2. rollouts[g.on].history \in {<<{}>>, <<{n}, {}>>}
    BY <1>3 DEF Clean
  <2>3. release_patch(g).history = <<{}, {n}>> /\ release_patch(g).cause = g.mark
    <3> DEFINE old == rollouts[g.on].history
               same == {i \in DOMAIN old : old[i] = {n}}
               kept == IF same = {} THEN old ELSE RemoveAt(old, CHOOSE i \in same : TRUE)
    <3>0. HistoryOf({}, {n})
      BY Histories
    <3>1. Current(g.on) = {}
      BY <2>2, <3>0, Zenon DEF Current, HistoryOf
    <3>2. Current(g.on) \cup {g.name} = {n}
      BY <1>0, <3>1
    <3>3. release_patch(g) = [history |-> Append(kept, {n}), cause |-> g.mark]
      BY <3>2, ZenonT(40) DEF release_patch
    <3>4. kept = <<{}>>
      <4>1. CASE old = <<{}>>
        <5>1. same = {i \in DOMAIN <<{}>> : <<{}>>[i] = {n}}
          BY <4>1
        <5>2. same = {}
          BY <5>1, <3>0, Zenon DEF HistoryOf
        <5> QED BY <4>1, <5>2, Zenon
      <4>2. CASE old = <<{n}, {}>>
        <5>0. same = {i \in DOMAIN <<{n}, {}>> : <<{n}, {}>>[i] = {n}}
          BY <4>2
        <5>1. same = {1}
          BY <5>0, <3>0, Zenon DEF HistoryOf
        <5>2. (CHOOSE i \in same : TRUE) = 1 /\ same # {}
          BY <5>1
        <5>3. RemoveAt(old, 1) = <<{}>>
          BY <4>2, <3>0, Zenon DEF HistoryOf
        <5> QED BY <5>2, <5>3, Zenon
      <4> QED BY <2>2, <4>1, <4>2
    <3> HIDE DEF kept
    <3>5. Append(kept, {n}) = <<{}, {n}>>
      BY <3>4, <3>0, Zenon DEF HistoryOf
    <3>6. PICK h : h = Append(kept, {n})
      OBVIOUS
    <3>7. release_patch(g) = [history |-> h, cause |-> g.mark]
      BY <3>3, <3>6
    <3>8. h = <<{}, {n}>>
      BY <3>5, <3>6
    <3> HIDE DEF g, n
    <3>9. release_patch(g).history = h
      BY <3>7
    <3>10. release_patch(g).cause = g.mark
      BY <3>7
    <3> QED BY <3>8, <3>9, <3>10
  <2> HIDE DEF g, n
  <2>4. outcome # "refused" => /\ rollouts'[g.on].history = <<{}, {n}>> /\ rollouts'[g.on].cause = g.mark
    BY <2>1, <2>3
  <2>5. DOMAIN rollouts' = DOMAIN rollouts /\ \A d \in DOMAIN rollouts : d # g.on => rollouts'[d] = rollouts[d]
    BY <2>1
  <2>6. outcome # "refused" => Broken(n)'
    BY <1>3, <2>4 DEF Broken, g
  <2>7. outcome = "refused" => Clean(n)'
    BY <1>3, <2>1 DEF Clean, g, n
  <2> QED BY <1>3, <2>1, <2>5, <2>6, <2>7 DEF OnlyAt, Outcomes, g, n
<1> QED BY <1>0, <1>1, <1>2, <1>3

\* What a recovery does to a fault, whether it is there or not.
LEMMA UndoneIs ==
  ASSUME NEW d, NEW n, NEW by, rollouts[d].history = <<{}, {n}>>
  PROVE  Undone(d, by).history = <<{n}, {}>> /\ Undone(d, by).cause = by
<1> DEFINE old == rollouts[d].history
           undo == SubSeq(old, 1, Len(old) - 2) \o <<old[Len(old)], old[Len(old) - 1]>>
<1>1. old[Len(old)] = {n} /\ old[Len(old) - 1] = {}
  OBVIOUS
<1>2. undo = SubSeq(old, 1, Len(old) - 2) \o <<{n}, {}>>
  BY <1>1
<1>3. HistoryOf({}, {n})
  BY Histories
<1>4. undo = <<{n}, {}>>
  BY <1>2, <1>3, Zenon DEF HistoryOf
<1>5. PICK h : h = undo
  OBVIOUS
<1>6. Undone(d, by) = [history |-> h, cause |-> by]
  BY <1>5, Zenon DEF Undone
<1> HIDE DEF undo
<1>7. Undone(d, by).history = h /\ Undone(d, by).cause = by
  BY <1>6
<1> QED BY <1>4, <1>5, <1>7, Zenon

LEMMA RecoverIs ==
  ASSUME NEW a \in Acceptance, Static(a), NEW m \in 1..Len(a.faults),
         NEW outcome \in Outcomes, recover(get(a.faults[m]), outcome)
  PROVE  /\ OnlyAt(a, m)
         /\ outcome = "ok" /\ unwritten = {} => unwritten' = {}
         /\ Clean(a.faults[m]) \/ Broken(a.faults[m]) =>
               /\ outcome = "ok" => Clean(a.faults[m])'
               /\ get(a.faults[m]).kind # "flag" => Clean(a.faults[m])' \/ Broken(a.faults[m])'
<1> DEFINE n == a.faults[m]
           g == get(n)
<1>0. /\ g \in FaultsRun /\ g.name = n /\ g.kind \in {"flag", "chaos", "release"}
      /\ g.kind = "release" => g.mark \notin {"", "rollback", "sre-blackboard"}
  BY FaultsOf DEF Faults
<1>1. CASE ~is_active(g)
  <2>1. flagd' = flagd /\ unwritten' = unwritten /\ chaos' = chaos /\ rollouts' = rollouts
    BY <1>1 DEF recover
  <2>2. ~Broken(n)
    BY <1>0, <1>1 DEF is_active, Broken
  <2>3. Clean(n) => Clean(n)'
    BY <2>1 DEF Clean
  <2> QED BY <2>1, <2>2, <2>3 DEF OnlyAt
<1>2. CASE is_active(g) /\ g.kind = "flag"
  <2>1. chaos' = chaos /\ rollouts' = rollouts /\ g.on \in DOMAIN flagd /\ set_flag(g.on, OFF, outcome)
    BY <1>0, <1>2 DEF recover, Static
  <2>2. outcome = "ok" => flagd' = [flagd EXCEPT ![g.on] = OFF] /\ (unwritten = {} => unwritten' = {})
    BY <2>1 DEF set_flag
  <2>3. outcome # "ok" => flagd' = flagd
    BY <2>1 DEF set_flag, Outcomes
  <2> HIDE DEF g
  <2>4. outcome = "ok" => flagd'[g.on] = OFF
    BY <2>1, <2>2
  <2>5. DOMAIN flagd' = DOMAIN flagd /\ \A f \in DOMAIN flagd : f # g.on => flagd'[f] = flagd[f]
    BY <2>2, <2>3
  <2> QED BY <1>2, <2>1, <2>2, <2>4, <2>5 DEF OnlyAt, Clean, g
<1>3. CASE is_active(g) /\ g.kind = "chaos"
  <2>1. /\ flagd' = flagd /\ unwritten' = unwritten /\ rollouts' = rollouts
        /\ chaos' = IF outcome # "refused" THEN chaos \ {n} ELSE chaos
    BY <1>0, <1>3 DEF recover
  <2>2. n \in chaos
    BY <1>0, <1>3 DEF is_active
  <2> QED BY <1>3, <2>1, <2>2 DEF OnlyAt, Broken, Clean, Outcomes
<1>4. CASE is_active(g) /\ g.kind = "release"
  <2>1. /\ flagd' = flagd /\ unwritten' = unwritten /\ chaos' = chaos /\ g.on \in DOMAIN rollouts
        /\ rollouts' = IF outcome # "refused" THEN [rollouts EXCEPT ![g.on] = Undone(g.on, "rollback")] ELSE rollouts
    BY <1>0, <1>4 DEF recover, Static, ReleasesRun
  <2>2. rollouts[g.on].cause = g.mark
    BY <1>4 DEF is_active
  <2>3. ~Clean(n)
    BY <1>4, <2>2 DEF Clean
  <2>4. Broken(n) => rollouts[g.on].history = <<{}, {n}>>
    BY <1>4 DEF Broken
  <2> HIDE DEF g, n
  <2>5. Broken(n) => Undone(g.on, "rollback").history = <<{n}, {}>> /\ Undone(g.on, "rollback").cause = "rollback"
    <3>1. PICK d : d = g.on
      OBVIOUS
    <3>2. Broken(n) => rollouts[d].history = <<{}, {n}>>
      BY <2>4, <3>1
    <3>3. Broken(n) => Undone(d, "rollback").history = <<{n}, {}>> /\ Undone(d, "rollback").cause = "rollback"
      BY <3>2, UndoneIs, ZenonT(40)
    <3> QED BY <3>1, <3>3
  <2>6. outcome # "refused" /\ Broken(n) =>
            rollouts'[g.on].history = <<{n}, {}>> /\ rollouts'[g.on].cause = "rollback"
    BY <2>1, <2>5
  <2>7. DOMAIN rollouts' = DOMAIN rollouts /\ \A d \in DOMAIN rollouts : d # g.on => rollouts'[d] = rollouts[d]
    BY <2>1
  <2>8. outcome # "refused" /\ Broken(n) => Clean(n)'
    BY <1>0, <1>4, <2>6 DEF Clean, g
  <2>9. outcome = "refused" /\ Broken(n) => Broken(n)'
    BY <1>4, <2>1 DEF Broken, g
  <2> QED BY <1>4, <2>1, <2>3, <2>7, <2>8, <2>9 DEF OnlyAt, Outcomes, g, n
<1> QED BY <1>0, <1>1, <1>2, <1>3, <1>4

\* The approved rollback, of the release that the run made last.
LEMMA ExecutedInv ==
  ASSUME NEW a \in Acceptance, LabInvOf(a), NEW k \in Services, Executed(k)
  PROVE  LabInvOf(a)'
<1> DEFINE N == Len(a.faults)
           n == a.faults[N]
           g == get(n)
<1>0. /\ Place(a) /\ Approval /\ Static(a) /\ LabState(a) /\ Pages /\ Exit /\ DOMAIN cases = Services
      /\ Faults(a) /\ N \in 1..N /\ scn.cause = g
  <2>1. Faults(a)
    BY FaultsOf
  <2>2. Static(a) /\ scn.cause = get(Last(a.faults)) /\ DOMAIN cases = Services
    BY DEF LabInvOf, Static
  <2>3. Last(a.faults) = n /\ N \in Nat /\ N > 0
    BY <2>1, Zenon DEF Faults
  <2>4. N \in 1..N
    BY <2>3
  <2> QED BY <2>1, <2>2, <2>3, <2>4, Zenon DEF LabInvOf
<1>1. /\ Busy(k) /\ k \in scn.approved /\ ~scn.closedLoop /\ scn.cause.repair # ""
      /\ scn.phase \in {"decide"} \cup Later
      /\ flagd' = flagd /\ unwritten' = unwritten /\ chaos' = chaos /\ inbox' = inbox /\ scn' = scn
  BY <1>0 DEF Executed, Busy, Approval
<1>2. g.kind = "release" /\ g.repair = g.on /\ g.on \in DOMAIN rollouts
  BY <1>0, <1>1 DEF Faults, Static, ReleasesRun
<1>3. PICK to \in {"VERIFYING", "ESCALATED"} :
          /\ cases' = CaseAt(k, to)
          /\ rollouts' = [rollouts EXCEPT ![g.on] = Undone(g.on, "sre-blackboard")] \/ rollouts' = rollouts
  BY <1>0, <1>2 DEF Executed
<1>4. /\ DOMAIN cases' = Services /\ \A j \in Services \ {k} : cases'[j] = cases[j]
      /\ cases'[k].state # "EXECUTING"
  BY <1>0, <1>3, CaseAtIs
<1>5. \A j \in Services : (Busy(j)' => Busy(j)) /\ cases'[j].state # "EXECUTING"
  BY <1>0, <1>1, <1>4 DEF Busy, Approval
<1>6. CASE rollouts' = rollouts
  <2>1. UNCHANGED Lab /\ UNCHANGED scn /\ DOMAIN inbox' = Services /\ Pages'
    BY <1>0, <1>1, <1>6 DEF Lab, Static, Pages, Rows, SeenFired, SeenResolved, SeenOnce
  <2> QED BY <1>4, <1>5, <2>1, RowsStep
<1>7. CASE rollouts' = [rollouts EXCEPT ![g.on] = Undone(g.on, "sre-blackboard")]
  <2>1. OnlyAt(a, N)
    <3> HIDE DEF g
    <3>1. DOMAIN rollouts' = DOMAIN rollouts /\ \A d \in DOMAIN rollouts : d # g.on => rollouts'[d] = rollouts[d]
      BY <1>7
    <3> QED BY <1>1, <1>2, <3>1 DEF OnlyAt, g
  <2>2. Doomed' <=> Doomed
    BY <1>1 DEF Doomed
  <2>3. Known(a, N)' => Clean(n)'
    <3> SUFFICES ASSUME Known(a, N)' PROVE Clean(n)'
      OBVIOUS
    <3>1. ~Doomed /\ scn.phase \notin Later
      BY <1>1, <2>2 DEF Known, Doomed
    <3>2. Broken(n)
      <4>1. scn.phase \in During /\ cases[k].state = "EXECUTING"
        BY <1>1, <3>1 DEF During, Executed
      <4> QED BY <1>1, <4>1 DEF LabInvOf, Repairable
    <3>3. rollouts[g.on].history = <<{}, {n}>>
      BY <1>2, <3>2 DEF Broken
    <3>4. Undone(g.on, "sre-blackboard").history = <<{n}, {}>> /\ Undone(g.on, "sre-blackboard").cause = "sre-blackboard"
      <4> HIDE DEF g, n
      <4>1. PICK d : d = g.on
        OBVIOUS
      <4>2. rollouts[d].history = <<{}, {n}>>
        BY <3>3, <4>1
      <4>3. Undone(d, "sre-blackboard").history = <<{n}, {}>> /\ Undone(d, "sre-blackboard").cause = "sre-blackboard"
        BY <4>2, UndoneIs
      <4> QED BY <4>1, <4>3
    <3>5. g.mark # "sre-blackboard"
      BY <1>0, <1>2 DEF Faults
    <3> HIDE DEF g, n
    <3>6. rollouts'[g.on].history = <<{n}, {}>> /\ rollouts'[g.on].cause = "sre-blackboard"
      BY <1>2, <1>7, <3>4
    <3> QED BY <1>2, <3>5, <3>6 DEF Clean, g
  <2>4. LabState(a)'
    <3>1. \A i \in 1..N : Known(a, i)' => Known(a, i)
      BY <1>1, <2>2 DEF Known
    <3>2. ~Doomed' => unwritten' = {}
      BY <1>0, <1>1, <2>2 DEF LabState
    <3> QED BY <1>0, <1>1, <2>1, <2>2, <2>3, <3>1, <3>2, FaultStep
  <2>5. Static(a)' /\ Place(a)' /\ Exit'
    BY <1>0, <1>1, <1>4, <2>1 DEF Static, Place, Exit, ok, symptom_matched, OnlyAt
  <2>6. Approval'
    BY <1>0, <1>1, <1>5 DEF Approval
  <2>7. Repairable(a)'
    BY <1>1, <1>5 DEF Repairable
  <2>8. Pages'
    BY <1>0, <1>1 DEF Pages, Rows, SeenFired, SeenResolved, SeenOnce
  <2> QED BY <2>4, <2>5, <2>6, <2>7, <2>8 DEF LabInvOf
<1> QED BY <1>3, <1>6, <1>7

-----------------------------------------------------------------------------
(* Lab: the run changes the lab                                            *)

\* Of a sequence f, q is done and t is to do: so they are when one more is done.
OneMore(S, f, q, t, m) ==
    /\ m \in 1..Len(f) /\ m \in Nat /\ Len(q) \in Nat /\ Len(f) \in Nat
    /\ Len(t) = Len(f) - m + 1 /\ Head(t) = f[m]
    /\ LET p == Append(q, f[m])
       IN p \in Seq(S) /\ Len(p) = m /\ \A i \in 1..m : p[i] = f[i]
    /\ LET r == Tail(t)
       IN r \in Seq(S) /\ Len(r) = Len(f) - m /\ \A i \in 1..Len(r) : r[i] = f[m + i]

LEMMA Onward ==
  ASSUME NEW S, NEW f \in Seq(S), NEW q \in Seq(S), NEW t \in Seq(S),
         Len(t) = Len(f) - Len(q), Len(t) > 0,
         \A i \in 1..Len(q) : q[i] = f[i], \A i \in 1..Len(t) : t[i] = f[Len(q) + i],
         NEW m, m = Len(q) + 1
  PROVE  OneMore(S, f, q, t, m)
<1>1. Len(q) \in Nat /\ Len(t) \in Nat /\ Len(f) \in Nat /\ t # <<>>
  OBVIOUS
<1>2. m \in 1..Len(f) /\ m \in Nat /\ Len(t) = Len(f) - m + 1 /\ Head(t) = f[m] /\ f[m] \in S
  BY <1>1
<1>3. PICK x : x = f[m]
  OBVIOUS
<1> DEFINE p == Append(q, x)
<1>4. p \in Seq(S) /\ Len(p) = m /\ p[m] = x /\ \A i \in 1..Len(q) : p[i] = q[i]
  BY <1>1, <1>2, <1>3
<1>5. \A i \in 1..m : p[i] = f[i]
  <2> HIDE DEF p
  <2> SUFFICES ASSUME NEW i \in 1..m PROVE p[i] = f[i]
    OBVIOUS
  <2>1. CASE i \in 1..Len(q)
    BY <1>4, <2>1
  <2>2. CASE i = m
    BY <1>3, <1>4, <2>2
  <2> QED BY <1>1, <2>1, <2>2
<1> DEFINE r == Tail(t)
<1>6. r \in Seq(S) /\ Len(r) = Len(t) - 1 /\ \A i \in 1..Len(r) : r[i] = t[i + 1]
  BY <1>1
<1> HIDE DEF p, r
<1>7. \A i \in 1..Len(r) : r[i] = f[m + i]
  <2> SUFFICES ASSUME NEW i \in 1..Len(r) PROVE r[i] = f[m + i]
    OBVIOUS
  <2>1. i + 1 \in 1..Len(t) /\ Len(q) + (i + 1) = m + i
    BY <1>1, <1>6
  <2> QED BY <1>6, <2>1
<1>8. Len(r) = Len(f) - m
  BY <1>1, <1>2, <1>6
<1> QED BY <1>1, <1>2, <1>3, <1>4, <1>5, <1>6, <1>7, <1>8 DEF p, r, OneMore

\* What comes next is clean, while the run injects.
LEMMA NextFault ==
  ASSUME NEW a \in Acceptance, LabInvOf(a), scn.phase = "inject", NEW m, m = Len(scn.injected) + 1
  PROVE  /\ OneMore(Names, a.faults, scn.injected, scn.todo, m)
         /\ Clean(a.faults[m]) /\ ~Doomed /\ unwritten = {} /\ scn.approved = {} /\ ~scn.error
<1>1. Place(a) /\ Approval /\ LabState(a)
  BY DEF LabInvOf
<1>2. ~scn.error /\ scn.approved = {}
  BY <1>1 DEF Place, Approval, Later, Done
<1>3. ~Doomed
  BY <1>2 DEF Doomed, Later, Done
<1>4. /\ scn.injected \in Seq(Names) /\ scn.todo \in Seq(Names) /\ Len(scn.todo) > 0
      /\ Len(scn.todo) = Len(a.faults) - Len(scn.injected)
      /\ \A i \in 1..Len(scn.injected) : scn.injected[i] = a.faults[i]
      /\ \A i \in 1..Len(scn.todo) : scn.todo[i] = a.faults[Len(scn.injected) + i]
  BY <1>1 DEF Place, Before
<1>5. a.faults \in Seq(Names)
  BY LabAssumption DEF Names
<1>6. OneMore(Names, a.faults, scn.injected, scn.todo, m)
  <2>1. PICK f, q, t : f = a.faults /\ q = scn.injected /\ t = scn.todo
    OBVIOUS
  <2>2. f \in Seq(Names) /\ q \in Seq(Names) /\ t \in Seq(Names) /\ Len(t) > 0 /\ Len(t) = Len(f) - Len(q)
    BY <1>4, <1>5, <2>1
  <2>3. (\A i \in 1..Len(q) : q[i] = f[i]) /\ (\A i \in 1..Len(t) : t[i] = f[Len(q) + i]) /\ m = Len(q) + 1
    BY <1>4, <2>1
  <2>4. OneMore(Names, f, q, t, m)
    BY <2>2, <2>3, Onward
  <2> QED BY <2>1, <2>4
<1>7. Clean(a.faults[m]) /\ unwritten = {}
  <2>1. m \in 1..Len(a.faults) /\ Len(scn.injected) \in Nat
    BY <1>6 DEF OneMore
  <2>2. m > Len(scn.injected) /\ Known(a, m)
    BY <1>3, <2>1 DEF Known
  <2> QED BY <1>1, <1>3, <2>1, <2>2 DEF LabState
<1> QED BY <1>2, <1>3, <1>6, <1>7

\* What the injections and the recoveries have in common.
LEMMA LabStep ==
  ASSUME NEW a \in Acceptance, LabInvOf(a), NEW m \in 1..Len(a.faults), OnlyAt(a, m), LabState(a)',
         Place(a)', Repairable(a)', UNCHANGED <<inbox, cases>>, DOMAIN scn' = ScnFields,
         \A x \in {"cause", "approved", "closedLoop", "accepted", "seen", "remediated", "resolved"} : scn'[x] = scn[x],
         scn.phase \in {"inject", "recover"}, scn'.phase \in {"inject", "alerts", "recover", "crashed"},
         scn.phase = "recover" => scn'.phase \in {"recover", "crashed"}, scn.phase = "inject" => scn.approved = {},
         scn'.epoch \in Nat
  PROVE  LabInvOf(a)'
<1>1. /\ SeenFired /\ SeenResolved /\ SeenOnce /\ Place(a) /\ Approval /\ DOMAIN cases = Services
      /\ scn'.seen = scn.seen /\ scn'.resolved = scn.resolved /\ scn'.remediated = scn.remediated
  BY DEF LabInvOf, Pages, Static
<1>2. ~scn.resolved
  BY <1>1 DEF SeenResolved, Done
<1>3. SeenFired' /\ SeenResolved' /\ SeenOnce'
  BY <1>1, <1>2, SeenKept
<1>4. /\ DOMAIN flagd' = DOMAIN flagd /\ DOMAIN rollouts' = DOMAIN rollouts
      /\ DOMAIN cases' = Services /\ \A k \in Services : Busy(k)' => Busy(k)
  BY <1>1 DEF OnlyAt, Busy
<1>5. scn.approved # {} => scn'.phase \in {"decide"} \cup Later /\ scn'.remediated
  BY <1>1 DEF Approval, Later
<1>6. scn.phase \in Later => scn'.phase \in Later
  BY DEF Later, Done
<1> QED BY <1>1, <1>3, <1>4, <1>5, <1>6, RunStep

LEMMA Below ==
  ASSUME NEW N \in Nat, NEW m \in Nat, m \in 1..N, N - m + 1 > 1
  PROVE  m # N /\ m <= N /\ N - m > 0
OBVIOUS

LEMMA InjectDistractorInv ==
  ASSUME NEW a \in Acceptance, LabInvOf(a), NEW outcome \in Outcomes, InjectDistractor(outcome)
  PROVE  LabInvOf(a)'
<1> PICK N : N = Len(a.faults)
  OBVIOUS
<1>0. /\ Place(a) /\ Static(a) /\ LabState(a) /\ scn.epoch \in Nat /\ DOMAIN scn = ScnFields /\ N \in Nat
  BY FaultsOf DEF LabInvOf, Static, Faults, Pages
<1>1. /\ scn.phase = "inject" /\ Len(scn.todo) > 1 /\ inject(get(Head(scn.todo)), outcome)
      /\ UNCHANGED <<inbox, cases>>
  BY DEF InjectDistractor
<1> PICK m : m = Len(scn.injected) + 1
  OBVIOUS
<1>2. /\ OneMore(Names, a.faults, scn.injected, scn.todo, m)
      /\ Clean(a.faults[m]) /\ ~Doomed /\ unwritten = {} /\ scn.approved = {} /\ ~scn.error
  BY <1>1, NextFault
<1>3. /\ m \in 1..N /\ m \in Nat /\ N \in Nat /\ Len(scn.injected) \in Nat /\ Head(scn.todo) = a.faults[m]
      /\ Len(scn.todo) = N - m + 1
  BY <1>2 DEF OneMore
<1>9. m # N /\ m <= N /\ N - m > 0
  <2>1. N - m + 1 > 1
    BY <1>1, <1>3, Zenon
  <2>2. m \in 1..N /\ m \in Nat /\ N \in Nat
    BY <1>3
  <2> QED BY <2>1, <2>2, Below
<1>4. inject(get(a.faults[m]), outcome)
  BY <1>1, <1>3
<1>5. OnlyAt(a, m) /\ (outcome = "ok" => Broken(a.faults[m])' /\ unwritten' = {})
  BY <1>0, <1>2, <1>3, <1>4, InjectIs
<1>6. CASE outcome = "ok"
  <2>1. scn' = [scn EXCEPT !.todo = Tail(@), !.injected = Append(@, Head(scn.todo))]
    BY <1>6 DEF InjectDistractor
  <2>2. /\ DOMAIN scn' = ScnFields /\ scn'.todo = Tail(scn.todo) /\ scn'.injected = Append(scn.injected, a.faults[m])
        /\ \A x \in ScnFields \ {"todo", "injected"} : scn'[x] = scn[x]
    BY <1>0, <1>3, <2>1 DEF ScnFields
  <2>3. /\ \A x \in {"cause", "approved", "closedLoop", "accepted", "seen", "remediated", "resolved"} : scn'[x] = scn[x]
        /\ scn'.phase = "inject" /\ scn'.epoch = scn.epoch /\ scn'.error = scn.error
    BY <1>1, <2>2 DEF ScnFields
  <2>4. /\ scn'.injected \in Seq(Names) /\ Len(scn'.injected) = m
        /\ \A i \in 1..m : scn'.injected[i] = a.faults[i]
    BY <1>2, <2>2 DEF OneMore
  <2>5. /\ scn'.todo \in Seq(Names) /\ Len(scn'.todo) = N - m
        /\ \A i \in 1..Len(scn'.todo) : scn'.todo[i] = a.faults[m + i]
    BY <1>2, <2>2 DEF OneMore
  <2>6. N - m > 0 /\ m <= N
    BY <1>9
  <2>7. Place(a)'
    <3>1. scn'.error \in BOOLEAN /\ ~scn'.error
      BY <1>0, <1>2, <2>3 DEF Place
    <3>2. scn'.phase \in Before /\ scn'.phase \notin {"baseline", "quiet"} \cup Done
      BY <2>3 DEF Before, Done
    <3> QED BY <2>4, <2>5, <2>6, <3>1, <3>2 DEF Place
  <2>8. ~Doomed'
    BY <1>2, <2>3 DEF Doomed
  <2>9. LabState(a)'
    <3>1. \A i \in 1..N : Known(a, i)
      BY <1>2 DEF Known
    <3>2. \A i \in 1..N : i # m /\ i > Len(scn'.injected) => i > Len(scn.injected)
      BY <1>3, <2>4
    <3>3. ~(m > Len(scn'.injected))
      BY <1>3, <2>4
    <3> QED BY <1>0, <1>2, <1>3, <1>5, <1>6, <2>8, <3>1, <3>2, <3>3, FaultStep
  <2>10. Repairable(a)'
    BY <2>3 DEF Repairable, During
  <2> QED BY <1>0, <1>1, <1>2, <1>3, <1>5, <2>2, <2>3, <2>7, <2>9, <2>10, LabStep
<1>7. CASE outcome # "ok"
  <2>1. scn' = Raised
    BY <1>7 DEF InjectDistractor
  <2>2. /\ DOMAIN scn' = ScnFields /\ scn'.phase = "recover" /\ scn'.error = TRUE /\ scn'.epoch = 2
        /\ \A x \in {"injected", "cause", "approved", "closedLoop", "accepted", "seen", "remediated", "resolved"} : scn'[x] = scn[x]
    BY <1>0, <2>1 DEF Raised, ScnFields
  <2>3. Place(a)'
    BY <1>0, <2>2 DEF Place, Before, During, Later, Done
  <2>4. Doomed'
    BY <2>2 DEF Doomed
  <2>5. LabState(a)'
    <3>1. \A i \in 1..N : Known(a, i)
      BY <1>2 DEF Known
    <3>2. ~Known(a, m)'
      BY <1>9, <2>4 DEF Known
    <3>3. scn'.injected = scn.injected
      BY <2>2
    <3> QED BY <1>0, <1>3, <1>5, <2>4, <3>1, <3>2, <3>3, FaultStep
  <2>6. Repairable(a)'
    BY <2>2 DEF Repairable, During
  <2>7. scn'.epoch \in Nat
    BY <2>2, SMT
  <2> QED BY <1>1, <1>2, <1>3, <1>5, <2>2, <2>3, <2>5, <2>6, <2>7, LabStep
<1> QED BY <1>6, <1>7

\* The cause is on the list of what to recover, whatever came of its injection.
LEMMA InjectCauseInv ==
  ASSUME NEW a \in Acceptance, LabInvOf(a), NEW outcome \in Outcomes, InjectCause(outcome)
  PROVE  LabInvOf(a)'
<1> PICK N : N = Len(a.faults)
  OBVIOUS
<1> PICK m : m = Len(scn.injected) + 1
  OBVIOUS
<1>0. /\ Place(a) /\ Static(a) /\ LabState(a) /\ scn.epoch \in Nat /\ DOMAIN scn = ScnFields
      /\ scn.cause = get(a.faults[N]) /\ scn.cause.name = a.faults[N]
  <2>1. Faults(a)
    BY FaultsOf
  <2>2. N \in 1..N
    <3>1. N \in Nat /\ N > 0
      BY <2>1, Zenon DEF Faults
    <3> QED BY <3>1
  <2>3. Last(a.faults) = a.faults[N] /\ get(a.faults[N]).name = a.faults[N]
    BY <2>1, <2>2, Zenon DEF Faults
  <2> QED BY <2>3 DEF LabInvOf, Static, Pages
<1>1. /\ scn.phase = "inject" /\ Len(scn.todo) = 1 /\ inject(scn.cause, outcome)
      /\ UNCHANGED <<inbox, cases>>
  BY DEF InjectCause
<1>2. /\ OneMore(Names, a.faults, scn.injected, scn.todo, m)
      /\ Clean(a.faults[m]) /\ ~Doomed /\ unwritten = {} /\ scn.approved = {} /\ ~scn.error
  BY <1>1, NextFault
<1>3. m \in 1..N /\ m \in Nat /\ N \in Nat /\ Len(scn.injected) \in Nat
  BY <1>2 DEF OneMore
<1>4. m = N
  <2>1. N - m + 1 = 1
    BY <1>1, <1>2, Zenon DEF OneMore
  <2> QED BY <1>3, <2>1
<1>5. /\ OnlyAt(a, m) /\ (outcome = "ok" => Broken(a.faults[m])' /\ unwritten' = {})
      /\ get(a.faults[m]).kind # "flag" => Clean(a.faults[m])' \/ Broken(a.faults[m])'
  BY <1>0, <1>1, <1>2, <1>3, <1>4, InjectIs
<1>6. /\ DOMAIN scn' = ScnFields /\ scn'.injected = Append(scn.injected, scn.cause.name)
      /\ \A x \in {"cause", "approved", "closedLoop", "accepted", "seen", "remediated", "resolved"} : scn'[x] = scn[x]
      /\ scn'.phase = IF outcome = "ok" THEN "alerts" ELSE "recover"
      /\ scn'.epoch = IF outcome = "ok" THEN scn.epoch ELSE 2
  <2>1. CASE outcome = "ok"
    <3>1. scn' = [[scn EXCEPT !.phase = "alerts"] EXCEPT !.injected = Append(@, scn.cause.name)]
      BY <2>1 DEF InjectCause
    <3> QED BY <1>0, <2>1, <3>1 DEF ScnFields
  <2>2. CASE outcome # "ok"
    <3>1. scn' = [Raised EXCEPT !.injected = Append(@, scn.cause.name)]
      BY <2>2 DEF InjectCause
    <3> QED BY <1>0, <2>2, <3>1 DEF ScnFields, Raised
  <2> QED BY <2>1, <2>2
<1>7. scn'.error = IF outcome = "ok" THEN scn.error ELSE TRUE
  <2>1. CASE outcome = "ok"
    <3>1. scn' = [[scn EXCEPT !.phase = "alerts"] EXCEPT !.injected = Append(@, scn.cause.name)]
      BY <2>1 DEF InjectCause
    <3> QED BY <1>0, <2>1, <3>1 DEF ScnFields
  <2>2. CASE outcome # "ok"
    <3>1. scn' = [Raised EXCEPT !.injected = Append(@, scn.cause.name)]
      BY <2>2 DEF InjectCause
    <3> QED BY <1>0, <2>2, <3>1 DEF ScnFields, Raised
  <2> QED BY <2>1, <2>2
<1>8. /\ scn'.injected \in Seq(Names) /\ Len(scn'.injected) = m
      /\ \A i \in 1..m : scn'.injected[i] = a.faults[i]
  <2>1. scn'.injected = Append(scn.injected, a.faults[m])
    BY <1>0, <1>4, <1>6
  <2> QED BY <1>2, <2>1 DEF OneMore
<1>9. Place(a)'
  <2>1. scn'.error \in BOOLEAN /\ (scn'.error => scn'.phase \in Later)
    BY <1>0, <1>2, <1>6, <1>7, Zenon DEF Place, Later
  <2>2. scn'.phase \in During \cup Later /\ scn'.phase \notin Before \cup {"baseline", "quiet"} \cup Done
    BY <1>6 DEF During, Later, Before, Done
  <2>3. m <= Len(a.faults)
    BY <1>3, <1>4
  <2> QED BY <1>8, <2>1, <2>2, <2>3 DEF Place
<1>10. /\ outcome # "ok" => Doomed'
       /\ Known(a, m)' => outcome = "ok" \/ get(a.faults[m]).kind # "flag"
  BY <1>7 DEF Doomed, Known
<1>11. LabState(a)'
  <2>1. \A i \in 1..N : Known(a, i)
    BY <1>2 DEF Known
  <2>2. \A i \in 1..N : ~(i > Len(scn'.injected))
    BY <1>3, <1>4, <1>8
  <2>3. Known(a, m)' => Clean(a.faults[m])' \/ Broken(a.faults[m])'
    BY <1>5, <1>10
  <2>4. ~Doomed' => unwritten' = {}
    BY <1>5, <1>10
  <2> QED BY <1>0, <1>2, <1>3, <1>5, <2>1, <2>2, <2>3, <2>4, FaultStep
<1>12. Repairable(a)'
  <2>1. scn'.phase \in During => outcome = "ok"
    BY <1>6 DEF During
  <2>2. outcome = "ok" => Broken(a.faults[Len(a.faults)])'
    BY <1>4, <1>5
  <2> QED BY <2>1, <2>2 DEF Repairable
<1>13. scn'.epoch \in Nat
  BY <1>0, <1>6
<1>14. scn'.phase \in {"inject", "alerts", "recover", "crashed"}
  BY <1>6
<1> QED BY <1>1, <1>2, <1>3, <1>5, <1>6, <1>9, <1>11, <1>12, <1>13, <1>14, LabStep

LEMMA RecoverNextInv ==
  ASSUME NEW a \in Acceptance, LabInvOf(a), NEW outcome \in Outcomes, RecoverNext(outcome)
  PROVE  LabInvOf(a)'
<1> PICK N : N = Len(a.faults)
  OBVIOUS
<1> PICK q : q = scn.injected
  OBVIOUS
<1> PICK m : m = Len(q)
  OBVIOUS
<1>0. /\ Place(a) /\ Static(a) /\ LabState(a) /\ scn.epoch \in Nat /\ DOMAIN scn = ScnFields /\ N \in Nat
      /\ scn.phase = "recover" /\ q # <<>> /\ recover(get(Last(q)), outcome) /\ UNCHANGED <<inbox, cases>>
  BY FaultsOf DEF LabInvOf, Static, Faults, Pages, RecoverNext
<1>1. q \in Seq(Names) /\ m <= N /\ \A i \in 1..m : q[i] = a.faults[i]
  BY <1>0 DEF Place
<1>2. m \in Nat /\ m > 0 /\ m \in 1..N /\ Last(q) = a.faults[m]
  <2>1. m \in Nat /\ m > 0
    BY <1>0, <1>1
  <2>2. m \in 1..N /\ q[m] = a.faults[m]
    BY <1>0, <1>1, <2>1
  <2> QED BY <2>1, <2>2, Zenon DEF Last
<1>3. recover(get(a.faults[m]), outcome)
  BY <1>0, <1>2
<1>4. /\ OnlyAt(a, m)
      /\ outcome = "ok" /\ unwritten = {} => unwritten' = {}
      /\ Clean(a.faults[m]) \/ Broken(a.faults[m]) =>
            /\ outcome = "ok" => Clean(a.faults[m])'
            /\ get(a.faults[m]).kind # "flag" => Clean(a.faults[m])' \/ Broken(a.faults[m])'
  BY <1>0, <1>2, <1>3, RecoverIs
<1>5. /\ DOMAIN scn' = ScnFields /\ scn'.injected = IF outcome = "ok" THEN Front(q) ELSE q
      /\ \A x \in {"cause", "approved", "closedLoop", "accepted", "seen", "remediated", "resolved", "epoch", "error"} :
            scn'[x] = scn[x]
      /\ scn'.phase = IF outcome = "ok" THEN "recover" ELSE "crashed"
  BY <1>0 DEF RecoverNext, ScnFields
<1>6. /\ scn'.injected \in Seq(Names) /\ Len(scn'.injected) = (IF outcome = "ok" THEN m - 1 ELSE m)
      /\ \A i \in 1..Len(scn'.injected) : scn'.injected[i] = a.faults[i]
  <2>1. Front(q) \in Seq(Names) /\ Len(Front(q)) = m - 1 /\ \A i \in 1..(m - 1) : Front(q)[i] = q[i]
    BY <1>0, <1>1, <1>2 DEF Front
  <2> QED BY <1>1, <1>2, <1>5, <2>1
<1>7. Place(a)'
  <2>1. scn'.error \in BOOLEAN /\ scn'.phase \in Later
    BY <1>0, <1>5 DEF Place, Later
  <2>2. scn'.phase \notin Before \cup {"baseline", "quiet"} \cup Done
    BY <1>5 DEF Before, Done
  <2>3. Len(scn'.injected) <= Len(a.faults)
    BY <1>0, <1>1, <1>2, <1>6
  <2> QED BY <1>6, <2>1, <2>2, <2>3 DEF Place
<1>8. (Doomed => Doomed') /\ (~Doomed' => outcome = "ok")
  <2>1. scn'.error = scn.error /\ scn'.approved = scn.approved /\ scn'.closedLoop = scn.closedLoop
    BY <1>5
  <2>2. scn.phase = "recover" /\ scn'.phase \in Later /\ (outcome # "ok" => scn'.phase = "crashed")
    BY <1>0, <1>5 DEF Later
  <2>3. outcome # "ok" => Doomed'
    BY <2>2 DEF Doomed
  <2>4. Doomed => Doomed'
    BY <2>1, <2>2, Zenon DEF Doomed
  <2> QED BY <2>3, <2>4
<1>9. \A i \in 1..N : Known(a, i)' => Known(a, i)
  BY <1>5, <1>8 DEF Known
<1>10. LabState(a)'
  <2>1. ~Doomed' => unwritten' = {}
    BY <1>0, <1>4, <1>8 DEF LabState
  <2>2. ASSUME NEW i \in 1..N, i # m, i > Len(scn'.injected) PROVE i > Len(scn.injected)
    BY <1>2, <1>6, <2>2
  <2>3. ASSUME Known(a, m)'
        PROVE  /\ Clean(a.faults[m])' \/ Broken(a.faults[m])'
               /\ m > Len(scn'.injected) => Clean(a.faults[m])'
    <3>1. Clean(a.faults[m]) \/ Broken(a.faults[m])
      BY <1>0, <1>2, <1>9, <2>3 DEF LabState
    <3>2. outcome = "ok" \/ get(a.faults[m]).kind # "flag"
      BY <1>8, <2>3 DEF Known
    <3>3. m > Len(scn'.injected) => outcome = "ok"
      BY <1>2, <1>6
    <3> QED BY <1>4, <3>1, <3>2, <3>3
  <2> QED BY <1>0, <1>2, <1>4, <1>8, <1>9, <2>1, <2>2, <2>3, FaultStep
<1>11. Repairable(a)'
  BY <1>5 DEF Repairable, During
<1>12. scn'.epoch \in Nat /\ scn'.phase \in {"recover", "crashed"}
  BY <1>0, <1>5
<1> QED BY <1>0, <1>2, <1>4, <1>5, <1>7, <1>10, <1>11, <1>12, LabStep

-----------------------------------------------------------------------------
(* Lab: the theorem                                                        *)

\* A fault that some scenario names is the one of that name.
LEMMA RunFaults == ASSUME NEW f \in FaultsRun PROVE f.name \in Names /\ f = get(f.name)
<1>1. PICK b \in Acceptance : \E n \in Range(b.faults) : f = get(n)
  BY Zenon DEF FaultsRun
<1>2. PICK n \in Range(b.faults) : f = get(n)
  BY <1>1
<1>3. b.faults \in Seq(Names)
  BY LabAssumption DEF Names
<1>4. n \in Names
  BY <1>2, <1>3 DEF Range
<1>5. get(n).name = n
  BY <1>4, Got
<1> QED BY <1>2, <1>4, <1>5

LEMMA LabStarts == ASSUME LabInit PROVE LabInv
<1>1. PICK a \in Acceptance, used \in BOOLEAN :
          /\ scn = [phase |-> "baseline", todo |-> a.faults, cause |-> get(Last(a.faults)),
                    notices |-> a.notices,
                    quietBefore |-> FALSE, quiet |-> FALSE, epoch |-> 0, injected |-> <<>>,
                    seen |-> {}, passed |-> TRUE, correct |-> FALSE,
                    read |-> <<>>, approved |-> {}, remediated |-> FALSE,
                    repaired |-> FALSE, closedLoop |-> FALSE, error |-> FALSE,
                    resolved |-> FALSE, closing |-> {}, flapping |-> FALSE, accepted |-> FALSE]
          /\ rollouts = [d \in {f.on : f \in ReleasesRun} |->
                LET before == {f \in ReleasesRun : f.on = d /\ f.name \in Range(a.faults)}
                IN IF used /\ before # {}
                   THEN [history |-> <<{f.name : f \in before}, {}>>, cause |-> "rollback"]
                   ELSE [history |-> <<{}>>, cause |-> ""]]
  BY Zenon DEF LabInit
<1>2. /\ flagd = [f \in {g.on : g \in {h \in FaultsRun : h.kind = "flag"}} |-> OFF]
      /\ unwritten = {} /\ chaos = {}
      /\ inbox = [k \in Services |-> <<>>] /\ cases = [k \in Services |-> NoCase]
  BY DEF LabInit
<1>3. /\ DOMAIN scn = ScnFields /\ scn.phase = "baseline" /\ scn.todo = a.faults /\ scn.cause = get(Last(a.faults))
      /\ scn.epoch = 0 /\ scn.injected = <<>> /\ scn.seen = {} /\ scn.approved = {} /\ scn.remediated = FALSE
      /\ scn.closedLoop = FALSE /\ scn.error = FALSE /\ scn.resolved = FALSE /\ scn.accepted = FALSE
  BY <1>1 DEF ScnFields
<1>4. Static(a)
  <2>1. DOMAIN rollouts = {f.on : f \in ReleasesRun}
    BY <1>1
  <2>2. DOMAIN flagd = {f.on : f \in {g \in FaultsRun : g.kind = "flag"}}
    BY <1>2
  <2>3. DOMAIN cases = Services /\ DOMAIN inbox = Services
    BY <1>2
  <2> QED BY <1>3, <2>1, <2>2, <2>3 DEF Static
<1>5. Place(a)
  <2>1. a.faults \in Seq(Names) /\ a.faults # <<>>
    BY LabAssumption DEF Names
  <2>2. Len(a.faults) \in Nat /\ Len(a.faults) > 0
    BY <2>1
  <2>3. scn.injected \in Seq(Names) /\ Len(scn.injected) = 0
    BY <1>3
  <2>4. /\ scn.todo \in Seq(Names) /\ Len(scn.todo) = Len(a.faults) - Len(scn.injected) /\ Len(scn.todo) > 0
        /\ \A i \in 1..Len(scn.todo) : scn.todo[i] = a.faults[Len(scn.injected) + i]
    BY <1>3, <2>1, <2>2, <2>3
  <2>5. /\ Len(scn.injected) <= Len(a.faults)
        /\ \A i \in 1..Len(scn.injected) : scn.injected[i] = a.faults[i]
    BY <2>2, <2>3
  <2>6. scn.phase \in Before /\ scn.error \in BOOLEAN /\ ~scn.error
    BY <1>3 DEF Before
  <2> QED BY <2>3, <2>4, <2>5, <2>6 DEF Place
<1>6. Approval
  BY <1>2, <1>3 DEF Approval, Busy, NoCase, Later
<1>7. LabState(a)
  <2>1. ASSUME NEW i \in 1..Len(a.faults) PROVE Clean(a.faults[i])
    <3>1. PICK n : n = a.faults[i]
      OBVIOUS
    <3>2. /\ get(n) \in FaultsRun /\ get(n).name = n
          /\ get(n).kind = "release" => get(n).mark \notin {"", "rollback", "sre-blackboard"}
      BY <3>1, FaultsOf DEF Faults
    <3>3. get(n).kind = "flag" => flagd[get(n).on] = OFF
      BY <1>2, <3>2
    <3>4. ASSUME get(n).kind = "release"
          PROVE  /\ rollouts[get(n).on].history \in {<<{}>>, <<{n}, {}>>}
                 /\ rollouts[get(n).on].cause # get(n).mark
      <4>1. PICK d : d = get(n).on
        OBVIOUS
      <4>2. get(n) \in ReleasesRun /\ d \in {f.on : f \in ReleasesRun}
        BY <3>2, <3>4, <4>1 DEF ReleasesRun
      <4> DEFINE before == {f \in ReleasesRun : f.on = d /\ f.name \in Range(a.faults)}
      <4>3. \A f \in before : f.name = n
        <5> SUFFICES ASSUME NEW f \in before PROVE f.name = n
          OBVIOUS
        <5>1. f \in FaultsRun /\ f.on = d /\ f.name \in Range(a.faults)
          BY DEF ReleasesRun
        <5>3. f = get(f.name)
          BY <5>1, RunFaults
        <5>4. PICK l \in DOMAIN a.faults : f.name = a.faults[l]
          BY <5>1 DEF Range
        <5>5. l \in 1..Len(a.faults) /\ get(a.faults[l]).on = get(a.faults[i]).on
          BY <3>1, <4>1, <5>1, <5>3, <5>4, FaultsOf DEF Faults
        <5>6. l = i
          BY <5>5, FaultsOf DEF Faults
        <5> QED BY <3>1, <5>4, <5>6
      <4>4. rollouts[d] = IF used /\ before # {} THEN [history |-> <<{f.name : f \in before}, {}>>, cause |-> "rollback"]
                          ELSE [history |-> <<{}>>, cause |-> ""]
        BY <1>1, <4>2
      <4>5. before # {} => {f.name : f \in before} = {n}
        BY <4>3
      <4> HIDE DEF before
      <4>6. \/ rollouts[d] = [history |-> <<{n}, {}>>, cause |-> "rollback"]
            \/ rollouts[d] = [history |-> <<{}>>, cause |-> ""]
        BY <4>4, <4>5
      <4>7. rollouts[d].history \in {<<{}>>, <<{n}, {}>>} /\ rollouts[d].cause \in {"rollback", ""}
        <5>1. PICK h, g : h = <<{n}, {}>> /\ g = <<{}>>
          OBVIOUS
        <5>2. \/ rollouts[d] = [history |-> h, cause |-> "rollback"]
              \/ rollouts[d] = [history |-> g, cause |-> ""]
          BY <4>6, <5>1
        <5>3. PICK r : r = rollouts[d]
          OBVIOUS
        <5>4. r = [history |-> h, cause |-> "rollback"] \/ r = [history |-> g, cause |-> ""]
          BY <5>2, <5>3
        <5>5. r.history \in {g, h} /\ r.cause \in {"rollback", ""}
          <6>1. CASE r = [history |-> h, cause |-> "rollback"]
            <7>1. r.history = h
              BY <6>1
            <7>2. r.cause = "rollback"
              BY <6>1
            <7> QED BY <7>1, <7>2
          <6>2. CASE r = [history |-> g, cause |-> ""]
            <7>1. r.history = g
              BY <6>2
            <7>2. r.cause = ""
              BY <6>2
            <7> QED BY <7>1, <7>2
          <6> QED BY <5>4, <6>1, <6>2
        <5> QED BY <5>1, <5>3, <5>5
      <4> QED BY <3>2, <3>4, <4>1, <4>7
    <3> QED BY <1>2, <3>1, <3>3, <3>4 DEF Clean
  <2>2. \A d \in DOMAIN rollouts :
          (\A i \in 1..Len(a.faults) : get(a.faults[i]).kind = "release" => get(a.faults[i]).on # d)
             => rollouts[d].history = <<{}>>
    <3> SUFFICES ASSUME NEW d \in {f.on : f \in ReleasesRun},
                        \A i \in 1..Len(a.faults) : get(a.faults[i]).kind = "release" => get(a.faults[i]).on # d
                 PROVE  rollouts[d].history = <<{}>>
      BY <1>4 DEF Static
    <3> DEFINE before == {f \in ReleasesRun : f.on = d /\ f.name \in Range(a.faults)}
    <3>1. before = {}
      <4> SUFFICES ASSUME NEW f \in before PROVE FALSE
        OBVIOUS
      <4>1. f \in FaultsRun /\ f.kind = "release" /\ f.on = d /\ f.name \in Range(a.faults)
        BY DEF ReleasesRun
      <4>3. f = get(f.name)
        BY <4>1, RunFaults
      <4>4. PICK l \in DOMAIN a.faults : f.name = a.faults[l]
        BY <4>1 DEF Range
      <4>5. l \in 1..Len(a.faults)
        BY FaultsOf DEF Faults
      <4> QED BY <4>1, <4>3, <4>4, <4>5
    <3>2. rollouts[d] = IF used /\ before # {} THEN [history |-> <<{f.name : f \in before}, {}>>, cause |-> "rollback"]
                        ELSE [history |-> <<{}>>, cause |-> ""]
      BY <1>1
    <3>3. rollouts[d] = [history |-> <<{}>>, cause |-> ""]
      BY <3>1, <3>2
    <3>4. PICK g : g = <<{}>>
      OBVIOUS
    <3>5. PICK r : r = rollouts[d]
      OBVIOUS
    <3>6. r = [history |-> g, cause |-> ""]
      BY <3>3, <3>4, <3>5
    <3>7. r.history = g
      BY <3>6
    <3> QED BY <3>4, <3>5, <3>7
  <2>3. \A f \in DOMAIN flagd : flagd[f] = OFF
    BY <1>2
  <2> QED BY <1>2, <2>1, <2>2, <2>3 DEF LabState
<1>8. Repairable(a)
  BY <1>3 DEF Repairable, During
<1>9. Pages /\ Exit
  BY <1>2, <1>3 DEF Pages, Rows, SeenFired, SeenResolved, SeenOnce, Exit
<1> QED BY <1>4, <1>5, <1>6, <1>7, <1>8, <1>9 DEF LabInvOf, LabInv

LEMMA LabKeepsInv == ASSUME LabInv, [LabNext]_labVars PROVE LabInv'
<1>1. PICK a \in Acceptance : LabInvOf(a)
  BY DEF LabInv
<1> SUFFICES LabInvOf(a)'
  BY DEF LabInv
<1>2. ASSUME NEW k \in Services, NEW notice \in {"firing", "resolved"}, Notified(k, notice) PROVE LabInvOf(a)'
  BY <1>1, <1>2, NotifiedInv
<1>3. ASSUME NEW k \in Services, Worked(k) \/ VerifiedCase(k) PROVE LabInvOf(a)'
  BY <1>1, <1>3, WorkedInv
<1>4. ASSUME NEW k \in Services, Executed(k) PROVE LabInvOf(a)'
  BY <1>1, <1>4, ExecutedInv
<1>5. ASSUME NEW k \in Services, Decide(k) PROVE LabInvOf(a)'
  BY <1>1, <1>5, DecideInv
<1>6. CASE WriteLands
  BY <1>1, <1>6, WriteLandsInv
<1>7. ASSUME NEW outcome \in Outcomes, InjectDistractor(outcome) PROVE LabInvOf(a)'
  BY <1>1, <1>7, InjectDistractorInv
<1>8. ASSUME NEW outcome \in Outcomes, InjectCause(outcome) PROVE LabInvOf(a)'
  BY <1>1, <1>8, InjectCauseInv
<1>9. ASSUME NEW outcome \in Outcomes, RecoverNext(outcome) PROVE LabInvOf(a)'
  BY <1>1, <1>9, RecoverNextInv
<1>10. ASSUME NEW active \in {{}, Services}, NEW held \in BOOLEAN, NEW expired \in BOOLEAN,
              wait_quiet(active, held, expired)
       PROVE  LabInvOf(a)'
  BY <1>1, <1>10, WaitQuietInv
<1>11. ASSUME NEW active \in {{}, Services}, NEW held \in BOOLEAN, NEW expired \in BOOLEAN,
              WaitResolved(active, held, expired)
       PROVE  LabInvOf(a)'
  BY <1>1, <1>11, WaitResolvedInv
<1>12. ASSUME NEW active \in {{}, Services}, check_baseline(active) PROVE LabInvOf(a)'
  BY <1>1, <1>12, BaselineInv
<1>13. ASSUME NEW timely \in BOOLEAN, NEW over \in BOOLEAN, PollAlerts(timely, over) PROVE LabInvOf(a)'
  BY <1>1, <1>13, PollAlertsInv
<1>14. ASSUME NEW good \in BOOLEAN, Probe(good) PROVE LabInvOf(a)'
  BY <1>1, <1>14, ProbeInv
<1>15. ASSUME NEW expired \in BOOLEAN, NEW top \in {"right", "wrong", "none"}, WaitDiagnoses(expired, top)
       PROVE  LabInvOf(a)'
  BY <1>1, <1>15, WaitDiagnosesInv
<1>16. ASSUME NEW expired \in BOOLEAN, WaitFinal(expired) PROVE LabInvOf(a)'
  BY <1>1, <1>16, WaitFinalInv
<1>17. CASE Raises
  BY <1>1, <1>17, RaisesInv
<1>18. CASE CloseReads
  BY <1>1, <1>18, CloseReadsInv
<1>19. CASE CloseWrites
  BY <1>1, <1>19, CloseWritesInv
<1>20. CASE Report
  BY <1>1, <1>20, ReportInv
<1>21. CASE UNCHANGED labVars
  <2>1. UNCHANGED Lab /\ UNCHANGED scn /\ UNCHANGED <<inbox, cases>>
    BY <1>21 DEF labVars, Lab
  <2>2. /\ DOMAIN cases' = Services /\ DOMAIN inbox' = Services /\ Pages'
        /\ \A k \in Services : Busy(k)' => Busy(k)
        /\ \A k \in Services : cases'[k].state = "EXECUTING" => cases[k].state = "EXECUTING"
    BY <1>1, <2>1 DEF LabInvOf, Static, Pages, Rows, SeenFired, SeenResolved, SeenOnce, Busy
  <2> QED BY <1>1, <2>1, <2>2, RowsStep
<1> QED BY <1>2, <1>3, <1>4, <1>5, <1>6, <1>7, <1>8, <1>9, <1>10, <1>11, <1>12, <1>13, <1>14, <1>15, <1>16, <1>17,
          <1>18, <1>19, <1>20, <1>21, Zenon DEF LabNext

\* A set of natural numbers has a least one.
LEMMA SmallestOf ==
  ASSUME NEW X, X \subseteq Nat, X # {}
  PROVE  \E n \in X : \A m \in X : n <= m
<1> DEFINE T == {0 .. n : n \in X}
<1>1. IsWellFoundedOn(StrictSubsetOrdering(Nat), FiniteSubsetsOf(Nat))
  BY FS_StrictSubsetOrderingWellFounded
<1>2. \A n \in X : 0 .. n \in SUBSET Nat /\ IsFiniteSet(0 .. n)
  BY FS_Interval
<1>3. T \subseteq FiniteSubsetsOf(Nat) /\ T # {}
  BY <1>2 DEF FiniteSubsetsOf
<1>4. PICK t \in T : \A u \in T : <<u, t>> \notin StrictSubsetOrdering(Nat)
  <2> HIDE DEF T
  <2> QED BY <1>1, <1>3, WFMin
<1>5. PICK n \in X : t = 0 .. n
  BY <1>4
<1>6. \A m \in X : n <= m
  <2> SUFFICES ASSUME NEW m \in X, m < n PROVE FALSE
    BY <1>5
  <2>1. 0 .. m \in T /\ 0 .. m \subseteq 0 .. n /\ n \in 0 .. n /\ n \notin 0 .. m
    BY <1>5
  <2>2. <<0 .. m, t>> \in StrictSubsetOrdering(Nat)
    BY <2>1, <1>2, <1>5 DEF StrictSubsetOrdering
  <2> QED BY <2>1, <2>2, <1>4
<1> QED BY <1>6

\* Rows that fire first, resolve, and do not fire again, are one page.
LEMMA OnePage ==
  ASSUME NEW h \in Seq([status: {"firing", "resolved"}, epoch: Nat]), h[1].status = "firing", ~Refired(h),
         \E i \in DOMAIN h : h[i].status = "resolved"
  PROVE  \E n \in 1..(Len(h) - 1) : \A i \in DOMAIN h : h[i].status = IF i <= n THEN "firing" ELSE "resolved"
<1>1. Len(h) \in Nat /\ DOMAIN h = 1..Len(h) /\ \A i \in 1..Len(h) : h[i].status \in {"firing", "resolved"}
  <2> DEFINE S == [status: {"firing", "resolved"}, epoch: Nat]
  <2>1. \A x \in S : x.status \in {"firing", "resolved"}
    OBVIOUS
  <2>2. h \in Seq(S)
    OBVIOUS
  <2> HIDE DEF S
  <2>3. Len(h) \in Nat /\ DOMAIN h = 1..Len(h) /\ \A i \in 1..Len(h) : h[i] \in S
    BY <2>2
  <2> QED BY <2>1, <2>3
<1> DEFINE resolved == {i \in 1..Len(h) : h[i].status = "resolved"}
<1>2. PICK r \in resolved : \A i \in resolved : r <= i
  <2>1. resolved \subseteq Nat /\ resolved # {}
    BY <1>1
  <2> HIDE DEF resolved
  <2> QED BY <2>1, SmallestOf
<1>3. r \in 1..Len(h) /\ r # 1 /\ h[r].status = "resolved"
  BY <1>2
<1>4. \A i \in 1..Len(h) : i < r => h[i].status = "firing"
  BY <1>1, <1>2, <1>3
<1> DEFINE again == {i \in 1..Len(h) : i > r /\ h[i].status = "firing"}
<1>5. again = {}
  <2> SUFFICES ASSUME again # {} PROVE FALSE
    OBVIOUS
  <2>1. PICK i \in again : \A j \in again : i <= j
    <3>1. again \subseteq Nat
      BY <1>1
    <3> HIDE DEF again
    <3> QED BY <3>1, SmallestOf
  <2>2. i \in 1..Len(h) /\ i > r /\ h[i].status = "firing"
    BY <2>1
  <2>3. i - 1 \in 1..(Len(h) - 1) /\ i - 1 >= r /\ (i - 1) + 1 = i
    BY <1>1, <1>3, <2>2
  <2>4. h[i - 1].status = "resolved"
    <3>1. i - 1 \notin again /\ i - 1 \in 1..Len(h)
      <4>1. i - 1 \in 1..Len(h) /\ ~(i <= i - 1)
        BY <1>1, <2>2, <2>3
      <4> HIDE DEF again
      <4> QED BY <2>1, <4>1
    <3> QED BY <1>1, <1>3, <2>3, <3>1
  <2> QED BY <2>2, <2>3, <2>4 DEF Refired
<1>6. r - 1 \in 1..(Len(h) - 1)
  BY <1>1, <1>3
<1>7. \A i \in 1..Len(h) : h[i].status = IF i <= r - 1 THEN "firing" ELSE "resolved"
  BY <1>1, <1>3, <1>4, <1>5
<1> QED BY <1>1, <1>6, <1>7

LEMMA LabSound == ASSUME LabInv PROVE AcceptanceSound
<1>1. PICK a \in Acceptance : LabInvOf(a)
  BY DEF LabInv
<1>2. Place(a) /\ Approval /\ LabState(a) /\ Rows /\ SeenFired /\ SeenResolved /\ SeenOnce /\ Exit /\ Static(a)
  BY <1>1 DEF LabInvOf, Pages
<1> DEFINE N == Len(a.faults)
<1>3. ASSUME NEW i \in 1..N, Clean(a.faults[i]) PROVE ~InEffect(get(a.faults[i]))
  <2> DEFINE n == a.faults[i]
  <2>1. get(n).name = n /\ get(n).kind \in {"flag", "chaos", "release"}
    BY FaultsOf DEF Faults
  <2>2. CASE get(n).kind = "release"
    <3>1. HistoryOf({}, {n})
      BY Histories
    <3>2. rollouts[get(n).on].history \in {<<{}>>, <<{n}, {}>>}
      BY <1>3, <2>2 DEF Clean
    <3>3. Current(get(n).on) = {}
      BY <3>1, <3>2, Zenon DEF HistoryOf, Current
    <3> QED BY <2>2, <3>3 DEF InEffect
  <2>3. CASE get(n).kind = "flag"
    BY <1>3, <2>3 DEF InEffect, Clean
  <2>4. CASE get(n).kind = "chaos"
    BY <1>3, <2>1, <2>4 DEF InEffect, Clean
  <2> QED BY <2>1, <2>2, <2>3, <2>4
<1>4. AcceptedMeansRestored
  <2> SUFFICES ASSUME scn.accepted
               PROVE  /\ \A fault \in FaultsRun : ~InEffect(fault)
                      /\ unwritten = {}
                      /\ \A k \in Services : cases[k].state \notin {"EXECUTING", "VERIFYING"}
    BY DEF AcceptedMeansRestored
  <2>1. scn.phase = "ended" /\ ok /\ scn.phase \in Later \cap Done
    BY <1>2 DEF Exit, Later, Done
  <2>2. ~Doomed
    BY <1>2, <2>1 DEF Doomed, ok, Approval
  <2>3. ASSUME NEW i \in 1..N PROVE Clean(a.faults[i])
    <3>1. Len(scn.injected) = 0 /\ i > Len(scn.injected)
      BY <1>2, <2>1 DEF Place
    <3> QED BY <1>2, <2>2, <3>1 DEF LabState, Known
  <2>4. \A k \in Services : cases[k].state \notin {"EXECUTING", "VERIFYING"}
    <3> SUFFICES ASSUME NEW k \in Services, Busy(k) PROVE FALSE
      BY DEF Busy
    <3> QED BY <1>2, <2>1, <2>2 DEF Approval, Doomed
  <2>5. ASSUME NEW fault \in FaultsRun PROVE ~InEffect(fault)
    <3>0. fault = get(fault.name) /\ fault.name \in Names
      BY RunFaults
    <3>1. fault.kind \in {"flag", "chaos", "release"}
      BY <3>0, Got, Described
    <3>2. CASE fault.kind = "flag"
      <4>1. fault.on \in DOMAIN flagd
        BY <1>2, <3>2 DEF Static
      <4>2. CASE \A i \in 1..N : get(a.faults[i]).kind = "flag" => get(a.faults[i]).on # fault.on
        BY <1>2, <2>2, <3>2, <4>1, <4>2 DEF LabState, InEffect
      <4>3. ASSUME NEW i \in 1..N, get(a.faults[i]).kind = "flag", get(a.faults[i]).on = fault.on
            PROVE  flagd[fault.on] = OFF
        BY <2>3, <4>3 DEF Clean
      <4> QED BY <3>2, <4>2, <4>3 DEF InEffect
    <3>3. CASE fault.kind = "chaos"
      <4> SUFFICES ASSUME fault.name \in chaos PROVE FALSE
        BY <3>3 DEF InEffect
      <4>1. PICK i \in 1..N : fault.name = a.faults[i]
        BY <1>2 DEF LabState
      <4> QED BY <2>3, <3>0, <3>3, <4>1 DEF Clean
    <3>4. CASE fault.kind = "release"
      <4>1. fault.on \in DOMAIN rollouts
        BY <1>2, <3>4 DEF Static, ReleasesRun
      <4>2. PICK n : HistoryOf({}, {n}) /\ rollouts[fault.on].history \in {<<{}>>, <<{n}, {}>>}
        <5>1. CASE \A i \in 1..N : get(a.faults[i]).kind = "release" => get(a.faults[i]).on # fault.on
          <6>1. rollouts[fault.on].history = <<{}>>
            BY <1>2, <4>1, <5>1 DEF LabState
          <6>2. HistoryOf({}, {0})
            BY Histories
          <6> QED BY <6>1, <6>2
        <5>2. ASSUME NEW i \in 1..N, get(a.faults[i]).kind = "release", get(a.faults[i]).on = fault.on
              PROVE  \E n : HistoryOf({}, {n}) /\ rollouts[fault.on].history \in {<<{}>>, <<{n}, {}>>}
          <6>1. PICK n : n = a.faults[i]
            OBVIOUS
          <6>2. HistoryOf({}, {n}) /\ Clean(n)
            BY <2>3, <6>1, Histories
          <6>3. rollouts[fault.on].history \in {<<{}>>, <<{n}, {}>>}
            BY <5>2, <6>1, <6>2 DEF Clean
          <6> QED BY <6>2, <6>3
        <5> QED BY <5>1, <5>2
      <4>3. Current(fault.on) = {}
        BY <4>2, Zenon DEF HistoryOf, Current
      <4> QED BY <3>4, <4>3 DEF InEffect
    <3> QED BY <3>1, <3>2, <3>3, <3>4
  <2>6. unwritten = {}
    BY <1>2, <2>2 DEF LabState
  <2> QED BY <2>4, <2>5, <2>6
<1>5. CauseRecovered
  <2> SUFFICES ASSUME scn.phase \in Done, scn.cause.kind # "flag", scn.approved = {}
               PROVE  ~InEffect(scn.cause)
    BY DEF CauseRecovered, Done
  <2>1. N \in 1..N /\ scn.cause = get(a.faults[N])
    <3>1. N \in Nat /\ N > 0 /\ Last(a.faults) = a.faults[N]
      BY FaultsOf, Zenon DEF Faults
    <3>2. N \in 1..N
      BY <3>1
    <3> QED BY <1>2, <3>1, <3>2 DEF Static
  <2>2. N > Len(scn.injected) /\ Known(a, N)
    BY <1>2, <2>1 DEF Place, Known
  <2>3. Clean(a.faults[N])
    BY <1>2, <2>1, <2>2 DEF LabState
  <2> QED BY <1>3, <2>1, <2>3
<1>6. AcceptedMeansOnePage
  <2> SUFFICES ASSUME scn.phase = "report", ok, NEW k \in scn.seen
               PROVE  \E n \in 1..(Len(inbox[k]) - 1) : \A i \in DOMAIN inbox[k] :
                          inbox[k][i].status = IF i <= n THEN "firing" ELSE "resolved"
    BY DEF AcceptedMeansOnePage
  <2>1. scn.resolved /\ ~scn.error /\ ~scn.flapping
    BY DEF ok
  <2>2. inbox[k] \in Seq([status: {"firing", "resolved"}, epoch: Nat]) /\ inbox[k][1].status = "firing"
    BY <1>2 DEF Rows, SeenFired
  <2>3. ~Refired(inbox[k])
    BY <1>2, <2>1 DEF SeenOnce
  <2>4. \E i \in DOMAIN inbox[k] : inbox[k][i].status = "resolved"
    BY <1>2, <2>1 DEF SeenResolved
  <2> QED BY <2>2, <2>3, <2>4, OnePage
<1>7. OneApproval
  BY <1>2 DEF Approval, OneApproval
<1> QED BY <1>4, <1>5, <1>6, <1>7 DEF AcceptanceSound

\* An acceptance run that exits with 0 leaves the lab as it found it, each alert
\* it saw paged once, a cause is recovered also when its injection failed half
\* way, and one repair is approved (run_scenario, Remediator.run, Lab.recover).
THEOREM AcceptanceEarned == LabSpec => []AcceptanceSound
<1>1. LabInit => LabInv
  BY LabStarts
<1>2. LabInv /\ [LabNext]_labVars => LabInv'
  BY LabKeepsInv
<1>3. LabInv => AcceptanceSound
  BY LabSound
<1> QED BY <1>1, <1>2, <1>3, PTL DEF LabSpec

-----------------------------------------------------------------------------
(* Scoring: the percentile                                                 *)

\* The greater of nothing and a count.
LEMMA MaxOfTwo ==
  ASSUME NEW a \in Nat
  PROVE  Max({0, a}) = a
<1>1. \A y \in {0, a} : a >= y
  OBVIOUS
<1>2. \A x \in {0, a} : (\A y \in {0, a} : x >= y) => x = a
  OBVIOUS
<1> QED BY <1>1, <1>2 DEF Max

\* The value at a percentile is the first of the ordered values that has at least that
\* share of them at or below it, however many there are (percentile in
\* app/eval/metrics.py).
THEOREM NearestRankOfAnything ==
  ASSUME NEW S, NEW ordered \in Seq(S), ordered # <<>>, NEW q \in 1..100
  PROVE  \E k \in 1..Len(ordered) :
           /\ percentile(ordered, q) = ordered[k]
           /\ 100 * k >= q * Len(ordered)
           /\ \A l \in 1..Len(ordered) : 100 * l >= q * Len(ordered) => k <= l
<1> DEFINE n == Len(ordered)  share == q * n  k == (share + 99) \div 100
<1>1. n \in Nat /\ n >= 1
  OBVIOUS
<1> HIDE DEF n
<1>2. share \in Nat /\ share >= 1 /\ share <= 100 * n
  BY <1>1
<1> HIDE DEF share
<1>3. k \in Nat /\ 100 * k >= share /\ 100 * k <= share + 99
  BY <1>2
<1> HIDE DEF k
<1>4. k \in 1..n
  BY <1>1, <1>2, <1>3
<1>5. \A l \in 1..n : 100 * l >= share => k <= l
  BY <1>1, <1>2, <1>3
<1>6. Max({0, k - 1}) = k - 1
  BY <1>3, <1>4, MaxOfTwo
<1>7. percentile(ordered, q) = ordered[k]
  BY <1>3, <1>6 DEF percentile, k, share, n
<1> QED BY <1>3, <1>4, <1>5, <1>7 DEF share, n

=============================================================================
