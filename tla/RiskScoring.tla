----------------------------- MODULE RiskScoring -----------------------------
(***************************************************************************)
(* SharedScoringPipeline.score after the features are computed, and the    *)
(* construction of the events: the rules engine, the anomaly model, the    *)
(* combiner, the decision engine, and every check that the value classes,  *)
(* validate_decision and the published contracts make on the way.  Each of *)
(* them has its own idea of the score bands, the caps and what an override *)
(* demands; a disagreement is an exception, which stops a worker.          *)
(***************************************************************************)
EXTENDS AnomalyCalibration, Sequences, FiniteSetsExt

CONSTANTS
  Group,         \* rule groups
  Rulesets,      \* rulesets that pass the schema
  Calibrations,  \* calibrations of the model
  RawScores,     \* raw scores the model returns
  Nothing        \* a local that is not bound yet

Override == {"none", "additional_verification", "hold_for_review"}

\* RulePolicy: a rule without its identifier, reason and conditions.
RulePolicy ==
  [group : Group, points : 0 .. 70, override : Override, enabled : BOOLEAN]

Ruleset == [max_contribution : 1 .. 70, rules : Seq(RulePolicy)]

ASSUME RulesetAssumption ==
  /\ IsFiniteSet(Group)
  /\ Rulesets \subseteq Ruleset

ASSUME CalibrationAssumption ==
  /\ \A c \in Calibrations : IsCalibration(c)
  /\ RawScores \subseteq Int

VARIABLES
  ruleset,      \* the loaded ruleset
  calibration,  \* the calibration of the loaded model
  pc,           \* the next step of the pipeline
  next,         \* index of the next rule to evaluate
  matched,      \* the enabled rules that matched so far
  winners,      \* winners[g]: the winning rule of group g, or 0
  left,         \* the winners whose points are still to be added
  points,       \* the sum of the points so far
  rules,        \* the RuleEvaluation
  raw,          \* the model's raw score
  anomaly,      \* the anomaly contribution
  combined,     \* the CombinedRiskScore
  decision,     \* the RiskDecision
  alert         \* whether an alert event was built

inputVars == <<ruleset, calibration>>
loopVars == <<next, matched, winners, left, points>>
resultVars == <<rules, raw, anomaly, combined, decision, alert>>
vars == <<inputVars, pc, loopVars, resultVars>>

Rule(i) == ruleset.rules[i]

Init ==
  /\ ruleset \in Rulesets
  /\ calibration \in Calibrations
  /\ pc = "rules"
  /\ next = 1
  /\ matched = {}
  /\ winners = [g \in Group |-> 0]
  /\ left = {}
  /\ points = 0
  /\ rules = Nothing
  /\ raw = Nothing
  /\ anomaly = Nothing
  /\ combined = Nothing
  /\ decision = Nothing
  /\ alert = FALSE

------------------------------------------------------------------------------
(* YamlRulesEngine.evaluate *)

\* Rule i takes the place of the current winner j of its group.
Supersedes(i, j) == j = 0 \/ Rule(i).points > Rule(j).points

\* One turn of the loop over the rules: a disabled rule and one whose
\* conditions do not hold are passed over.
EvaluateRule ==
  /\ pc = "rules"
  /\ next <= Len(ruleset.rules)
  /\ next' = next + 1
  /\ \/ UNCHANGED <<matched, winners>>
     \/ /\ Rule(next).enabled
        /\ matched' = matched \cup {next}
        /\ winners' =
             [winners EXCEPT ![Rule(next).group] =
                IF Supersedes(next, @) THEN next ELSE @]
  /\ UNCHANGED <<inputVars, pc, left, points, resultVars>>

\* A condition on a missing field, or on a value it cannot be compared to.
RuleEvaluationFails ==
  /\ pc = "rules"
  /\ next <= Len(ruleset.rules)
  /\ Rule(next).enabled
  /\ pc' = "failed"
  /\ UNCHANGED <<inputVars, loopVars, resultVars>>

\* The rules selected for the evaluation.
Hits == {winners[g] : g \in Group} \ {0}

\* The end of the loop: the winners are selected.
SelectWinners ==
  /\ pc = "rules"
  /\ next > Len(ruleset.rules)
  /\ left' = Hits
  /\ pc' = "sum"
  /\ UNCHANGED <<inputVars, next, matched, winners, points, resultVars>>

\* Defect: the points are summed as a set, equal ones once.
AddHitOncePerValue ==
  /\ pc = "sum"
  /\ \E i \in left :
       /\ \A j \in left : i <= j
       /\ points' = points + Rule(i).points
       /\ left' = {j \in left : Rule(j).points # Rule(i).points}
  /\ UNCHANGED <<inputVars, pc, next, matched, winners, resultVars>>

\* sum(hit.points for hit in hits).
AddHit ==
  /\ pc = "sum"
  /\ \E i \in left :
       /\ \A j \in left : i <= j
       /\ points' = points + Rule(i).points
       /\ left' = left \ {i}
  /\ UNCHANGED <<inputVars, pc, next, matched, winners, resultVars>>

\* Defect: the override of the last selected rule.
LastOverride(selected) ==
  IF selected = {} THEN "none" ELSE Rule(Max(selected)).override

\* _strongest_override, over the selected rules.
StrongestOverride(selected) ==
  IF \E i \in selected : Rule(i).override = "hold_for_review"
  THEN "hold_for_review"
  ELSE IF \E i \in selected : Rule(i).override = "additional_verification"
       THEN "additional_verification"
       ELSE "none"

Least(a, b) == IF a <= b THEN a ELSE b

\* min(uncapped, max_contribution, 70).
Capped(p) == Least(p, Least(ruleset.max_contribution, 70))

\* The next step, unless a check raises ValueError.
Checked(ok, label) == pc' = IF ok THEN label ELSE "raised"

\* The checks of each RuleHit and of the RuleEvaluation.
RulesAccepted(contribution) ==
  /\ \A i \in Hits : Rule(i).points >= 0
  /\ contribution \in 0 .. 70

ReturnEvaluation ==
  /\ pc = "sum"
  /\ left = {}
  /\ rules' = [contribution |-> Capped(points),
               override |-> StrongestOverride(Hits)]
  /\ Checked(RulesAccepted(Capped(points)), "anomaly")
  /\ UNCHANGED <<inputVars, loopVars, raw, anomaly, combined, decision, alert>>

------------------------------------------------------------------------------
(* IsolationForestAnomalyModel.evaluate *)

\* The checks of AnomalyEvaluation.
AnomalyAccepted(contribution, score) ==
  /\ contribution \in 0 .. 30
  /\ score \in Int  \* finite

EvaluateAnomaly ==
  /\ pc = "anomaly"
  /\ raw' \in RawScores
  /\ anomaly' = Contribution(calibration, raw')
  /\ Checked(AnomalyAccepted(anomaly', raw'), "combine")
  /\ UNCHANGED <<inputVars, loopVars, rules, combined, decision, alert>>

\* A feature the vectorizer refuses, or the estimator raises.
ModelFails ==
  /\ pc = "anomaly"
  /\ pc' = "failed"
  /\ UNCHANGED <<inputVars, loopVars, resultVars>>

------------------------------------------------------------------------------
(* InitialRiskScoreCombiner.combine *)

\* The checks of combine and of CombinedRiskScore.
CombinedAccepted(c) ==
  /\ c.rules \in 0 .. 70
  /\ c.anomaly \in 0 .. 30
  /\ c.uncapped = c.rules + c.anomaly
  /\ c.final = Least(100, c.uncapped)
  /\ c.override # "approve"

Combine ==
  /\ pc = "combine"
  /\ LET uncapped == rules.contribution + anomaly
     IN  combined' = [rules |-> rules.contribution,
                      anomaly |-> anomaly,
                      uncapped |-> uncapped,
                      final |-> Least(100, uncapped),
                      override |-> rules.override]
  /\ Checked(CombinedAccepted(combined'), "decide")
  /\ UNCHANGED <<inputVars, loopVars, rules, raw, anomaly, decision, alert>>

------------------------------------------------------------------------------
(* InitialDecisionEngine.decide *)

Category == {"low", "medium", "high"}

Severity(category) ==
  CASE category = "low" -> 0
    [] category = "medium" -> 1
    [] OTHER -> 2

\* The category an override asks for at least.
Demanded(override) ==
  CASE override = "additional_verification" -> "medium"
    [] override = "hold_for_review" -> "high"
    [] OTHER -> "low"

\* Defect: the upper bound of the band is off by one.
ScoreCategoryOffByOne(score) ==
  CASE score <= 40 -> "low"
    [] score > 40 /\ score <= 69 -> "medium"
    [] OTHER -> "high"

\* _score_category, of the decision engine.
ScoreCategory(score) ==
  CASE score <= 39 -> "low"
    [] score > 39 /\ score <= 69 -> "medium"
    [] OTHER -> "high"

\* _effective_category: an override raises, and never lowers.
EffectiveCategory(category, override) ==
  IF Severity(category) >= Severity(Demanded(override))
  THEN category
  ELSE Demanded(override)

RecommendedAction == {"approve", "additional_verification", "hold_for_review"}

Action(category) ==
  CASE category = "low" -> "approve"
    [] category = "medium" -> "additional_verification"
    [] OTHER -> "hold_for_review"

\* expected_score_category, of RiskDecision.
ExpectedScoreCategory(score) ==
  IF score <= 39 THEN "low" ELSE IF score <= 69 THEN "medium" ELSE "high"

\* The checks of RiskDecision.
DecisionAccepted(d) ==
  /\ d.final \in 0 .. 100
  /\ d.score_category = ExpectedScoreCategory(d.final)
  /\ Severity(d.category) >= Severity(ExpectedScoreCategory(d.final))
  /\ d.category # ExpectedScoreCategory(d.final) => d.override_applied
  /\ d.action = Action(d.category)

Decide ==
  /\ pc = "decide"
  /\ LET score == ScoreCategory(combined.final)
         category == EffectiveCategory(score, combined.override)
     IN  decision' = [final |-> combined.final,
                      score_category |-> score,
                      category |-> category,
                      action |-> Action(category),
                      override_applied |-> category # score]
  /\ Checked(DecisionAccepted(decision'), "validate")
  /\ UNCHANGED <<inputVars, loopVars, rules, raw, anomaly, combined, alert>>

------------------------------------------------------------------------------
(* validate_decision, and DecisionOutputFactory.build *)

\* The checks of validate_decision.
Validated(c, d) ==
  LET demanded == Demanded(c.override)
      expected == IF Severity(d.score_category) >= Severity(demanded)
                  THEN d.score_category
                  ELSE demanded
  IN  /\ d.final = c.final
      /\ Severity(d.category) >= Severity(demanded)
      /\ d.category = expected
      /\ d.override_applied = (expected # d.score_category)

ValidateDecision ==
  /\ pc = "validate"
  /\ Checked(Validated(combined, decision), "build")
  /\ UNCHANGED <<inputVars, loopVars, resultVars>>

\* _category_for_score, of the event contracts.
CategoryForScore(score) ==
  CASE score \in 0 .. 39 -> "low"
    [] score \in 40 .. 69 -> "medium"
    [] OTHER -> "high"

\* What RiskDecisionEvent and FraudAlertEvent both check.
EventConsistent(c, d) ==
  LET changed == d.category # d.score_category
  IN  /\ d.score_category = CategoryForScore(c.final)
      /\ Severity(d.category) >= Severity(d.score_category)
      /\ d.action = Action(d.category)
      /\ d.override_applied = changed
      /\ changed => c.override # "none"
      /\ c.override # "none" =>
           Severity(d.category) >= Severity(Demanded(c.override))

\* RiskDecisionEvent.
RiskEventAccepted(c, d) ==
  /\ c.uncapped \in 0 .. 100
  /\ c.uncapped = c.rules + c.anomaly
  /\ c.final = Least(100, c.uncapped)
  /\ EventConsistent(c, d)

\* FraudAlertEvent, which only knows the final score.
AlertEventAccepted(c, d) ==
  /\ d.category \in {"medium", "high"}
  /\ c.final = c.rules + c.anomaly
  /\ EventConsistent(c, d)

\* A scored event always, and an alert event for the categories that have one.
BuildOutputs ==
  /\ pc = "build"
  /\ alert' = (decision.category \in {"medium", "high"})
  /\ Checked(/\ RiskEventAccepted(combined, decision)
             /\ alert' => AlertEventAccepted(combined, decision), "done")
  /\ UNCHANGED <<inputVars, loopVars, rules, raw, anomaly, combined, decision>>

------------------------------------------------------------------------------
(* The specification *)

Next ==
  \/ EvaluateRule
  \/ RuleEvaluationFails
  \/ SelectWinners
  \/ AddHit
  \/ ReturnEvaluation
  \/ EvaluateAnomaly
  \/ ModelFails
  \/ Combine
  \/ Decide
  \/ ValidateDecision
  \/ BuildOutputs

Spec == Init /\ [][Next]_vars

------------------------------------------------------------------------------
(* Properties *)

Candidates(g) == {i \in matched : Rule(i).group = g}

\* Every variable has its type.
TypeOK ==
  /\ ruleset \in Ruleset
  /\ calibration \in Calibrations
  /\ pc \in {"rules", "sum", "anomaly", "combine", "decide", "validate",
             "build", "done", "failed", "raised"}
  /\ next \in 1 .. Len(ruleset.rules) + 1
  /\ matched \subseteq 1 .. next - 1
  /\ winners \in [Group -> 0 .. next - 1]
  /\ left \subseteq 1 .. next - 1
  /\ points \in Nat
  /\ rules \in [contribution : 0 .. 70, override : Override] \cup {Nothing}
  /\ raw \in RawScores \cup {Nothing}
  /\ anomaly \in (0 .. 30) \cup {Nothing}
  /\ combined \in [rules : 0 .. 70, anomaly : 0 .. 30, uncapped : 0 .. 100,
                   final : 0 .. 100, override : Override] \cup {Nothing}
  /\ decision \in [final : 0 .. 100, score_category : Category,
                   category : Category, action : RecommendedAction,
                   override_applied : BOOLEAN] \cup {Nothing}
  /\ alert \in BOOLEAN

\* At every turn of the loop the winner of a group is the strongest of its
\* matches, and among equals the one declared first: the result does not
\* depend on the order of the rules, but for equal points.
WinnersAreStrongest ==
  \A g \in Group :
    IF Candidates(g) = {}
    THEN winners[g] = 0
    ELSE /\ winners[g] \in Candidates(g)
         /\ \A i \in Candidates(g) :
              \/ Rule(i).points < Rule(winners[g]).points
              \/ Rule(i).points = Rule(winners[g]).points /\ winners[g] <= i

\* Summing the hits one by one gives one strongest rule per group, whatever
\* matched besides, under the lower of the two caps.
OneRulePerGroupCounts ==
  pc \notin {"rules", "sum", "failed"} =>
    LET strongest == [g \in Group |->
          IF Candidates(g) = {}
          THEN 0
          ELSE Max({Rule(i).points : i \in Candidates(g)})]
    IN  rules.contribution =
          Least(SumFunctionOnSet(strongest, Group), ruleset.max_contribution)

\* No check fails: the engines, the value classes, validate_decision and the
\* event contracts agree on every score, boundary and override, so that
\* scoring never stops a worker for a reason of its own.
ChecksAgree == pc # "raised"

\* A transaction is approved without an alert exactly when its score is in
\* the lowest band and no winning rule asks for more; and a rule that asks
\* for a hold gets one, whatever the score.
ApprovedOnlyWithoutObjection ==
  pc = "done" =>
    /\ decision.action = "approve" <=>
         /\ decision.final <= 39
         /\ \A i \in Hits : Rule(i).override = "none"
    /\ alert <=> decision.action # "approve"
    /\ (\E i \in Hits : Rule(i).override = "hold_for_review")
         => decision.action = "hold_for_review"

\* The percentile bands of ScoreCalibration are the levels that
\* AnomalyEvaluation.level names: no rounding carries a score over a border.
LevelFollowsPercentile ==
  anomaly # Nothing =>
    Level(anomaly) =
      CASE raw <= calibration.p90 -> "normal"
        [] raw > calibration.p90 /\ raw <= calibration.p97 ->
             "slightly_unusual"
        [] raw > calibration.p97 /\ raw <= calibration.p995 ->
             "moderately_unusual"
        [] OTHER -> "highly_unusual"

\* A more unusual transaction never gets fewer points.
MoreUnusualNeverScoresLess ==
  anomaly # Nothing =>
    \A r \in RawScores :
      r >= raw => Contribution(calibration, r) >= anomaly

------------------------------------------------------------------------------
(* The inductive invariant *)

\* The hits whose points are not added yet are winners.
LeftAreHits == pc = "sum" => left \subseteq Hits

\* What group g has given to the sum so far.
Counted(g) == IF winners[g] \in Hits \ left THEN Rule(winners[g]).points ELSE 0

\* The points are those of the groups whose winner was added, once each; in
\* the end no winner is left.
PointsAreOfGroups ==
  /\ pc = "rules" => points = 0
  /\ pc \notin {"rules", "failed"} =>
       points = SumFunctionOnSet([g \in Group |-> Counted(g)], Group)
  /\ pc \notin {"rules", "sum", "failed"} =>
       left = {} /\ rules.contribution = Capped(points)

\* Each local is what the step that bound it computed.
RulesAreEvaluated ==
  pc \notin {"rules", "sum", "failed"} =>
    /\ rules \in [contribution : 0 .. 70, override : Override]
    /\ rules.override = StrongestOverride(Hits)

AnomalyIsEvaluated ==
  /\ pc \notin {"rules", "sum", "anomaly", "failed"} => anomaly \in 0 .. 30
  /\ \/ anomaly = Nothing
     \/ /\ raw \in RawScores
        /\ anomaly = Contribution(calibration, raw)

ScoreIsCombined ==
  pc \in {"decide", "validate", "build", "done"} =>
    combined = [rules |-> rules.contribution,
                anomaly |-> anomaly,
                uncapped |-> rules.contribution + anomaly,
                final |-> rules.contribution + anomaly,
                override |-> rules.override]

DecisionIsMade ==
  pc \in {"validate", "build", "done"} =>
    LET score == ScoreCategory(combined.final)
        category == EffectiveCategory(score, combined.override)
    IN  decision = [final |-> combined.final,
                    score_category |-> score,
                    category |-> category,
                    action |-> Action(category),
                    override_applied |-> category # score]

AlertIsBuilt == pc = "done" => (alert <=> decision.category # "low")

IInv ==
  /\ TypeOK
  /\ WinnersAreStrongest
  /\ LeftAreHits
  /\ PointsAreOfGroups
  /\ RulesAreEvaluated
  /\ AnomalyIsEvaluated
  /\ ScoreIsCombined
  /\ DecisionIsMade
  /\ AlertIsBuilt
  /\ ChecksAgree
==============================================================================
