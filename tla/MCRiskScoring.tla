---------------------------- MODULE MCRiskScoring ----------------------------
(***************************************************************************)
(* An instance of RiskScoring: small rulesets of every shape, and          *)
(* calibrations of every shape.                                            *)
(***************************************************************************)
EXTENDS RiskScoring

SmallRules ==
  [group : Group, points : {10, 29, 40}, override : Override, enabled : {TRUE}]

\* A third rule that is disabled, or that ties with one of the others.
LastRules ==
  {[group |-> g, points |-> 40, override |-> "none", enabled |-> b] :
     g \in Group, b \in BOOLEAN}

\* The sums of 10, 29, 40 and an anomaly contribution meet every boundary:
\* 39, 40, 69, 70, the cap of 70 and the total of 100.
SmallRulesets ==
  {[max_contribution |-> m, rules |-> <<r, s, t>>] :
     m \in {35, 70}, r \in SmallRules, s \in SmallRules, t \in LastRules}

\* Wide segments.
SomeCalibrations ==
  {[median |-> 0, p90 |-> 7, p97 |-> 10, p995 |-> 14, maximum |-> 20]}

\* Narrow, degenerate and partly degenerate segments.
OddCalibrations ==
  {[median |-> m, p90 |-> m + a, p97 |-> m + a + b, p995 |-> m + a + b + c,
    maximum |-> m + a + b + c + d] :
     m \in {-3}, a \in 0 .. 3, b \in 0 .. 3, c \in 0 .. 4, d \in 0 .. 4}

\* All around the odd segments; 0, 1, 20 and 21 give the wide one the
\* contributions 0, 1, 29 and 30.
MCRawScores == -5 .. 14 \cup {20, 21}

AnyRuleset ==
  {[max_contribution |-> 70,
    rules |-> <<[group |-> g, points |-> 40, override |-> "hold_for_review",
                 enabled |-> TRUE]>>] : g \in Group}

MCRulesets == SmallRulesets \cup AnyRuleset
MCCalibrations == SomeCalibrations \cup OddCalibrations

\* Every small ruleset with one calibration, every calibration with one ruleset.
MCInit == Init /\ (calibration \in SomeCalibrations \/ ruleset \in AnyRuleset)

MCSpec == MCInit /\ [][Next]_vars
==============================================================================
