\* Small rulesets of every shape, and calibrations of every shape.
SPECIFICATION MCSpec
CONSTANTS
  Group = {g1, g2}
  Rulesets <- MCRulesets
  Calibrations <- MCCalibrations
  RawScores <- MCRawScores
  Nothing = Nothing
INVARIANTS
  OneRulePerGroupCounts
  ChecksAgree
  ApprovedOnlyWithoutObjection
  MoreUnusualNeverScoresLess
CHECK_DEADLOCK FALSE
