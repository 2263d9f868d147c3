\* All files with each other: 4 transactions, of which a report may count all.
SPECIFICATION Spec
CONSTANTS
  ScoredFiles <- MCScoredFiles
  TruthFiles <- MCTruthFiles
  LabelFiles <- MCLabelFiles
  Absent = Absent
  AmountOf <- Amounts
  Positive = {"medium", "high"}
  Scale = 12
CHECK_DEADLOCK FALSE
INVARIANTS
  CountedOnceByLabel
  RatesAgree
  RankingIsRewarded
  BiasIsRefused
