\* Two scorers and three transactions of a customer, of whose rows the latest
\* one is read; operators change a listing, a rate or a profile.
SPECIFICATION Spec
CONSTANTS
  Scorer = {s1, s2}
  Transaction = {1, 2, 3}
  Event <- SomeEvents
  Merchant = {"shop", "stall"}
  Device = {"phone", "tablet"}
  Customer = {"ann"}
  Distance <- SomeDistances
  TwoMinutes = 1
  TenMinutes = 2
  Hour = 4
  RecentMaxLookback = 4
  NormalLookback = 5
  MinimumKm = 2
  SpeedLimit = 1
  HistoryLookback = 5
  TransactionLimit = 1
  Listings <- SomeListings
  FraudRates = {10}
  UsualPlaces <- SomeProfiles
  Never = Never
CONSTRAINT OneChange
SYMMETRY Scorers
INVARIANTS
  QueriesAgree
  NothingRecentIsMissed
  ColdStartIsNeutral
PROPERTIES
  ReplayIsStable
