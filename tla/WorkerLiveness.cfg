SPECIFICATION LiveSpec
CONSTANTS
  p1 = p1
  e1 = e1  e2 = e2  e3 = e3  bad = bad  long = long
  t1 = t1  t2 = t2  t3 = t3  ann = ann  bob = bob
  Partition = {p1}
  Event = {e1, e2, e3}
  Malformed = {bad, long}
  Oversized = {long}
  Log <- MixedLog
  TransactionOf <- OwnTransaction
  CustomerOf <- Customers
  TimeOf <- Times
  Category = {"low", "high"}
  Alerting = {"high"}
  NoDecision = NoDecision
  Worker = {w1, w2}
  Client = {}
  ApiEvent = {}
  Nobody = Nobody
  Nothing = Nothing
PROPERTIES
  EverythingConsumed
  DecisionsAreAnnounced
CHECK_DEADLOCK FALSE
