\* Three sessions: two payloads that share an event_id, two that share a
\* transaction_id, and a profile loader on the same customers.
SPECIFICATION Spec
CONSTANTS
  Session = {s1, s2, s3}
  e1 = e1
  e2 = e2
  Event = {e1, e2}
  t1 = t1
  t2 = t2
  Transaction = {t1, t2}
  c1 = c1
  c2 = c2
  Customer = {c1, c2}
  p1 = p1
  p2 = p2
  p3 = p3
  Payload = {p1, p2, p3}
  EventOf <- MCEventOf
  TransactionOf <- MCTransactionOf
  CustomerOf <- MCCustomerOf
  TimeOf <- MCTimeOf
  Category = {low, high}
  Alerting = {high}
  Profile = {home}
  Nothing = Nothing
  MaxCalls = 4
SYMMETRY Interchangeable
CHECK_DEADLOCK FALSE
INVARIANTS
  AllOrNothing
  PayloadsAgree
  LastActivityCovers
  NoDeadlock
PROPERTIES
  StoreSpec
