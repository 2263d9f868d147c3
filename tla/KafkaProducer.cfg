\* Two threads publish two messages through a queue with room for one.
SPECIFICATION FairSpec
CONSTANTS
  Thread = {t1, t2}
  Message = {m1, m2}
  Slot = {q1}
  RetryAttempts = 2
  Backoff <- Doubling
  DeliveryTimeout = 2
  Allowance = 1
  CloseTimeout = 1
  Free = Free
  Nothing = Nothing
INVARIANTS
  ReceiptIsOwn
  NeverGivesUpFirst
PROPERTIES
  DeliverySpec
  CallsEnd
