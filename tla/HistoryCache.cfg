\* Two threads ask for three events of a customer, with room for two.
SPECIFICATION Spec
CONSTANTS
  ann = ann
  Thread = {t1, t2}
  Event = {e1, e2, e3}
  Customer = {ann}
  CustomerOf <- Owner
  MaxEntries = 2
  Ttl = 1
  MaxTime = 2
  MaxWrites = 1
  NoCall = NoCall
SYMMETRY Interchangeable
INVARIANTS
  StalenessIsBounded
  FirstLoadIsCurrent
  OnlyOvertakenLoadsAreStale
PROPERTIES
  LeastRecentlyUsedGoes
