------------------------ MODULE CustomerFeaturesProofs ------------------------
(***************************************************************************)
(* For any number of scorers, any transactions, windows, limits, listings  *)
(* and profiles: what the loads of CustomerFeatures have in common with    *)
(* the tables, and that a replay scores as before.                         *)
(***************************************************************************)
EXTENDS CustomerFeatures, FiniteSetTheorems, TLAPS

\* What the invariant says of one scorer.
ScorerInv(s) ==
  /\ RowsFit(s)
  /\ DeviceFits(s)
  /\ pc[s] = "save" /\ result[s].device.device_is_new
       /\ Event[tx[s]].trust # "new"
       => \A r \in began[s] :
            DeviceOf(r) = DeviceOf(tx[s]) => At(r) >= At(tx[s])

LEMMA InvOfScorers == IInv <=> TypeOK /\ \A s \in Scorer : ScorerInv(s)
BY DEF IInv, ScorerInv, OnceSeenNeverNew

\* A scorer that does not move keeps its part while rows are only added.
LEMMA RestKeeps ==
  ASSUME NEW s \in Scorer, ScorerInv(s), history \subseteq history',
         UNCHANGED <<pc[s], tx[s], began[s], rows[s], device[s], result[s]>>
  PROVE  ScorerInv(s)'
<1>1. RowsFit(s)'
  BY DEF ScorerInv, RowsFit, HourBefore
<1>2. DeviceFits(s)'
  <2>1. DeviceFits(s)
    BY DEF ScorerInv
  <2>. QED
    BY <2>1 DEF DeviceFits
<1> QED
  BY <1>1, <1>2 DEF ScorerInv

\* A scorer that is idle, or has queried nothing, has nothing to keep.
LEMMA IdleKeeps ==
  ASSUME NEW s \in Scorer, pc'[s] \in {"idle", "transactions"}
  PROVE  ScorerInv(s)'
BY DEF ScorerInv, RowsFit, DeviceFits

\* The transaction query returns rows that are there, and its limit cuts off
\* no row of the last hour that is later than one it returns.
LEMMA QueryReturnsLatest ==
  ASSUME EventAssumption, WindowAssumption, TypeOK,
         NEW s \in Scorer, tx[s] \in Transaction,
         NEW R \in TransactionQuery(tx[s])
  PROVE  /\ R \subseteq {r \in history : At(r) < At(tx[s])}
         /\ Cardinality(R) = TransactionLimit \/ HourBefore(s) \subseteq R
         /\ \A r \in R, u \in HourBefore(s) \ R : At(u) <= At(r)
<1>1. HourBefore(s) \subseteq CustomerRows(tx[s])
  <2> SUFFICES ASSUME NEW r \in HourBefore(s)
               PROVE  r \in CustomerRows(tx[s])
    OBVIOUS
  <2>1. r \in history /\ At(r) \in Nat /\ At(tx[s]) \in Nat
    BY DEF TypeOK, HourBefore, EventAssumption
  <2>2. At(r) < At(tx[s]) /\ At(tx[s]) - At(r) <= Hour
        /\ CustomerOf(r) = CustomerOf(tx[s])
    BY DEF HourBefore
  <2>3. At(tx[s]) - At(r) <= HistoryLookback
    BY <2>1, <2>2, SMT DEF WindowAssumption
  <2> QED
    BY <2>1, <2>2, <2>3 DEF CustomerRows
<1>2. R \subseteq CustomerRows(tx[s])
  BY DEF TransactionQuery
<1> QED
  BY <1>1, <1>2 DEF TransactionQuery, CustomerRows

\* The first time of a device is that of a row, and no row of it is earlier.
LEMMA FirstIsFirst ==
  ASSUME EventAssumption, TypeOK, NEW t \in Transaction, NEW f \in FirstSeen(t)
  PROVE  /\ f \in Nat \cup {Never}
         /\ f = Never => DeviceRows(t) = {}
         /\ f # Never => \A r \in DeviceRows(t) : f <= At(r)
<1>1. \A r \in DeviceRows(t) : At(r) \in Nat
  BY DEF DeviceRows, TypeOK, EventAssumption
<1>2. Never \notin Nat
  BY DEF EventAssumption
<1> QED
  BY <1>1, <1>2 DEF FirstSeen

LEMMA DeviceQueryType ==
  ASSUME EventAssumption, TypeOK, NEW t \in Transaction, NEW d \in DeviceQuery(t)
  PROVE  /\ d \in [first_seen : Nat \cup {Never}, account_count : Nat,
                   deny_listed : BOOLEAN]
         /\ d.first_seen \in FirstSeen(t)
<1>1. PICK f \in FirstSeen(t) :
        d = [first_seen |-> f,
             account_count |->
               Cardinality({Event[r].account : r \in DeviceRows(t)}),
             deny_listed |-> DenyListed(t)]
  BY DEF DeviceQuery
<1>2. IsFiniteSet(DeviceRows(t))
  BY FS_Subset DEF DeviceRows, TypeOK, EventAssumption
<1>3. IsFiniteSet({Event[r].account : r \in DeviceRows(t)})
  <2> DEFINE T == {Event[r].account : r \in DeviceRows(t)}
             account == [r \in DeviceRows(t) |-> Event[r].account]
  <2>1. account \in Surjection(DeviceRows(t), T)
    BY DEF Surjection
  <2> QED
    BY <1>2, <2>1, FS_Surjection
<1>4. Cardinality({Event[r].account : r \in DeviceRows(t)}) \in Nat
  BY <1>3, FS_CardinalityType
<1>5. DenyListed(t) \in BOOLEAN
  BY DEF DenyListed
<1> QED
  BY <1>1, <1>4, <1>5, FirstIsFirst

------------------------------------------------------------------------------

LEMMA InitIsRight == Init => IInv
BY DEF Init, IInv, TypeOK, NoDevice, RowsFit, DeviceFits, OnceSeenNeverNew

LEMMA BeginPreserves ==
  ASSUME IInv, NEW s \in Scorer, NEW t \in Transaction, Begin(s, t)
  PROVE  IInv'
<1> USE DEF tables, loaded, Goto
<1>1. TypeOK'
  BY DEF IInv, TypeOK, Begin
<1>2. ScorerInv(s)'
  BY IdleKeeps DEF IInv, TypeOK, Begin
<1>3. ASSUME NEW u \in Scorer, u # s PROVE ScorerInv(u)'
  BY <1>3, RestKeeps, InvOfScorers DEF Begin, IInv, TypeOK
<1> QED
  BY <1>1, <1>2, <1>3 DEF IInv, ScorerInv, OnceSeenNeverNew

LEMMA QueryTransactionsPreserves ==
  ASSUME EventAssumption, WindowAssumption, IInv,
         NEW s \in Scorer, QueryTransactions(s)
  PROVE  IInv'
<1> USE DEF tables, loaded, Goto
<1>1. PICK R \in TransactionQuery(tx[s]) : rows' = [rows EXCEPT ![s] = R]
  BY DEF QueryTransactions
<1>2. tx[s] \in Transaction /\ TypeOK
  BY DEF IInv, TypeOK, QueryTransactions
<1>3. /\ R \subseteq {r \in history : At(r) < At(tx[s])}
      /\ Cardinality(R) = TransactionLimit \/ HourBefore(s) \subseteq R
      /\ \A r \in R, u \in HourBefore(s) \ R : At(u) <= At(r)
  BY <1>2, QueryReturnsLatest
<1>4. TypeOK'
  BY <1>1, <1>3 DEF IInv, TypeOK, QueryTransactions
<1>5. ScorerInv(s)'
  <2>1. pc'[s] = "device" /\ rows'[s] = R /\ HourBefore(s)' = HourBefore(s)
    BY <1>1, <1>2 DEF QueryTransactions, TypeOK, HourBefore
  <2>2. RowsFit(s)'
    BY <1>3, <2>1 DEF RowsFit, QueryTransactions
  <2> QED
    BY <2>1, <2>2 DEF ScorerInv, DeviceFits
<1>6. ASSUME NEW u \in Scorer, u # s PROVE ScorerInv(u)'
  BY <1>1, <1>6, RestKeeps, InvOfScorers DEF QueryTransactions, IInv, TypeOK
<1> QED
  BY <1>4, <1>5, <1>6 DEF IInv, ScorerInv, OnceSeenNeverNew

LEMMA QueryDevicePreserves ==
  ASSUME EventAssumption, IInv, NEW s \in Scorer, QueryDevice(s)
  PROVE  IInv'
<1> USE DEF tables, loaded, Goto
<1>1. PICK d \in DeviceQuery(tx[s]) : device' = [device EXCEPT ![s] = d]
  BY DEF QueryDevice
<1>2. tx[s] \in Transaction /\ TypeOK /\ pc[s] = "device"
  BY DEF IInv, TypeOK, QueryDevice
<1>3. /\ d \in [first_seen : Nat \cup {Never}, account_count : Nat,
                deny_listed : BOOLEAN]
      /\ d.first_seen = Never => DeviceRows(tx[s]) = {}
      /\ d.first_seen # Never =>
           \A r \in DeviceRows(tx[s]) : d.first_seen <= At(r)
  BY <1>2, DeviceQueryType, FirstIsFirst
<1>4. TypeOK'
  BY <1>1, <1>3 DEF IInv, TypeOK, QueryDevice
<1>5. /\ pc'[s] = "merchant" /\ device'[s] = d
      /\ UNCHANGED <<history, rows[s], tx[s], began[s]>>
  BY <1>1, <1>2 DEF QueryDevice, TypeOK
<1>6. rows[s] \subseteq history /\ began[s] \subseteq history
  BY <1>2 DEF TypeOK
<1>7. \A r \in rows[s] : At(r) < At(tx[s])
  BY <1>2, InvOfScorers DEF ScorerInv, RowsFit
<1>8. DeviceFits(s)'
  <2>1. \A r \in history :
          DeviceOf(r) = DeviceOf(tx[s]) /\ ~(At(r) >= At(tx[s]))
            => r \in DeviceRows(tx[s])
    <3>1. \A r \in history : At(r) \in Nat /\ At(tx[s]) \in Nat
      BY <1>2 DEF TypeOK, EventAssumption
    <3> QED
      BY <3>1 DEF DeviceRows
  <2>2. \A r \in rows[s] :
          DeviceOf(r) = DeviceOf(tx[s]) => r \in DeviceRows(tx[s])
    BY <1>6, <1>7 DEF DeviceRows
  <2> QED
    BY <1>3, <1>5, <1>6, <2>1, <2>2 DEF DeviceFits
<1>9. RowsFit(s)'
  BY <1>2, <1>5, InvOfScorers DEF ScorerInv, RowsFit, HourBefore
<1>10. ScorerInv(s)'
  BY <1>5, <1>8, <1>9 DEF ScorerInv
<1>11. ASSUME NEW u \in Scorer, u # s PROVE ScorerInv(u)'
  BY <1>1, <1>11, RestKeeps, InvOfScorers DEF QueryDevice, IInv, TypeOK
<1> QED
  BY <1>4, <1>10, <1>11 DEF IInv, ScorerInv, OnceSeenNeverNew

\* Between the device query and the calculation nothing of the load changes.
LEMMA EntityQueryPreserves ==
  ASSUME EventAssumption, IInv, NEW s \in Scorer,
         QueryMerchant(s) \/ QueryProfile(s)
  PROVE  IInv'
<1> USE DEF tables, loaded, Goto
<1>1. TypeOK'
  <2>1. tx[s] \in Transaction
    BY DEF IInv, TypeOK, QueryMerchant, QueryProfile
  <2>2. Event[tx[s]].merchant \in Merchant /\ CustomerOf(tx[s]) \in Customer
    BY <2>1 DEF EventAssumption
  <2>3. CASE QueryMerchant(s)
    BY <2>2, <2>3 DEF IInv, TypeOK, QueryMerchant
  <2>4. CASE QueryProfile(s)
    BY <2>2, <2>4 DEF IInv, TypeOK, QueryProfile
  <2> QED
    BY <2>3, <2>4
<1>2. /\ pc[s] \in {"merchant", "profile"}
      /\ pc'[s] \in {"profile", "calculate"}
      /\ UNCHANGED <<history, tx, began, rows, device, result>>
      /\ \A u \in Scorer : u # s => pc'[u] = pc[u]
  BY DEF IInv, TypeOK, QueryMerchant, QueryProfile
<1>3. ScorerInv(s)
  BY InvOfScorers
<1>4. ScorerInv(s)'
  BY <1>2, <1>3 DEF ScorerInv, RowsFit, DeviceFits, HourBefore
<1>5. ASSUME NEW u \in Scorer, u # s PROVE ScorerInv(u)'
  BY <1>2, <1>5, RestKeeps, InvOfScorers
<1> QED
  BY <1>1, <1>4, <1>5 DEF IInv, ScorerInv, OnceSeenNeverNew

LEMMA CalculatePreserves ==
  ASSUME EventAssumption, IInv, NEW s \in Scorer, CalculateFeatures(s)
  PROVE  IInv'
<1> USE DEF tables, loaded, Goto
<1>1. PICK f \in Calculate(tx[s], rows[s], device[s], rate[s], places[s]) :
        result' = [result EXCEPT ![s] = f]
  BY DEF CalculateFeatures
<1>2. TypeOK'
  BY <1>1 DEF IInv, TypeOK, CalculateFeatures
<1>3. /\ pc[s] = "calculate" /\ pc'[s] = "save" /\ result'[s] = f
      /\ UNCHANGED <<history, tx, began, rows, device>>
      /\ \A u \in Scorer : u # s => pc'[u] = pc[u] /\ result'[u] = result[u]
  BY <1>1 DEF IInv, TypeOK, CalculateFeatures
<1>4. ScorerInv(s)
  BY InvOfScorers
<1>5. ASSUME f.device.device_is_new, Event[tx[s]].trust # "new"
      PROVE  device[s].first_seen = Never
  <2> DEFINE R == {q \in rows[s] : At(q) < At(tx[s])}
  <2>1. f.device = DeviceFeatures(tx[s], R, device[s])
    BY DEF Calculate
  <2>2. DeviceIsNew(tx[s], R, device[s])
    BY <1>5, <2>1 DEF DeviceFeatures
  <2> QED
    BY <1>5, <2>2 DEF DeviceIsNew
<1>6. ScorerInv(s)'
  BY <1>3, <1>4, <1>5 DEF ScorerInv, RowsFit, DeviceFits, HourBefore
<1>7. ASSUME NEW u \in Scorer, u # s PROVE ScorerInv(u)'
  BY <1>3, <1>7, RestKeeps, InvOfScorers
<1> QED
  BY <1>2, <1>6, <1>7 DEF IInv, ScorerInv, OnceSeenNeverNew

LEMMA EndPreserves ==
  ASSUME IInv, NEW s \in Scorer, Save(s) \/ Abandon(s)
  PROVE  IInv'
<1> USE DEF Goto
<1>1. /\ history \subseteq history' /\ history' \subseteq Transaction
      /\ UNCHANGED <<denied, fraudRate, usual>>
  BY DEF IInv, TypeOK, Save, Abandon, tables
<1>2. Forget(s)
  BY DEF Save, Abandon
<1>3. TypeOK'
  BY <1>1, <1>2 DEF IInv, TypeOK, Forget, NoDevice
<1>4. ScorerInv(s)'
  BY <1>2, IdleKeeps DEF IInv, TypeOK, Forget
<1>5. ASSUME NEW u \in Scorer, u # s PROVE ScorerInv(u)'
  BY <1>1, <1>2, <1>5, RestKeeps, InvOfScorers DEF Forget, IInv, TypeOK
<1> QED
  BY <1>3, <1>4, <1>5 DEF IInv, ScorerInv, OnceSeenNeverNew

LEMMA OperatorPreserves ==
  ASSUME IInv,
         \/ \E d \in Device, entry \in Listings : Deny(d, entry)
         \/ \E m \in Merchant, r \in FraudRates : SetFraudRate(m, r)
         \/ \E c \in Customer, known \in UsualPlaces : UpsertProfile(c, known)
  PROVE  IInv'
<1>1. UNCHANGED <<history, pc, tx, began, loaded, result>>
  BY DEF Deny, SetFraudRate, UpsertProfile
<1>2. TypeOK'
  BY <1>1 DEF IInv, TypeOK, loaded, Deny, SetFraudRate, UpsertProfile
<1>3. ASSUME NEW u \in Scorer PROVE ScorerInv(u)'
  BY <1>1, RestKeeps, InvOfScorers DEF loaded
<1> QED
  BY <1>2, <1>3 DEF IInv, ScorerInv, OnceSeenNeverNew

LEMMA NextPreserves ==
  ASSUME EventAssumption, WindowAssumption, IInv, [Next]_vars
  PROVE  IInv'
<1>1. CASE UNCHANGED vars
  <2>1. TypeOK'
    BY <1>1 DEF IInv, TypeOK, vars, tables, loaded
  <2>2. ASSUME NEW u \in Scorer PROVE ScorerInv(u)'
    BY <1>1, RestKeeps, InvOfScorers DEF vars, tables, loaded
  <2> QED
    BY <2>1, <2>2 DEF IInv, ScorerInv, OnceSeenNeverNew
<1>2. CASE Next
  BY <1>2, BeginPreserves, QueryTransactionsPreserves, QueryDevicePreserves,
     EntityQueryPreserves, CalculatePreserves, EndPreserves, OperatorPreserves
     DEF Next
<1> QED
  BY <1>1, <1>2

\* Every state satisfies the inductive invariant.
THEOREM Invariant == Spec => []IInv
<1> USE EventAssumption, WindowAssumption
<1>1. Init => IInv
  BY InitIsRight
<1>2. IInv /\ [Next]_vars => IInv'
  BY NextPreserves
<1> QED
  BY <1>1, <1>2, PTL DEF Spec

\* Every variable keeps its type, and a scorer at work has a transaction.
THEOREM TypeCorrect == Spec => []TypeOK
<1>1. IInv => TypeOK
  BY DEF IInv
<1> QED
  BY <1>1, Invariant, PTL

\* Once a transaction with a device is stored, no later scoring takes the
\* device for a new one.
THEOREM SeenDevicesAreKnown == Spec => []OnceSeenNeverNew
<1>1. IInv => OnceSeenNeverNew
  BY DEF IInv
<1> QED
  BY <1>1, Invariant, PTL

\* The device query has seen the devices among the customer's rows, whatever
\* was committed between the two.
THEOREM LoadsAgree == Spec => []QueriesAgree
<1> USE EventAssumption
<1>1. ASSUME IInv, NEW s \in Scorer,
             pc[s] \in {"merchant", "profile", "calculate", "save"},
             NEW r \in rows[s], DeviceOf(r) = DeviceOf(tx[s])
      PROVE  /\ device[s].first_seen # Never
             /\ device[s].first_seen <= At(r)
  <2>1. ScorerInv(s)
    BY <1>1, InvOfScorers
  <2>2. r \in history /\ tx[s] \in Transaction
    BY <1>1 DEF IInv, TypeOK
  <2>3. At(r) \in Nat /\ At(tx[s]) \in Nat /\ At(r) < At(tx[s])
    BY <1>1, <2>1, <2>2 DEF IInv, TypeOK, EventAssumption, ScorerInv, RowsFit
  <2>4. ~(At(r) >= At(tx[s]))
    BY <2>3
  <2> QED
    BY <1>1, <2>1, <2>4 DEF ScorerInv, DeviceFits
<1>2. IInv => QueriesAgree
  BY <1>1 DEF QueriesAgree
<1> QED
  BY <1>2, Invariant, PTL

\* Every transaction of the last hour counts for the velocity, up to the limit.
THEOREM RecentRowsCount == Spec => []NothingRecentIsMissed
<1> USE EventAssumption
<1>1. ASSUME IInv, NEW s \in Scorer, pc[s] = "save"
      PROVE  \/ HourBefore(s) \subseteq Within(tx[s], rows[s], Hour)
             \/ Cardinality(Within(tx[s], rows[s], Hour)) = TransactionLimit
  <2>1. RowsFit(s)
    BY <1>1 DEF IInv
  <2>2. CASE HourBefore(s) \subseteq rows[s]
    BY <2>2 DEF HourBefore, Within
  <2>3. CASE ~(HourBefore(s) \subseteq rows[s])
    <3>1. PICK u \in HourBefore(s) : u \notin rows[s]
      BY <2>3
    <3>2. Cardinality(rows[s]) = TransactionLimit
      BY <1>1, <2>1, <2>3 DEF RowsFit
    <3>3. \A r \in rows[s] : At(r) < At(tx[s]) /\ At(tx[s]) - At(r) <= Hour
      <4> TAKE r \in rows[s]
      <4>1. r \in history /\ u \in history /\ tx[s] \in Transaction
        BY <1>1 DEF IInv, TypeOK, HourBefore
      <4>2. At(r) \in Nat /\ At(u) \in Nat /\ At(tx[s]) \in Nat /\ Hour \in Nat
        BY <1>1, <4>1, WindowAssumption
           DEF IInv, TypeOK, EventAssumption, WindowAssumption
      <4>3. At(u) <= At(r) /\ At(r) < At(tx[s])
        BY <1>1, <2>1, <3>1 DEF RowsFit
      <4>4. At(tx[s]) - At(u) <= Hour
        BY DEF HourBefore
      <4> QED
        BY <4>2, <4>3, <4>4, SMT
    <3>4. Within(tx[s], rows[s], Hour) = rows[s]
      BY <3>3 DEF Within
    <3> QED
      BY <3>2, <3>4
  <2> QED
    BY <2>2, <2>3
<1>2. IInv => NothingRecentIsMissed
  BY <1>1 DEF NothingRecentIsMissed
<1> QED
  BY <1>2, Invariant, PTL

------------------------------------------------------------------------------
(* Replay *)

\* Rows are never deleted.
LEMMA HistoryGrows ==
  ASSUME [Next]_vars
  PROVE  history \subseteq history'
BY DEF Next, vars, tables, Begin, QueryTransactions, QueryDevice,
       QueryMerchant, QueryProfile, CalculateFeatures, Save, Abandon,
       Deny, SetFraudRate, UpsertProfile

\* A row that is later than t, or shares neither customer nor device with it,
\* is found by none of the queries for t.
LEMMA UnrelatedRowsAreNotFound ==
  ASSUME NEW t \in Transaction, history \subseteq history',
         ~ \E r \in history' \ history :
             /\ At(r) < At(t)
             /\ CustomerOf(r) = CustomerOf(t) \/ DeviceOf(r) = DeviceOf(t)
  PROVE  CustomerRows(t)' = CustomerRows(t) /\ DeviceRows(t)' = DeviceRows(t)
BY DEF CustomerRows, DeviceRows

\* A replay comes to the same features unless an earlier row of its customer
\* or device, or what operators say of it, is new.
THEOREM ReplaysAreStable == Spec => ReplayIsStable
<1>1. ASSUME [Next]_vars, NEW t \in Transaction,
             ~ \E r \in history' \ history :
                 /\ At(r) < At(t)
                 /\ CustomerOf(r) = CustomerOf(t) \/ DeviceOf(r) = DeviceOf(t),
             denied[DeviceOf(t)]' = denied[DeviceOf(t)],
             fraudRate[Event[t].merchant]' = fraudRate[Event[t].merchant],
             usual[CustomerOf(t)]' = usual[CustomerOf(t)]
      PROVE  Possible(t)' = Possible(t)
  <2>1. CustomerRows(t)' = CustomerRows(t) /\ DeviceRows(t)' = DeviceRows(t)
    BY <1>1, HistoryGrows, UnrelatedRowsAreNotFound
  <2>2. TransactionQuery(t)' = TransactionQuery(t)
    BY <2>1 DEF TransactionQuery
  <2>3. FirstSeen(t)' = FirstSeen(t)
    BY <2>1 DEF FirstSeen
  <2>4. DenyListed(t)' = DenyListed(t)
    BY <1>1 DEF DenyListed
  <2>5. DeviceQuery(t)' = DeviceQuery(t)
    BY <2>1, <2>3, <2>4 DEF DeviceQuery
  <2> QED
    BY <1>1, <2>2, <2>5 DEF Possible
<1>2. [Next]_vars =>
        [tables' # tables => \A t \in Transaction :
           \/ \E r \in history' \ history :
                /\ At(r) < At(t)
                /\ CustomerOf(r) = CustomerOf(t) \/ DeviceOf(r) = DeviceOf(t)
           \/ denied[DeviceOf(t)]' # denied[DeviceOf(t)]
           \/ fraudRate[Event[t].merchant]' # fraudRate[Event[t].merchant]
           \/ usual[CustomerOf(t)]' # usual[CustomerOf(t)]
           \/ Possible(t)' = Possible(t)]_vars
  BY <1>1
<1> QED
  BY <1>2, PTL DEF Spec, ReplayIsStable

------------------------------------------------------------------------------
(* Cold start *)

\* The features to save are those of the rows, the device, the rate and the
\* places that were loaded for the transaction.
THEOREM ResultsFit == Spec => [](\A s \in Scorer : ResultFits(s))
<1> DEFINE Fit == \A s \in Scorer : ResultFits(s)
<1>1. Init => Fit
  BY DEF Init, ResultFits
<1>2. ASSUME TypeOK, Fit, [Next]_vars
      PROVE  Fit'
  <2> SUFFICES ASSUME NEW s \in Scorer, pc'[s] = "save"
               PROVE  result'[s] \in Calculate(tx'[s], rows'[s], device'[s],
                                              rate'[s], places'[s])
    BY DEF ResultFits
  <2>1. CASE /\ pc[s] = "save"
             /\ UNCHANGED <<tx[s], rows[s], device[s], rate[s], places[s],
                            result[s]>>
    BY <1>2, <2>1 DEF ResultFits
  <2>2. CASE CalculateFeatures(s)
    BY <1>2, <2>2 DEF CalculateFeatures, loaded, TypeOK
  <2>3. CASE UNCHANGED <<pc, tx, rows, device, rate, places, result>>
    BY <2>1, <2>3
  <2>4. ASSUME NEW z \in Scorer,
               \/ \E t \in Transaction : Begin(z, t)
               \/ QueryTransactions(z)
               \/ QueryDevice(z)
               \/ QueryMerchant(z)
               \/ QueryProfile(z)
               \/ CalculateFeatures(z)
               \/ Save(z)
               \/ Abandon(z),
               ~CalculateFeatures(s)
        PROVE  /\ pc[s] = "save"
               /\ UNCHANGED <<tx[s], rows[s], device[s], rate[s], places[s],
                              result[s]>>
    <3>1. pc \in [Scorer -> {"idle", "transactions", "device", "merchant",
                             "profile", "calculate", "save"}]
      BY <1>2 DEF TypeOK
    <3>2. CASE z = s
      BY <2>4, <3>1, <3>2
      DEF Begin, QueryTransactions, QueryDevice, QueryMerchant, QueryProfile,
          Save, Abandon, Forget, Goto
    <3>3. CASE z # s
      BY <1>2, <2>4, <3>1, <3>3
      DEF Begin, QueryTransactions, QueryDevice, QueryMerchant, QueryProfile,
          CalculateFeatures, Save, Abandon, Forget, Goto, loaded, TypeOK
    <3>. QED
      BY <3>2, <3>3
  <2>. QED
    BY <1>2, <2>1, <2>2, <2>3, <2>4
    DEF Next, vars, loaded, Deny, SetFraudRate, UpsertProfile
<1>. QED
  BY <1>1, <1>2, TypeCorrect, PTL DEF Spec

\* The rules about amounts in the currency.
AmountRules ==
  {"AMOUNT_3X_NORMAL", "AMOUNT_5X_NORMAL", "AMOUNT_10X_NORMAL",
   "CARD_TESTING_PATTERN", "RARE_MERCHANT_CATEGORY"}

\* What is calculated for a transaction t from the earlier rows R.
LEMMA Calculated ==
  ASSUME NEW t, NEW loadedRows, NEW d, NEW r, NEW known,
         NEW f \in Calculate(t, loadedRows, d, r, known),
         NEW R, R = {q \in loadedRows : At(q) < At(t)}
  PROVE  /\ f.amount = AmountFeatures(t, R)
         /\ f.velocity = VelocityFeatures(t, R)
         /\ \E p \in Previous(R) : f.location = LocationFeatures(t, R, p, known)
BY DEF Calculate

\* The amounts that are counted are those in the currency, within the lookback.
LEMMA AmountsCounted ==
  ASSUME NEW t, NEW R
  PROVE  AmountFeatures(t, R).amount_history_count
           = Cardinality({r \in R : /\ Event[r].currency = Event[t].currency
                                    /\ At(t) - At(r) <= NormalLookback})
BY DEF AmountFeatures

\* Without an amount in the currency the ratio is neutral.
LEMMA NoAmounts ==
  ASSUME NEW t, NEW R, IsFiniteSet(R),
         AmountFeatures(t, R).amount_history_count = 0
  PROVE  AmountFeatures(t, R).amount_to_normal_ratio = Quotient(1, 1)
<1> DEFINE same == {r \in R : /\ Event[r].currency = Event[t].currency
                              /\ At(t) - At(r) <= NormalLookback}
<1>1. AmountFeatures(t, R).amount_history_count = Cardinality(same)
  BY AmountsCounted
<1>2. same = {}
  BY <1>1, FS_Subset, FS_EmptySet
<1>3. same = {} => AmountFeatures(t, R).amount_to_normal_ratio = Quotient(1, 1)
  BY DEF AmountFeatures
<1>. QED
  BY <1>2, <1>3

\* A rule that matches is one of the ruleset and its condition holds.
LEMMA RulesMatched ==
  ASSUME NEW f, NEW rule \in Matched(f)
  PROVE  /\ rule = "AMOUNT_3X_NORMAL" =>
              AtLeast(f.amount.amount_to_normal_ratio, 3, 1)
         /\ rule = "AMOUNT_5X_NORMAL" =>
              AtLeast(f.amount.amount_to_normal_ratio, 5, 1)
         /\ rule = "AMOUNT_10X_NORMAL" =>
              AtLeast(f.amount.amount_to_normal_ratio, 10, 1)
         /\ rule = "CARD_TESTING_PATTERN" =>
              4 * f.amount.amount_to_normal_ratio.num
                <= f.amount.amount_to_normal_ratio.den
         /\ rule = "VELOCITY_3_IN_2M" => f.velocity.transactions_previous_2m >= 3
         /\ rule = "VELOCITY_6_IN_2M" => f.velocity.transactions_previous_2m >= 6
         /\ rule = "UNUSUAL_REGION" => f.location.unusual_region
         /\ rule = "UNUSUAL_COUNTRY" => f.location.unusual_country
         /\ rule = "IMPOSSIBLE_TRAVEL" => f.location.impossible_travel
         /\ rule = "RARE_MERCHANT_CATEGORY" =>
              f.amount.amount_history_count > 0
         /\ rule \in EntityRules \cup AmountRules \cup
                     {"VELOCITY_3_IN_2M", "VELOCITY_6_IN_2M", "UNUSUAL_REGION",
                      "UNUSUAL_COUNTRY", "IMPOSSIBLE_TRAVEL"}
<1>1. rule \in DOMAIN Matches(f) /\ Matches(f)[rule]
  BY DEF Matched
<1>2. DOMAIN Matches(f) =
        EntityRules \cup AmountRules \cup
        {"VELOCITY_3_IN_2M", "VELOCITY_6_IN_2M", "UNUSUAL_REGION",
         "UNUSUAL_COUNTRY", "IMPOSSIBLE_TRAVEL"}
  BY DEF Matches, EntityRules, AmountRules
<1> DEFINE m == Matches(f)
<1>3. /\ m.AMOUNT_3X_NORMAL = AtLeast(f.amount.amount_to_normal_ratio, 3, 1)
      /\ m.AMOUNT_5X_NORMAL = AtLeast(f.amount.amount_to_normal_ratio, 5, 1)
      /\ m.AMOUNT_10X_NORMAL = AtLeast(f.amount.amount_to_normal_ratio, 10, 1)
      /\ m.CARD_TESTING_PATTERN =>
           4 * f.amount.amount_to_normal_ratio.num
             <= f.amount.amount_to_normal_ratio.den
      /\ m.VELOCITY_3_IN_2M = (f.velocity.transactions_previous_2m >= 3)
      /\ m.VELOCITY_6_IN_2M = (f.velocity.transactions_previous_2m >= 6)
      /\ m.UNUSUAL_REGION = f.location.unusual_region
      /\ m.UNUSUAL_COUNTRY = f.location.unusual_country
      /\ m.IMPOSSIBLE_TRAVEL = f.location.impossible_travel
      /\ m.RARE_MERCHANT_CATEGORY => f.amount.amount_history_count > 0
  BY DEF Matches
<1> HIDE DEF m
<1>. QED
  BY <1>1, <1>2, <1>3 DEF m

\* Without rows, and without a profile, nothing about places is unusual.
LEMMA NoRows ==
  ASSUME NEW t, NEW d, NEW r, NEW none, none = {},
         NEW f \in Calculate(t, none, d, r, NoPlaces)
  PROVE  /\ f.amount.amount_history_count = 0
         /\ f.velocity.transactions_previous_2m = 0
         /\ ~f.location.unusual_country
         /\ ~f.location.unusual_region
         /\ ~f.location.impossible_travel
<1>1. PICK R : R = {q \in none : At(q) < At(t)}
  OBVIOUS
<1>2. R = {}
  BY <1>1
<1>3. /\ f.amount = AmountFeatures(t, R)
      /\ f.velocity = VelocityFeatures(t, R)
      /\ f.location = LocationFeatures(t, R, Never, NoPlaces)
  <2>1. \A p \in Previous(R) : p = Never
    BY <1>2 DEF Previous
  <2>. QED
    BY <1>1, <2>1, Calculated
<1>4. f.amount.amount_history_count = 0
  BY <1>2, <1>3, AmountsCounted, FS_EmptySet
<1>5. f.velocity.transactions_previous_2m = 0
  <2>1. f.velocity.transactions_previous_2m = Cardinality(Within(t, R, TwoMinutes))
    BY <1>3 DEF VelocityFeatures
  <2>2. Within(t, R, TwoMinutes) = {}
    BY <1>2 DEF Within
  <2>. QED
    BY <2>1, <2>2, FS_EmptySet
<1>6. ~f.location.unusual_country /\ ~f.location.unusual_region
  <2>1. /\ NoPlaces.countries \cup {Event[q].country : q \in R} = {}
        /\ NoPlaces.regions \cup {Event[q].region : q \in R} = {}
    BY <1>2 DEF NoPlaces
  <2>2. /\ f.location.unusual_country
             = Unusual(Event[t].country,
                 NoPlaces.countries \cup {Event[q].country : q \in R})
        /\ f.location.unusual_region
             = Unusual(Event[t].region,
                 NoPlaces.regions \cup {Event[q].region : q \in R})
    BY <1>3 DEF LocationFeatures
  <2>. QED
    BY <2>1, <2>2 DEF Unusual
<1>7. ~f.location.impossible_travel
  <2>1. Km(t, Never) = 0 /\ Elapsed(t, Never) = 0
    BY DEF Km, Elapsed
  <2>2. SpeedLimit * 0 = 0
    BY WindowAssumption DEF WindowAssumption
  <2>3. f.location.impossible_travel
          = (/\ Km(t, Never) >= MinimumKm
             /\ Km(t, Never) > SpeedLimit * Elapsed(t, Never))
    BY <1>3 DEF LocationFeatures
  <2>. QED
    BY <2>1, <2>2, <2>3
<1>. QED
  BY <1>4, <1>5, <1>6, <1>7

\* No rule about amounts matches without an amount to compare to.
LEMMA NoAmountsNoRules ==
  ASSUME NEW t, NEW R, IsFiniteSet(R), NEW f, f.amount = AmountFeatures(t, R),
         f.amount.amount_history_count = 0
  PROVE  Matched(f) \cap AmountRules = {}
<1>1. f.amount.amount_to_normal_ratio = Quotient(1, 1)
  BY NoAmounts
<1> DEFINE ratio == f.amount.amount_to_normal_ratio
<1>2. /\ ~AtLeast(ratio, 3, 1) /\ ~AtLeast(ratio, 5, 1)
      /\ ~AtLeast(ratio, 10, 1) /\ ~(4 * ratio.num <= ratio.den)
      /\ ~(f.amount.amount_history_count > 0)
  BY <1>1 DEF AtLeast, Quotient
<1>. QED
  BY <1>2, RulesMatched DEF AmountRules

\* A customer without rows and profile meets only rules about the device, the
\* merchant and the declared failures, and without amounts in the currency no
\* rule about amounts or rarity matches, whatever the windows and limits.
THEOREM ColdStartsAreNeutral == Spec => []ColdStartIsNeutral
<1>1. ASSUME TypeOK, NEW s \in Scorer, ResultFits(s), pc[s] = "save"
      PROVE  /\ rows[s] = {} /\ places[s] = NoPlaces
                  => Matched(result[s]) \subseteq EntityRules
             /\ result[s].amount.amount_history_count = 0
                  => Matched(result[s]) \cap AmountRules = {}
  <2> DEFINE f == result[s]
             R == {q \in rows[s] : At(q) < At(tx[s])}
  <2>1. f \in Calculate(tx[s], rows[s], device[s], rate[s], places[s])
    BY <1>1 DEF ResultFits
  <2>2. f.amount = AmountFeatures(tx[s], R)
    BY <2>1, Calculated
  <2>3. IsFiniteSet(R)
    <3>1. R \subseteq Transaction
      BY <1>1 DEF TypeOK
    <3>. QED
      BY <3>1, EventAssumption, FS_Subset DEF EventAssumption
  <2>4. f.amount.amount_history_count = 0 => Matched(f) \cap AmountRules = {}
    <3> HIDE DEF f, R
    <3>. QED
      BY <2>2, <2>3, NoAmountsNoRules
  <2>5. ASSUME rows[s] = {}, places[s] = NoPlaces
        PROVE  Matched(f) \subseteq EntityRules
    <3>1. /\ f.amount.amount_history_count = 0
          /\ f.velocity.transactions_previous_2m = 0
          /\ ~f.location.unusual_country
          /\ ~f.location.unusual_region
          /\ ~f.location.impossible_travel
      BY <2>1, <2>5, NoRows
    <3> HIDE DEF f
    <3>. QED
      BY <2>4, <3>1, RulesMatched
  <2>. QED
    BY <2>4, <2>5
<1>2. TypeOK /\ (\A s \in Scorer : ResultFits(s)) => ColdStartIsNeutral
  BY <1>1 DEF ColdStartIsNeutral, AmountRules
<1>. QED
  BY <1>2, TypeCorrect, ResultsFit, PTL
==============================================================================
