--------------------------- MODULE CustomerFeatures ---------------------------
(***************************************************************************)
(* Where the features of a transaction come from: PostgresHistoryProvider  *)
(* reads four tables, one statement after the other, and                   *)
(* CustomerFeatureCalculator turns what it got into the values the rules   *)
(* and the model use.  Each statement sees what is committed when it runs, *)
(* while other scorers store their transactions and operators change the   *)
(* deny list, the merchant profiles and the customer profiles.             *)
(*                                                                         *)
(* Numbers: times and distances are naturals, a quotient is a pair of      *)
(* numerator and denominator, the z-score is kept squared.  Rounding to    *)
(* six places is left out.                                                 *)
(***************************************************************************)
EXTENDS Naturals, Integers, FiniteSets, FiniteSetsExt, SequencesExt

CONSTANTS
  Scorer,          \* workers and request threads
  Transaction,     \* the transactions
  Event,           \* Event[t]: the payload of t
  Merchant, Device, Customer,
  Distance,        \* Distance[p, q]: kilometres between two places
  TwoMinutes, TenMinutes, Hour,        \* the windows
  RecentMaxLookback, NormalLookback,   \* FeatureCalculatorConfig
  MinimumKm, SpeedLimit,               \* kilometres, and per unit of time
  HistoryLookback, TransactionLimit,   \* PostgresHistorySettings
  Listings,        \* entries an operator may put on the deny list
  FraudRates,      \* rates in per cent
  UsualPlaces,     \* profiles: [countries |-> a set, regions |-> a set]
  Never            \* no time: never seen, never expires, not listed

At(t) == Event[t].time
DeviceOf(t) == Event[t].device
CustomerOf(t) == Event[t].customer

ASSUME EventAssumption ==
  /\ IsFiniteSet(Transaction)
  /\ \A t \in Transaction :
       /\ At(t) \in Nat
       /\ Event[t].amount \in Nat \ {0}
       /\ CustomerOf(t) \in Customer
       /\ DeviceOf(t) \in Device
       /\ Event[t].merchant \in Merchant
  /\ Never \notin Nat

ASSUME WindowAssumption ==
  /\ {TwoMinutes, TenMinutes, Hour, HistoryLookback} \subseteq Nat
  /\ Hour <= HistoryLookback
  /\ TransactionLimit \in Nat \ {0}
  /\ MinimumKm \in Nat /\ SpeedLimit \in Nat \ {0}

VARIABLES
  history,   \* transaction_history: the transactions with a committed row
  denied,    \* device_deny_list: denied[d], or Never
  fraudRate, \* merchant_risk_profiles
  usual,     \* customer_profiles: the usual places, or the home
  pc,        \* the next step of each scorer
  tx,        \* the transaction it scores, or Never
  began,     \* the rows that were committed when it began
  rows,      \* what the transaction query returned
  device,    \* what the device query returned
  rate,      \* what the merchant query returned
  places,    \* what the profile query returned
  result     \* the FeatureSet

tables == <<history, denied, fraudRate, usual>>
loaded == <<rows, device, rate, places>>
vars == <<tables, pc, tx, began, loaded, result>>

Goto(s, label) == pc' = [pc EXCEPT ![s] = label]

NoPlaces == [countries |-> {}, regions |-> {}]
NoDevice == [first_seen |-> Never, account_count |-> 0, deny_listed |-> FALSE]

Init ==
  /\ history = {}
  /\ denied = [d \in Device |-> Never]
  /\ fraudRate = [m \in Merchant |-> 0]
  /\ usual = [c \in Customer |-> NoPlaces]
  /\ pc = [s \in Scorer |-> "idle"]
  /\ tx = [s \in Scorer |-> Never]
  /\ began = [s \in Scorer |-> {}]
  /\ rows = [s \in Scorer |-> {}]
  /\ device = [s \in Scorer |-> NoDevice]
  /\ rate = [s \in Scorer |-> 0]
  /\ places = [s \in Scorer |-> NoPlaces]
  /\ result = [s \in Scorer |-> Never]

------------------------------------------------------------------------------
(* The four queries *)

CustomerRows(t) ==
  {r \in history : /\ CustomerOf(r) = CustomerOf(t)
                   /\ At(r) < At(t)
                   /\ At(t) - At(r) <= HistoryLookback}

\* Defect: the oldest rows are kept instead of the latest.
TransactionQueryOldest(t) ==
  {R \in SUBSET CustomerRows(t) :
     /\ Cardinality(R) <= TransactionLimit
     /\ Cardinality(R) = TransactionLimit \/ R = CustomerRows(t)
     /\ \A r \in R, u \in CustomerRows(t) \ R : At(r) <= At(u)}

\* The latest rows, up to the limit; among rows of one time any may be cut.
TransactionQuery(t) ==
  {R \in SUBSET CustomerRows(t) :
     /\ Cardinality(R) <= TransactionLimit
     /\ Cardinality(R) = TransactionLimit \/ R = CustomerRows(t)
     /\ \A r \in R, u \in CustomerRows(t) \ R : At(u) <= At(r)}

\* Defect: the row of the transaction itself counts when it is replayed.
DeviceRowsWithOwn(t) ==
  {r \in history : DeviceOf(r) = DeviceOf(t) /\ At(r) <= At(t)}

\* Defect: a window applies to the device query, too.
DeviceRowsRecent(t) ==
  {r \in history : DeviceOf(r) = DeviceOf(t) /\ At(r) < At(t)
                     /\ At(t) - At(r) <= TwoMinutes}

\* Of all customers, and however long ago.
DeviceRows(t) ==
  {r \in history : DeviceOf(r) = DeviceOf(t) /\ At(r) < At(t)}

\* added_at is not looked at.
DenyListed(t) ==
  LET entry == denied[DeviceOf(t)] IN
  /\ entry # Never
  /\ entry.expires = Never \/ entry.expires > At(t)

\* MIN(transaction_time)
FirstSeen(t) ==
  IF DeviceRows(t) = {} THEN {Never}
  ELSE {At(r) : r \in {q \in DeviceRows(t) :
                         \A p \in DeviceRows(t) : At(q) <= At(p)}}

DeviceQuery(t) ==
  {[first_seen |-> f,
    account_count |-> Cardinality({Event[r].account : r \in DeviceRows(t)}),
    deny_listed |-> DenyListed(t)] : f \in FirstSeen(t)}

------------------------------------------------------------------------------
(* The calculator, for a transaction t and the rows R of its customer *)

Quotient(n, d) == [num |-> n, den |-> d]

Amount(r) == Event[r].amount

Within(t, R, window) == {r \in R : At(r) < At(t) /\ At(t) - At(r) <= window}

\* Twice the median.
DoubledMedian(R) ==
  LET sorted == SetToSortSeq(R, LAMBDA q, r : Amount(q) < Amount(r))
      n == Cardinality(R)
  IN Amount(sorted[(n + 1) \div 2]) + Amount(sorted[n \div 2 + 1])

\* Squared: the z-score, or the relative deviation from the median when all
\* amounts are equal.  The spread is n * n times the variance.
Deviation(amount, n, total, spread, median2) ==
  IF n = 0 THEN Quotient(0, 1)
  ELSE IF spread > 0
  THEN Quotient((n * amount - total) * (n * amount - total), spread)
  ELSE Quotient((2 * amount - median2) * (2 * amount - median2),
                median2 * median2)

AmountFeatures(t, R) ==
  LET same == {r \in R : /\ Event[r].currency = Event[t].currency
                         /\ At(t) - At(r) <= NormalLookback}
      recent == {r \in same : At(t) - At(r) <= RecentMaxLookback}
      n == Cardinality(same)
      total == MapThenSumSet(Amount, same)
      squares == MapThenSumSet(LAMBDA r : Amount(r) * Amount(r), same)
      median2 == IF same = {} THEN 0 ELSE DoubledMedian(same)
  IN [amount_history_count |-> n,
      customer_average_amount |->
        IF same = {} THEN Quotient(0, 1) ELSE Quotient(total, n),
      customer_doubled_median |-> median2,
      recent_max_amount |->
        IF recent = {} THEN 0 ELSE Max({Amount(r) : r \in recent}),
      amount_to_normal_ratio |->
        IF same = {} THEN Quotient(1, 1) ELSE Quotient(2 * Amount(t), median2),
      amount_deviation_squared |->
        Deviation(Amount(t), n, total, n * squares - total * total, median2)]

VelocityFeatures(t, R) ==
  [transactions_previous_2m |-> Cardinality(Within(t, R, TwoMinutes)),
   transactions_previous_1h |-> Cardinality(Within(t, R, Hour)),
   amount_spent_previous_2m |-> MapThenSumSet(Amount, Within(t, R, TwoMinutes)),
   amount_spent_previous_1h |-> MapThenSumSet(Amount, Within(t, R, Hour)),
   recent_merchant_count_1h |->
     Cardinality({Event[r].merchant : r \in Within(t, R, Hour)})]

DeviceIsNew(t, R, d) ==
  \/ Event[t].trust = "new"
  \/ DeviceOf(t) \notin {DeviceOf(r) : r \in R} /\ d.first_seen = Never

DeviceFeatures(t, R, d) ==
  [device_is_new |-> DeviceIsNew(t, R, d),
   device_account_count |-> d.account_count,
   device_age |-> IF d.first_seen = Never THEN 0 ELSE At(t) - d.first_seen,
   device_deny_listed |-> Event[t].trust = "deny_listed" \/ d.deny_listed]

\* max takes the first row of the latest time, in the order of the query.
Previous(R) ==
  IF R = {} THEN {Never} ELSE {r \in R : \A q \in R : At(q) <= At(r)}

Km(t, p) == IF p = Never THEN 0 ELSE Distance[Event[p].place, Event[t].place]
Elapsed(t, p) == IF p = Never THEN 0 ELSE At(t) - At(p)

\* Defect: a place is unusual when nothing is known.
UnusualUnlessSeen(here, seen) == here \notin seen

Unusual(here, seen) == seen # {} /\ here \notin seen

LocationFeatures(t, R, p, known) ==
  [previous_location_known |-> p # Never,
   distance_from_previous |-> Km(t, p),
   time_since_previous |-> Elapsed(t, p),
   travel_speed |-> IF p = Never THEN Quotient(0, 1)
                    ELSE Quotient(Km(t, p), Elapsed(t, p)),
   impossible_travel |-> /\ Km(t, p) >= MinimumKm
                         /\ Km(t, p) > SpeedLimit * Elapsed(t, p),
   unusual_country |-> Unusual(Event[t].country,
                         known.countries \cup {Event[r].country : r \in R}),
   unusual_region |-> Unusual(Event[t].region,
                        known.regions \cup {Event[r].region : r \in R})]

MerchantFeatures(t, R, r) ==
  LET others == {q \in R : Event[q].category # Event[t].category}
  IN [merchant_category_rarity |->
        IF R = {} THEN Quotient(0, 1)
        ELSE Quotient(Cardinality(others), Cardinality(R)),
      merchant_is_new |-> Event[t].merchant \notin {Event[q].merchant : q \in R},
      merchant_fraud_rate |-> r]

AuthenticationFeatures(t, R) ==
  LET recorded == {r \in Within(t, R, TenMinutes) : Event[r].auth = "failure"}
      declared == Event[t].declared_failures
      failures == IF Cardinality(recorded) > declared
                  THEN Cardinality(recorded) ELSE declared
  IN [recent_authentication_failures_10m |-> failures,
      authentication_failures_then_success |->
        Event[t].auth = "success" /\ failures > 0]

\* The FeatureSets that calculate may return, one for each choice of the
\* previous transaction.
Calculate(t, loadedRows, d, r, known) ==
  LET R == {q \in loadedRows : At(q) < At(t)} IN
  {[amount |-> AmountFeatures(t, R),
    velocity |-> VelocityFeatures(t, R),
    device |-> DeviceFeatures(t, R, d),
    location |-> LocationFeatures(t, R, p, known),
    merchant |-> MerchantFeatures(t, R, r),
    authentication |-> AuthenticationFeatures(t, R)] : p \in Previous(R)}

------------------------------------------------------------------------------
(* A scorer *)

Begin(s, t) ==
  /\ pc[s] = "idle"
  /\ tx' = [tx EXCEPT ![s] = t]
  /\ began' = [began EXCEPT ![s] = history]
  /\ Goto(s, "transactions")
  /\ UNCHANGED <<tables, loaded, result>>

QueryTransactions(s) ==
  /\ pc[s] = "transactions"
  /\ \E R \in TransactionQuery(tx[s]) : rows' = [rows EXCEPT ![s] = R]
  /\ Goto(s, "device")
  /\ UNCHANGED <<tables, tx, began, device, rate, places, result>>

QueryDevice(s) ==
  /\ pc[s] = "device"
  /\ \E d \in DeviceQuery(tx[s]) : device' = [device EXCEPT ![s] = d]
  /\ Goto(s, "merchant")
  /\ UNCHANGED <<tables, tx, began, rows, rate, places, result>>

QueryMerchant(s) ==
  /\ pc[s] = "merchant"
  /\ rate' = [rate EXCEPT ![s] = fraudRate[Event[tx[s]].merchant]]
  /\ Goto(s, "profile")
  /\ UNCHANGED <<tables, tx, began, rows, device, places, result>>

QueryProfile(s) ==
  /\ pc[s] = "profile"
  /\ places' = [places EXCEPT ![s] = usual[CustomerOf(tx[s])]]
  /\ Goto(s, "calculate")
  /\ UNCHANGED <<tables, tx, began, rows, device, rate, result>>

CalculateFeatures(s) ==
  /\ pc[s] = "calculate"
  /\ \E f \in Calculate(tx[s], rows[s], device[s], rate[s], places[s]) :
       result' = [result EXCEPT ![s] = f]
  /\ Goto(s, "save")
  /\ UNCHANGED <<tables, tx, began, loaded>>

Forget(s) ==
  /\ began' = [began EXCEPT ![s] = {}]
  /\ rows' = [rows EXCEPT ![s] = {}]
  /\ device' = [device EXCEPT ![s] = NoDevice]
  /\ rate' = [rate EXCEPT ![s] = 0]
  /\ places' = [places EXCEPT ![s] = NoPlaces]
  /\ result' = [result EXCEPT ![s] = Never]
  /\ tx' = [tx EXCEPT ![s] = Never]
  /\ Goto(s, "idle")

\* The row of the transaction is committed, or was there already.
Save(s) ==
  /\ pc[s] = "save"
  /\ history' = history \cup {tx[s]}
  /\ Forget(s)
  /\ UNCHANGED <<denied, fraudRate, usual>>

\* An exception, or a crash.
Abandon(s) ==
  /\ pc[s] # "idle"
  /\ Forget(s)
  /\ UNCHANGED tables

------------------------------------------------------------------------------
(* Operators *)

Deny(d, entry) ==
  /\ denied' = [denied EXCEPT ![d] = entry]
  /\ UNCHANGED <<history, fraudRate, usual, pc, tx, began, loaded, result>>

SetFraudRate(m, r) ==
  /\ fraudRate' = [fraudRate EXCEPT ![m] = r]
  /\ UNCHANGED <<history, denied, usual, pc, tx, began, loaded, result>>

UpsertProfile(c, known) ==
  /\ usual' = [usual EXCEPT ![c] = known]
  /\ UNCHANGED <<history, denied, fraudRate, pc, tx, began, loaded, result>>

Next ==
  \/ \E s \in Scorer :
       \/ \E t \in Transaction : Begin(s, t)
       \/ QueryTransactions(s)
       \/ QueryDevice(s)
       \/ QueryMerchant(s)
       \/ QueryProfile(s)
       \/ CalculateFeatures(s)
       \/ Save(s)
       \/ Abandon(s)
  \/ \E d \in Device, entry \in Listings : Deny(d, entry)
  \/ \E m \in Merchant, r \in FraudRates : SetFraudRate(m, r)
  \/ \E c \in Customer, known \in UsualPlaces : UpsertProfile(c, known)

Spec == Init /\ [][Next]_vars

------------------------------------------------------------------------------
(* rulesets/mvp-v1.yaml *)

AtLeast(q, n, d) == q.num * d >= n * q.den

\* Which of the packaged rules match the features f.
Matches(f) ==
  LET ratio == f.amount.amount_to_normal_ratio
      in2m == f.velocity.transactions_previous_2m
      failures == f.authentication.recent_authentication_failures_10m
  IN
  [AMOUNT_3X_NORMAL |-> AtLeast(ratio, 3, 1),
   AMOUNT_5X_NORMAL |-> AtLeast(ratio, 5, 1),
   AMOUNT_10X_NORMAL |-> AtLeast(ratio, 10, 1),
   VELOCITY_3_IN_2M |-> in2m >= 3,
   VELOCITY_6_IN_2M |-> in2m >= 6,
   CARD_TESTING_PATTERN |-> /\ 4 * ratio.num <= ratio.den
                            /\ f.velocity.recent_merchant_count_1h >= 4
                            /\ in2m >= 3,
   NEW_DEVICE |-> f.device.device_is_new,
   SHARED_DEVICE |-> f.device.device_account_count >= 3,
   DENY_LISTED_DEVICE |-> f.device.device_deny_listed,
   UNUSUAL_REGION |-> f.location.unusual_region,
   UNUSUAL_COUNTRY |-> f.location.unusual_country,
   IMPOSSIBLE_TRAVEL |-> f.location.impossible_travel,
   AUTH_FAILURES_3 |-> failures >= 3,
   AUTH_FAILURES_THEN_SUCCESS_5 |->
     failures >= 5 /\ f.authentication.authentication_failures_then_success,
   RARE_MERCHANT_CATEGORY |->
     /\ AtLeast(f.merchant.merchant_category_rarity, 4, 5)
     /\ f.amount.amount_history_count > 0,
   HIGH_RISK_MERCHANT |-> f.merchant.merchant_fraud_rate >= 10]

Matched(f) == {rule \in DOMAIN Matches(f) : Matches(f)[rule]}

------------------------------------------------------------------------------
(* Properties *)

\* Every variable has its type, and a scorer at work has a transaction.
TypeOK ==
  /\ history \subseteq Transaction
  /\ denied \in [Device -> Listings \cup {Never}]
  /\ fraudRate \in [Merchant -> FraudRates \cup {0}]
  /\ usual \in [Customer -> UsualPlaces \cup {NoPlaces}]
  /\ pc \in [Scorer -> {"idle", "transactions", "device", "merchant",
                        "profile", "calculate", "save"}]
  /\ tx \in [Scorer -> Transaction \cup {Never}]
  /\ \A s \in Scorer : pc[s] # "idle" => tx[s] \in Transaction
  /\ began \in [Scorer -> SUBSET history]
  /\ rows \in [Scorer -> SUBSET history]
  /\ device \in [Scorer -> [first_seen : Nat \cup {Never},
                           account_count : Nat, deny_listed : BOOLEAN]]
  /\ rate \in [Scorer -> FraudRates \cup {0}]
  /\ places \in [Scorer -> UsualPlaces \cup {NoPlaces}]
  /\ DOMAIN result = Scorer
  /\ \A s \in Scorer : pc[s] # "save" => result[s] = Never

\* What a scoring of t may come to if the tables stay as they are.
Possible(t) ==
  UNION {Calculate(t, R, d, fraudRate[Event[t].merchant],
                   usual[CustomerOf(t)]) :
           R \in TransactionQuery(t), d \in DeviceQuery(t)}

\* A redelivered or replayed transaction scores as before, although its own
\* row and later ones are stored by then: only an earlier row of its customer
\* or device, or a change of its device's listing, its merchant or its
\* customer's profile can make a difference.
ReplayIsStable ==
  [][tables' # tables => \A t \in Transaction :
       \/ \E r \in history' \ history :
            /\ At(r) < At(t)
            /\ CustomerOf(r) = CustomerOf(t) \/ DeviceOf(r) = DeviceOf(t)
       \/ denied[DeviceOf(t)]' # denied[DeviceOf(t)]
       \/ fraudRate[Event[t].merchant]' # fraudRate[Event[t].merchant]
       \/ usual[CustomerOf(t)]' # usual[CustomerOf(t)]
       \/ Possible(t)' = Possible(t)]_vars

\* The queries see different snapshots, and yet a device among the rows of the
\* customer is never one that the device query has not seen by then.
QueriesAgree ==
  \A s \in Scorer : pc[s] \in {"merchant", "profile", "calculate", "save"} =>
    \A r \in rows[s] : DeviceOf(r) = DeviceOf(tx[s]) =>
      /\ device[s].first_seen # Never
      /\ device[s].first_seen <= At(r)

\* Whatever the lookback and the limit cut off, a device is not new once an
\* earlier transaction with it was stored before the scoring began.
OnceSeenNeverNew ==
  \A s \in Scorer :
    /\ pc[s] = "save"
    /\ result[s].device.device_is_new
    /\ Event[tx[s]].trust # "new"
    => \A r \in began[s] :
         DeviceOf(r) = DeviceOf(tx[s]) => At(r) >= At(tx[s])

\* What was stored in the last hour when the scoring began, or rows enough to
\* reach the limit.
HourBefore(s) ==
  {r \in began[s] : /\ CustomerOf(r) = CustomerOf(tx[s])
                    /\ At(r) < At(tx[s])
                    /\ At(tx[s]) - At(r) <= Hour}

\* The limit cuts off old rows only: the transactions of the last hour that
\* were stored when the scoring began all count for the velocity, unless they
\* alone reach the limit.
NothingRecentIsMissed ==
  \A s \in Scorer : pc[s] = "save" =>
    LET counted == Within(tx[s], rows[s], Hour)
    IN HourBefore(s) \subseteq counted \/ Cardinality(counted) = TransactionLimit

EntityRules ==
  {"NEW_DEVICE", "SHARED_DEVICE", "DENY_LISTED_DEVICE", "AUTH_FAILURES_3",
   "AUTH_FAILURES_THEN_SUCCESS_5", "HIGH_RISK_MERCHANT"}

\* Without rows and profile only rules about the device, the merchant and the
\* declared failures match; without amounts in the currency none about
\* amounts or rarity does.
ColdStartIsNeutral ==
  \A s \in Scorer : pc[s] = "save" =>
    /\ rows[s] = {} /\ places[s] = NoPlaces
         => Matched(result[s]) \subseteq EntityRules
    /\ result[s].amount.amount_history_count = 0
         => Matched(result[s]) \cap
              {"AMOUNT_3X_NORMAL", "AMOUNT_5X_NORMAL", "AMOUNT_10X_NORMAL",
               "CARD_TESTING_PATTERN", "RARE_MERCHANT_CATEGORY"} = {}

\* What a scorer is about to save comes from what it has loaded.
ResultFits(s) ==
  pc[s] = "save" =>
    result[s] \in Calculate(tx[s], rows[s], device[s], rate[s], places[s])

\* What the transaction query returned is still stored, and misses a row of
\* the last hour only if it is at its limit with later ones.
RowsFit(s) ==
  pc[s] \notin {"idle", "transactions"} =>
    /\ rows[s] \subseteq {r \in history : At(r) < At(tx[s])}
    /\ Cardinality(rows[s]) = TransactionLimit \/ HourBefore(s) \subseteq rows[s]
    /\ \A r \in rows[s], u \in HourBefore(s) \ rows[s] : At(u) <= At(r)

\* The device query has seen every row that was there before it.
DeviceFits(s) ==
  pc[s] \in {"merchant", "profile", "calculate", "save"} =>
    /\ device[s].first_seen = Never =>
         \A r \in began[s] \cup rows[s] :
           DeviceOf(r) = DeviceOf(tx[s]) => At(r) >= At(tx[s])
    /\ device[s].first_seen # Never =>
         \A r \in rows[s] :
           DeviceOf(r) = DeviceOf(tx[s]) => device[s].first_seen <= At(r)

\* The inductive invariant.
IInv ==
  /\ TypeOK
  /\ \A s \in Scorer : RowsFit(s) /\ DeviceFits(s)
  /\ OnceSeenNeverNew
==============================================================================
