------------------------ MODULE DecisionStorageProofs ------------------------
(***************************************************************************)
(* However many sessions store decisions and profiles at the same time,    *)
(* and wherever they fail: decisions are stored with all that belongs to   *)
(* them or not at all, nobody loses a decision to a conflict, nobody waits *)
(* in a circle, and the callers see one-step calls (DecisionStore).        *)
(***************************************************************************)
EXTENDS DecisionStorage, TLAPS

------------------------------------------------------------------------------
(* What a step touches *)

\* Only the session that makes a step changes its pc and its call.
OthersWait(s) ==
  \A u \in Session \ {s} : pc'[u] = pc[u] /\ call'[u] = call[u]

LEMMA OthersSame ==
  ASSUME TypeOK, NEW s \in Session, OthersWait(s), NEW u \in Session \ {s}
  PROVE  /\ \A c : HoldsCustomer(u, c)' <=> HoldsCustomer(u, c)
         /\ \A e : HoldsEvent(u, e)' <=> HoldsEvent(u, e)
         /\ \A t : HoldsTransaction(u, t)' <=> HoldsTransaction(u, t)
BY DEF OthersWait, HoldsCustomer, HoldsEvent, HoldsTransaction, EventAt,
       TransactionAt, PayloadOf

\* What the call of a session in process is about.
LEMMA Parameters ==
  ASSUME TypeOK, NEW s \in Session, pc[s] \in InCall
  PROVE  /\ call[s] \in Call
         /\ call[s].decision \in Candidate
         /\ PayloadOf(s) \in Payload
         /\ EventAt(s) \in Event
         /\ TransactionAt(s) \in Transaction
         /\ TimeOf[PayloadOf(s)] \in Nat
         /\ call[s].row \in CustomerRow
         /\ call[s].customer \in Customer
<1>1. /\ call[s] \in Call
      /\ call[s].decision \in Candidate
  BY DEF TypeOK, InCall, Call
<1>2. PayloadOf(s) \in Payload
  BY <1>1 DEF PayloadOf, Candidate
<1>. QED
  BY <1>1, <1>2, StorageAssumption DEF EventAt, TransactionAt, Call

LEMMA CallParameters ==
  ASSUME TypeOK, NEW s \in Session, pc[s] # "idle"
  PROVE  /\ call[s] \in Call
         /\ call[s].customer \in Customer
         /\ call[s].row \in CustomerRow
         /\ call[s].profile \in Profile \cup {Nothing}
BY DEF TypeOK, Call

\* A new call is a call.
LEMMA NewCallType ==
  ASSUME NEW c \in Customer, NEW d \in Candidate \cup {Nothing},
         NEW p \in Profile \cup {Nothing}
  PROVE  /\ NewCall(c, d, p) \in Call
         /\ NewCall(c, d, p).customer = c
         /\ NewCall(c, d, p).decision = d
         /\ NewCall(c, d, p).inserted = FALSE
BY DEF NewCall, Call, CustomerRow

LEMMA CandidateType ==
  ASSUME NEW d \in Candidate
  PROVE  /\ d # Nothing
         /\ d.payload \in Payload
         /\ EventOf[d.payload] \in Event
         /\ CustomerOf[d.payload] \in Customer
<1>1. d # Nothing
  BY StorageAssumption DEF Candidate
<1>. QED
  BY <1>1, StorageAssumption DEF Candidate

\* What a step does to pc, call and told: a session ends its call, starts
\* one, or goes on with its own.
Moves(s) ==
  /\ OthersWait(s)
  /\ pc' \in [Session -> InCall \cup {"idle", "edit", "edited"}]
  /\ call' \in [Session -> Call \cup {Nothing}]
  /\ told' \in [Session -> Candidate \cup {Nothing}]
  /\ IF pc'[s] = "idle" THEN call'[s] = Nothing ELSE call'[s] \in Call
  /\ pc'[s] \in InCall => call'[s].decision # Nothing

LEMMA ReturnMoves ==
  ASSUME TypeOK, NEW s \in Session, NEW d \in Candidate \cup {Nothing},
         Return(s, d)
  PROVE  Moves(s)
BY DEF TypeOK, Return, Goto, Moves, OthersWait, InCall

LEMMA StepMoves ==
  ASSUME TypeOK, [Next]_vars
  PROVE  UNCHANGED <<pc, call, told>> \/ \E s \in Session : Moves(s)
<1>1. ASSUME NEW s \in Session, NEW d \in Candidate, Lookup(s, d)
      PROVE  Moves(s)
  <2>1. CASE decisions[EventOf[d.payload]] # Nothing
    <3>1. decisions[EventOf[d.payload]] \in Candidate \cup {Nothing}
      BY CandidateType DEF TypeOK
    <3>. QED
      BY <1>1, <2>1, <3>1, ReturnMoves DEF Lookup
  <2>2. CASE decisions[EventOf[d.payload]] = Nothing
    <3> DEFINE n == NewCall(CustomerOf[d.payload], d, Nothing)
    <3>1. n \in Call /\ n.decision # Nothing
      <4>1. CustomerOf[d.payload] \in Customer /\ d # Nothing
        BY CandidateType
      <4>2. /\ d \in Candidate \cup {Nothing}
            /\ Nothing \in Profile \cup {Nothing}
        OBVIOUS
      <4>. QED
        BY <4>1, <4>2, NewCallType
    <3>2. /\ pc' = [pc EXCEPT ![s] = "shell"]
          /\ call' = [call EXCEPT ![s] = n]
          /\ told' = told
      BY <1>1, <2>2 DEF Lookup, Goto
    <3>. QED
      BY <3>1, <3>2 DEF TypeOK, Moves, OthersWait, InCall
  <2>. QED
    BY <2>1, <2>2
<1>2. ASSUME NEW s \in Session, UpsertShell(s)
      PROVE  Moves(s)
  <2> DEFINE r == [customers[call[s].customer] EXCEPT
                     !.last = Later(@, TimeOf[PayloadOf(s)])]
             n == [call[s] EXCEPT !.row = r]
  <2>1. pc[s] \in InCall
    BY <1>2 DEF UpsertShell, InCall
  <2>2. r \in CustomerRow
    BY <2>1, Parameters DEF TypeOK, CustomerRow, Later
  <2>3. n \in Call /\ n.decision = call[s].decision
    BY <2>1, <2>2, Parameters DEF Call
  <2>4. /\ pc' = [pc EXCEPT ![s] = "event"]
        /\ call' = [call EXCEPT ![s] = n]
        /\ told' = told
    BY <1>2 DEF UpsertShell, Goto
  <2>. QED
    BY <2>1, <2>3, <2>4 DEF TypeOK, Moves, OthersWait, InCall
<1>3. ASSUME NEW s \in Session, InsertEventKey(s)
      PROVE  Moves(s)
  BY <1>3 DEF TypeOK, Moves, OthersWait, InCall, InsertEventKey, Goto
<1>4. ASSUME NEW s \in Session, InsertTransactionKey(s)
      PROVE  Moves(s)
  <2>1. CASE TransactionKnown(TransactionAt(s))
    BY <1>4, <2>1, ReturnMoves DEF InsertTransactionKey
  <2>2. CASE ~TransactionKnown(TransactionAt(s))
    <3> DEFINE n == [call[s] EXCEPT !.inserted = TRUE]
    <3>1. pc[s] \in InCall
      BY <1>4 DEF InsertTransactionKey, InCall
    <3>2. n \in Call /\ n.decision = call[s].decision
      BY <3>1, Parameters DEF Call
    <3>3. /\ pc' = [pc EXCEPT ![s] = "decision"]
          /\ call' = [call EXCEPT ![s] = n]
          /\ told' = told
      BY <1>4, <2>2 DEF InsertTransactionKey, Goto
    <3>. QED
      BY <3>1, <3>2, <3>3 DEF TypeOK, Moves, OthersWait, InCall
  <2>. QED
    BY <2>1, <2>2
<1>5. ASSUME NEW s \in Session, InsertDecision(s)
      PROVE  Moves(s)
  <2>1. CASE Return(s, Nothing)
    BY <2>1, ReturnMoves
  <2>2. CASE ~Return(s, Nothing)
    BY <1>5, <2>2 DEF TypeOK, Moves, OthersWait, InCall, InsertDecision, Goto
  <2>. QED
    BY <2>1, <2>2
<1>6. ASSUME NEW s \in Session, CommitDecision(s)
      PROVE  Moves(s)
  <2>1. call[s].decision \in Candidate
    BY <1>6, Parameters DEF CommitDecision, InCall
  <2>. QED
    BY <1>6, <2>1, ReturnMoves DEF CommitDecision
<1>7. ASSUME NEW s \in Session, CommitConflict(s)
      PROVE  Moves(s)
  BY <1>7 DEF TypeOK, Moves, OthersWait, InCall, CommitConflict, Goto
<1>8. ASSUME NEW s \in Session, Reread(s)
      PROVE  Moves(s)
  <2>1. decisions[EventAt(s)] \in Candidate \cup {Nothing}
    BY <1>8, Parameters DEF Reread, InCall, TypeOK
  <2>. QED
    BY <1>8, <2>1, ReturnMoves DEF Reread
<1>9. ASSUME NEW s \in Session, Raise(s)
      PROVE  Moves(s)
  BY <1>9, ReturnMoves DEF Raise
<1>10. ASSUME NEW s \in Session, NEW c \in Customer, NEW p \in Profile,
              BeginUpsert(s, c, p)
       PROVE  Moves(s)
  <2>1. NewCall(c, Nothing, p) \in Call
    BY NewCallType
  <2>. QED
    BY <1>10, <2>1 DEF TypeOK, Moves, OthersWait, InCall, BeginUpsert, Goto
<1>11. ASSUME NEW s \in Session, UpsertProfile(s)
       PROVE  Moves(s)
  <2> DEFINE r == [customers[call[s].customer] EXCEPT !.profile = call[s].profile]
             n == [call[s] EXCEPT !.row = r]
  <2>1. /\ pc[s] = "edit"
        /\ call[s] \in Call
    BY <1>11, CallParameters DEF UpsertProfile
  <2>2. r \in CustomerRow
    BY <2>1, CallParameters DEF TypeOK, CustomerRow
  <2>3. n \in Call
    BY <2>1, <2>2 DEF Call
  <2>4. /\ pc' = [pc EXCEPT ![s] = "edited"]
        /\ call' = [call EXCEPT ![s] = n]
        /\ told' = told
    BY <1>11 DEF UpsertProfile, Goto
  <2>. QED
    BY <2>1, <2>3, <2>4 DEF TypeOK, Moves, OthersWait, InCall
<1>12. ASSUME NEW s \in Session, CommitProfile(s)
       PROVE  Moves(s)
  BY <1>12, ReturnMoves DEF CommitProfile
<1>. QED
  BY <1>1, <1>2, <1>3, <1>4, <1>5, <1>6, <1>7, <1>8, <1>9, <1>10, <1>11, <1>12
  DEF Next, Step, vars

------------------------------------------------------------------------------
(* The tables *)

\* The steps that write to the tables, and what all others leave alone.
LEMMA TableStep ==
  ASSUME [Next]_vars
  PROVE  \/ UNCHANGED tables
         \/ \E s \in Session : CommitDecision(s)
         \/ \E s \in Session : CommitConflict(s)
         \/ \E s \in Session : CommitProfile(s)
BY DEF Next, Step, vars, tables, Lookup, UpsertShell, InsertEventKey,
       InsertTransactionKey, InsertDecision, Reread, Raise, BeginUpsert,
       UpsertProfile

LEMMA Calls ==
  ASSUME TypeOK, [Next]_vars
  PROVE  calls' \in 0 .. MaxCalls
<1>1. \/ calls' = calls
      \/ calls < MaxCalls /\ calls' = calls + 1
  BY DEF Next, Step, vars, Lookup, UpsertShell, InsertEventKey,
         InsertTransactionKey, InsertDecision, CommitDecision,
         CommitConflict, Reread, Raise, BeginUpsert, UpsertProfile,
         CommitProfile
<1>. QED
  BY <1>1, StorageAssumption DEF TypeOK

LEMMA TablesType ==
  ASSUME TypeOK, [Next]_vars
  PROVE  /\ history' \in [Event -> Payload \cup {Nothing}]
         /\ decisions' \in [Event -> Candidate \cup {Nothing}]
         /\ outbox' \subseteq Event \X {"transactions.scored", "fraud.alerts"}
         /\ alerts' \subseteq Event
         /\ audits' \in [Event -> Nat]
         /\ customers' \in [Customer -> CustomerRow]
         /\ upserts' \in [Customer -> Nat]
<1>1. CASE UNCHANGED tables
  BY <1>1 DEF TypeOK, tables
<1>2. ASSUME NEW s \in Session, CommitDecision(s)
      PROVE  /\ history' \in [Event -> Payload \cup {Nothing}]
             /\ decisions' \in [Event -> Candidate \cup {Nothing}]
             /\ outbox' \subseteq Event \X {"transactions.scored", "fraud.alerts"}
             /\ alerts' \subseteq Event
             /\ audits' \in [Event -> Nat]
             /\ customers' \in [Customer -> CustomerRow]
             /\ upserts' \in [Customer -> Nat]
  <2>1. /\ EventAt(s) \in Event
        /\ call[s].decision \in Candidate
        /\ call[s].decision.payload \in Payload
        /\ call[s].row \in CustomerRow
    BY <1>2, Parameters DEF CommitDecision, InCall, PayloadOf
  <2>2. RowsOf(EventAt(s), call[s].decision)
          \subseteq Event \X {"transactions.scored", "fraud.alerts"}
    BY <2>1 DEF RowsOf
  <2>3. history' \in [Event -> Payload \cup {Nothing}]
    BY <1>2, <2>1 DEF TypeOK, CommitDecision
  <2>4. decisions' \in [Event -> Candidate \cup {Nothing}]
    BY <1>2, <2>1 DEF TypeOK, CommitDecision
  <2>5. outbox' \subseteq Event \X {"transactions.scored", "fraud.alerts"}
    BY <1>2, <2>2 DEF TypeOK, CommitDecision
  <2>6. alerts' \subseteq Event
    BY <1>2, <2>1 DEF TypeOK, CommitDecision
  <2>7. audits' \in [Event -> Nat]
    BY <1>2, <2>1 DEF TypeOK, CommitDecision
  <2>8. customers' \in [Customer -> CustomerRow]
    BY <1>2, <2>1 DEF TypeOK, CommitDecision
  <2>. QED
    BY <1>2, <2>3, <2>4, <2>5, <2>6, <2>7, <2>8 DEF TypeOK, CommitDecision
<1>3. ASSUME NEW s \in Session, CommitConflict(s) \/ CommitProfile(s)
      PROVE  /\ UNCHANGED <<history, decisions, outbox, alerts, audits>>
             /\ customers' \in [Customer -> CustomerRow]
             /\ upserts' \in [Customer -> Nat]
  <2>1. call[s].row \in CustomerRow
    BY <1>3, CallParameters DEF CommitConflict, CommitProfile
  <2>. QED
    BY <1>3, <2>1 DEF TypeOK, CommitConflict, CommitProfile
<1>. QED
  BY <1>1, <1>2, <1>3, TableStep DEF TypeOK

LEMMA TypeStep ==
  ASSUME TypeOK, [Next]_vars
  PROVE  TypeOK'
<1>1. CASE UNCHANGED <<pc, call, told>>
  BY <1>1, TablesType, Calls DEF TypeOK
<1>2. ASSUME NEW s \in Session, Moves(s)
      PROVE  TypeOK'
  <2>1. ASSUME NEW u \in Session
        PROVE  /\ IF pc'[u] = "idle" THEN call'[u] = Nothing
                  ELSE call'[u] \in Call
               /\ pc'[u] \in InCall => call'[u].decision # Nothing
    BY <1>2 DEF Moves, OthersWait, TypeOK
  <2>. QED
    BY <1>2, <2>1, TablesType, Calls DEF TypeOK, Moves
<1>. QED
  BY <1>1, <1>2, StepMoves
------------------------------------------------------------------------------
(* The invariant *)

\* What a commit finds: the event is new, and so is its transaction.
LEMMA CommitFinds ==
  ASSUME IInv, NEW s \in Session, CommitDecision(s)
  PROVE  /\ call[s].inserted
         /\ EventAt(s) \in Event
         /\ call[s].decision \in Candidate
         /\ PayloadOf(s) \in Payload
         /\ history[EventAt(s)] = Nothing
         /\ decisions[EventAt(s)] = Nothing
         /\ ~TransactionKnown(TransactionAt(s))
         /\ HoldsEvent(s, EventAt(s))
         /\ HoldsTransaction(s, TransactionAt(s))
         /\ HoldsCustomer(s, call[s].customer)
         /\ call[s].customer = CustomerOf[PayloadOf(s)]
         /\ call[s].customer \in Customer
         /\ call[s].row.last = Later(customers[call[s].customer].last,
                                     TimeOf[PayloadOf(s)])
         /\ call[s].row.profile = customers[call[s].customer].profile
<1>1. pc[s] = "commit" /\ pc[s] \in InCall
  BY DEF CommitDecision, InCall
<1>2. SessionInv(s) /\ TypeOK /\ AllOrNothing
  BY DEF IInv
<1>3. /\ EventAt(s) \in Event
      /\ TransactionAt(s) \in Transaction
      /\ call[s].decision \in Candidate
      /\ PayloadOf(s) \in Payload
      /\ call[s].customer \in Customer
  BY <1>1, <1>2, Parameters
<1>4. /\ call[s].inserted
      /\ HoldsEvent(s, EventAt(s))
      /\ HoldsTransaction(s, TransactionAt(s))
      /\ HoldsCustomer(s, call[s].customer)
  BY <1>1, <1>2 DEF SessionInv, HoldsEvent, HoldsTransaction, HoldsCustomer
<1>5. /\ history[EventAt(s)] = Nothing
      /\ ~TransactionKnown(TransactionAt(s))
  BY <1>2, <1>3, <1>4 DEF SessionInv
<1>6. decisions[EventAt(s)] = Nothing
  BY <1>2, <1>3, <1>5 DEF AllOrNothing
<1>. QED
  BY <1>1, <1>2, <1>3, <1>4, <1>5, <1>6 DEF SessionInv

\* A commit of a decision changes the rows of its event, and no others.
LEMMA CommitWrites ==
  ASSUME IInv, NEW s \in Session, CommitDecision(s)
  PROVE  /\ history' = [history EXCEPT ![EventAt(s)] = PayloadOf(s)]
         /\ decisions' = [decisions EXCEPT ![EventAt(s)] = call[s].decision]
         /\ outbox' = outbox \cup RowsOf(EventAt(s), call[s].decision)
         /\ alerts' = IF call[s].decision.category \in Alerting
                        THEN alerts \cup {EventAt(s)} ELSE alerts
         /\ audits' = [audits EXCEPT ![EventAt(s)] = @ + 1]
         /\ customers' = [customers EXCEPT ![call[s].customer] = call[s].row]
         /\ upserts' = upserts
         /\ pc'[s] = "idle"
<1>1. pc'[s] = "idle"
  BY DEF CommitDecision, Return, Goto, IInv, TypeOK
<1>. QED
  BY <1>1, CommitFinds DEF CommitDecision, PayloadOf

LEMMA AllOrNothingStep ==
  ASSUME IInv, [Next]_vars
  PROVE  AllOrNothing'
<1>1. CASE UNCHANGED <<history, decisions, outbox, alerts, audits>>
  BY <1>1 DEF IInv, AllOrNothing
<1>2. ASSUME NEW s \in Session, CommitDecision(s)
      PROVE  AllOrNothing'
  <2> DEFINE e == EventAt(s)
             d == call[s].decision
  <2>1. /\ e \in Event /\ d \in Candidate /\ d # Nothing
        /\ PayloadOf(s) \in Payload /\ PayloadOf(s) # Nothing
        /\ history[e] = Nothing /\ decisions[e] = Nothing
    BY <1>2, CommitFinds, CandidateType, StorageAssumption
  <2>2. ASSUME NEW f \in Event, f # e
        PROVE  /\ history'[f] = history[f]
               /\ decisions'[f] = decisions[f]
               /\ {r \in outbox' : r[1] = f} = {r \in outbox : r[1] = f}
               /\ f \in alerts' <=> f \in alerts
               /\ audits'[f] = audits[f]
    <3>1. \A r \in RowsOf(e, d) : r[1] = e
      BY DEF RowsOf
    <3>2. {r \in outbox' : r[1] = f} = {r \in outbox : r[1] = f}
      BY <1>2, <2>2, <3>1, CommitWrites
    <3>3. /\ history'[f] = history[f]
          /\ decisions'[f] = decisions[f]
          /\ audits'[f] = audits[f]
      BY <1>2, <2>1, <2>2, CommitWrites DEF IInv, TypeOK
    <3>. QED
      BY <1>2, <2>2, <3>2, <3>3, CommitWrites
  <2>3. /\ history'[e] # Nothing
        /\ decisions'[e] = d
        /\ audits'[e] = 1
    <3>1. audits[e] = 0
      BY <2>1 DEF IInv, AllOrNothing
    <3>. QED
      BY <1>2, <2>1, <3>1, CommitWrites DEF IInv, TypeOK
  <2>4. {r \in outbox' : r[1] = e} = RowsOf(e, d)
    <3>1. \A r \in RowsOf(e, d) : r[1] = e
      BY DEF RowsOf
    <3>2. {r \in outbox : r[1] = e} = {}
      BY <2>1 DEF IInv, AllOrNothing
    <3>. QED
      BY <1>2, <3>1, <3>2, CommitWrites
  <2>5. e \in alerts' <=> d.category \in Alerting
    <3>1. e \notin alerts
      BY <2>1 DEF IInv, AllOrNothing
    <3>. QED
      BY <1>2, <3>1, CommitWrites
  <2>. QED
    <3> SUFFICES ASSUME NEW f \in Event
        PROVE /\ history'[f] = Nothing <=> decisions'[f] = Nothing
              /\ {r \in outbox' : r[1] = f} =
                   IF decisions'[f] = Nothing THEN {} ELSE RowsOf(f, decisions'[f])
              /\ f \in alerts' <=>
                   decisions'[f] # Nothing /\ decisions'[f].category \in Alerting
              /\ audits'[f] = IF decisions'[f] = Nothing THEN 0 ELSE 1
      BY DEF AllOrNothing, RowsOf
    <3>1. CASE f = e
      BY <2>1, <2>3, <2>4, <2>5, <3>1
    <3>2. CASE f # e
      BY <2>2, <3>2 DEF IInv, AllOrNothing
    <3>. QED
      BY <3>1, <3>2
<1>3. CASE \E s \in Session : CommitConflict(s) \/ CommitProfile(s)
  BY <1>1, <1>3 DEF CommitConflict, CommitProfile
<1>. QED
  BY <1>1, <1>2, <1>3, TableStep DEF tables

LEMMA PayloadsStep ==
  ASSUME IInv, [Next]_vars
  PROVE  PayloadsAgree' /\ TransactionsAreUnique'
<1>1. CASE UNCHANGED <<history, decisions>>
  BY <1>1 DEF IInv, PayloadsAgree, TransactionsAreUnique
<1>2. ASSUME NEW s \in Session, CommitDecision(s)
      PROVE  PayloadsAgree' /\ TransactionsAreUnique'
  <2> DEFINE e == EventAt(s)
             p == PayloadOf(s)
  <2>1. /\ e \in Event /\ p \in Payload
        /\ history' = [history EXCEPT ![e] = p]
        /\ decisions' = [decisions EXCEPT ![e] = call[s].decision]
        /\ call[s].decision.payload = p
        /\ EventOf[p] = e
        /\ ~TransactionKnown(TransactionOf[p])
        /\ PayloadsAgree
        /\ TransactionsAreUnique
        /\ history \in [Event -> Payload \cup {Nothing}]
        /\ decisions \in [Event -> Candidate \cup {Nothing}]
    BY <1>2, CommitFinds, CommitWrites
    DEF PayloadOf, EventAt, TransactionAt, IInv, TypeOK
  <2>2. PayloadsAgree'
    BY <2>1 DEF PayloadsAgree
  <2>3. TransactionsAreUnique'
    BY <2>1 DEF TransactionsAreUnique, TransactionKnown
  <2>. QED
    BY <2>2, <2>3
<1>3. CASE \E s \in Session : CommitConflict(s) \/ CommitProfile(s)
  BY <1>1, <1>3 DEF CommitConflict, CommitProfile
<1>. QED
  BY <1>1, <1>2, <1>3, TableStep DEF tables
------------------------------------------------------------------------------
(* The customers *)

\* Whatever a commit writes to a customer's row, it is the row as it is with
\* the one column that the transaction is about changed.
LEMMA CustomerStep ==
  ASSUME IInv, [Next]_vars, NEW c \in Customer
  PROVE  /\ customers'[c].last >= customers[c].last
         /\ customers'[c].profile # customers[c].profile =>
              upserts'[c] = upserts[c] + 1
<1>1. customers[c] \in CustomerRow
  BY DEF IInv, TypeOK
<1>2. CASE UNCHANGED tables
  BY <1>1, <1>2 DEF tables, CustomerRow
<1>3. ASSUME NEW s \in Session, CommitDecision(s) \/ CommitConflict(s)
      PROVE  /\ customers'[c].last >= customers[c].last
             /\ customers'[c].profile = customers[c].profile
  <2>1. /\ pc[s] \in InCall
        /\ pc[s] \in {"event", "transaction", "decision", "commit", "conflict"}
    BY <1>3 DEF CommitDecision, CommitConflict, InCall
  <2>2. /\ TimeOf[PayloadOf(s)] \in Nat
        /\ call[s].customer \in Customer
    BY <2>1, Parameters DEF IInv
  <2>3. /\ call[s].row.profile = customers[call[s].customer].profile
        /\ call[s].row.last = Later(customers[call[s].customer].last,
                                    TimeOf[PayloadOf(s)])
    BY <2>1 DEF IInv, SessionInv
  <2>4. customers' = [customers EXCEPT ![call[s].customer] = call[s].row]
    BY <1>3 DEF CommitDecision, CommitConflict
  <2>. QED
    BY <1>1, <2>2, <2>3, <2>4 DEF IInv, TypeOK, Later, CustomerRow
<1>4. ASSUME NEW s \in Session, CommitProfile(s)
      PROVE  /\ customers'[c].last >= customers[c].last
             /\ customers'[c].profile # customers[c].profile =>
                  upserts'[c] = upserts[c] + 1
  <2>1. call[s].row.last = customers[call[s].customer].last
    BY <1>4 DEF CommitProfile, IInv, SessionInv
  <2>2. /\ customers' = [customers EXCEPT ![call[s].customer] = call[s].row]
        /\ upserts' = [upserts EXCEPT ![call[s].customer] = @ + 1]
    BY <1>4 DEF CommitProfile
  <2>. QED
    BY <1>1, <2>1, <2>2 DEF IInv, TypeOK, CustomerRow
<1>. QED
  BY <1>1, <1>2, <1>3, <1>4, TableStep DEF CustomerRow

LEMMA LastActivityStep ==
  ASSUME IInv, [Next]_vars
  PROVE  LastActivityCovers'
<1> SUFFICES ASSUME NEW e \in Event, history'[e] # Nothing
             PROVE  customers'[CustomerOf[history'[e]]].last >=
                      TimeOf[history'[e]]
  BY DEF LastActivityCovers
<1>1. CASE history'[e] = history[e]
  <2> DEFINE c == CustomerOf[history[e]]
  <2>1. /\ history[e] \in Payload
        /\ c \in Customer
        /\ TimeOf[history[e]] \in Nat
    BY <1>1, StorageAssumption DEF IInv, TypeOK
  <2>2. customers[c].last \in Nat /\ customers'[c].last \in Nat
    BY <2>1, TypeStep DEF IInv, TypeOK, CustomerRow
  <2>3. customers[c].last >= TimeOf[history[e]]
    BY <1>1 DEF IInv, LastActivityCovers
  <2>4. customers'[c].last >= customers[c].last
    BY <2>1, CustomerStep
  <2>. QED
    BY <1>1, <2>1, <2>2, <2>3, <2>4
<1>2. CASE history'[e] # history[e]
  <2>1. PICK s \in Session : CommitDecision(s)
    BY <1>2, TableStep DEF tables, CommitConflict, CommitProfile
  <2>2. /\ history'[e] = PayloadOf(s)
        /\ PayloadOf(s) \in Payload
        /\ call[s].customer = CustomerOf[PayloadOf(s)]
        /\ call[s].customer \in Customer
        /\ call[s].row.last = Later(customers[call[s].customer].last,
                                    TimeOf[PayloadOf(s)])
        /\ customers'[call[s].customer] = call[s].row
    BY <1>2, <2>1, CommitFinds, CommitWrites DEF IInv, TypeOK
  <2>3. customers[call[s].customer].last \in Nat
    BY <2>2 DEF IInv, TypeOK, CustomerRow
  <2>4. TimeOf[PayloadOf(s)] \in Nat
    BY <2>2, StorageAssumption
  <2>. QED
    BY <2>2, <2>3, <2>4 DEF Later
<1>. QED
  BY <1>1, <1>2

------------------------------------------------------------------------------
(* Locks and sessions *)

\* A lock is only taken when nobody else has it.
Acquires(s) ==
  /\ \A c : HoldsCustomer(s, c)' => HoldsCustomer(s, c) \/ CustomerFree(s, c)
  /\ \A e : HoldsEvent(s, e)' => HoldsEvent(s, e) \/ EventFree(s, e)
  /\ \A t : HoldsTransaction(s, t)' =>
              HoldsTransaction(s, t) \/ TransactionFree(s, t)

LEMMA ReturnAcquires ==
  ASSUME TypeOK, NEW s \in Session, NEW d, Return(s, d)
  PROVE  Acquires(s) /\ SessionInv(s)' /\ pc'[s] = "idle"
BY DEF TypeOK, Return, Goto, Acquires, HoldsCustomer, HoldsEvent,
       HoldsTransaction, SessionInv, InCall

\* One step of session s, as the other sessions and its next one see it.
Keeps(s) == Acquires(s) /\ SessionInv(s)' /\ OthersWait(s)

LEMMA ReturnKeeps ==
  ASSUME TypeOK, NEW s \in Session, NEW d, Return(s, d)
  PROVE  Keeps(s)
<1>1. OthersWait(s)
  BY DEF TypeOK, Return, Goto, OthersWait
<1>. QED
  BY <1>1, ReturnAcquires DEF Keeps

LEMMA LookupKeeps ==
  ASSUME IInv, NEW s \in Session, NEW d \in Candidate, Lookup(s, d)
  PROVE  Keeps(s)
<1>. TypeOK
  BY DEF IInv
<1>1. CASE decisions[EventOf[d.payload]] # Nothing
  BY <1>1, ReturnKeeps DEF Lookup
<1>2. CASE decisions[EventOf[d.payload]] = Nothing
  <2>1. /\ pc' = [pc EXCEPT ![s] = "shell"]
        /\ call' = [call EXCEPT ![s] =
                      NewCall(CustomerOf[d.payload], d, Nothing)]
    BY <1>2 DEF Lookup, Goto
  <2>2. /\ pc'[s] = "shell"
        /\ call'[s] = NewCall(CustomerOf[d.payload], d, Nothing)
        /\ OthersWait(s)
    BY <2>1 DEF TypeOK, OthersWait
  <2>. QED
    BY <2>2 DEF Keeps, Acquires, HoldsCustomer, HoldsEvent,
       HoldsTransaction, SessionInv, InCall, NewCall, PayloadOf
<1>. QED
  BY <1>1, <1>2

LEMMA BeginUpsertKeeps ==
  ASSUME IInv, NEW s \in Session, NEW c \in Customer, NEW p \in Profile,
         BeginUpsert(s, c, p)
  PROVE  Keeps(s)
<1>1. /\ pc'[s] = "edit"
      /\ OthersWait(s)
  BY DEF IInv, TypeOK, OthersWait, BeginUpsert, Goto
<1>. QED
  BY <1>1 DEF Keeps, Acquires, HoldsCustomer, HoldsEvent,
     HoldsTransaction, SessionInv, InCall

LEMMA UpsertShellKeeps ==
  ASSUME IInv, NEW s \in Session, UpsertShell(s)
  PROVE  Keeps(s)
<1> DEFINE r == [customers[call[s].customer] EXCEPT
                   !.last = Later(@, TimeOf[PayloadOf(s)])]
           n == [call[s] EXCEPT !.row = r]
<1>1. TypeOK /\ SessionInv(s) /\ pc[s] = "shell" /\ pc[s] \in InCall
  BY DEF IInv, UpsertShell, InCall
<1>2. /\ call[s] \in Call
      /\ customers[call[s].customer] \in CustomerRow
  BY <1>1, Parameters DEF TypeOK
<1>3. /\ n.customer = call[s].customer
      /\ n.decision = call[s].decision
      /\ n.inserted = call[s].inserted
      /\ n.row.profile = customers[call[s].customer].profile
      /\ n.row.last = Later(customers[call[s].customer].last,
                            TimeOf[PayloadOf(s)])
  BY <1>2 DEF Call, CustomerRow
<1>4. /\ pc'[s] = "event"
      /\ call'[s] = n
      /\ OthersWait(s)
      /\ customers' = customers
      /\ CustomerFree(s, call[s].customer)
  BY <1>1 DEF UpsertShell, TypeOK, Goto, OthersWait, tables
<1>5. PayloadOf(s)' = PayloadOf(s)
  BY <1>3, <1>4 DEF PayloadOf
<1>6. Acquires(s)
  BY <1>3, <1>4 DEF Acquires, HoldsCustomer, HoldsEvent, HoldsTransaction
<1>7. SessionInv(s)'
  BY <1>1, <1>3, <1>4, <1>5
  DEF SessionInv, HoldsEvent, HoldsTransaction, InCall
<1>. QED
  BY <1>4, <1>6, <1>7 DEF Keeps

LEMMA InsertEventKeyKeeps ==
  ASSUME IInv, NEW s \in Session, InsertEventKey(s)
  PROVE  Keeps(s)
<1>1. /\ TypeOK /\ SessionInv(s) /\ pc[s] = "event" /\ pc[s] \in InCall
      /\ EventFree(s, EventAt(s))
  BY DEF IInv, InsertEventKey, InCall
<1>2. /\ OthersWait(s)
      /\ UNCHANGED <<history, decisions, customers, call>>
      /\ \/ pc'[s] = "transaction" /\ history[EventAt(s)] = Nothing
         \/ pc'[s] = "decision" /\ history[EventAt(s)] # Nothing
  BY <1>1 DEF InsertEventKey, TypeOK, Goto, OthersWait, tables
<1>3. ~call[s].inserted
  BY <1>1 DEF SessionInv
<1>4. Acquires(s)
  BY <1>1, <1>2, <1>3
  DEF Acquires, HoldsCustomer, HoldsEvent, HoldsTransaction, EventAt, PayloadOf
<1>5. SessionInv(s)'
  BY <1>1, <1>2, <1>3
  DEF SessionInv, HoldsEvent, HoldsTransaction, InCall, EventAt, PayloadOf
<1>. QED
  BY <1>2, <1>4, <1>5 DEF Keeps

LEMMA InsertTransactionKeyKeeps ==
  ASSUME IInv, NEW s \in Session, InsertTransactionKey(s)
  PROVE  Keeps(s)
<1>. TypeOK
  BY DEF IInv
<1>1. CASE TransactionKnown(TransactionAt(s))
  BY <1>1, ReturnKeeps DEF InsertTransactionKey
<1>2. CASE ~TransactionKnown(TransactionAt(s))
  <2> DEFINE n == [call[s] EXCEPT !.inserted = TRUE]
  <2>1. /\ SessionInv(s) /\ pc[s] = "transaction" /\ pc[s] \in InCall
        /\ TransactionFree(s, TransactionAt(s))
    BY DEF IInv, InsertTransactionKey, InCall
  <2>2. call[s] \in Call
    BY <2>1, Parameters
  <2>3. /\ n.customer = call[s].customer
        /\ n.decision = call[s].decision
        /\ n.inserted
        /\ n.row = call[s].row
    BY <2>2 DEF Call
  <2>4. /\ pc'[s] = "decision"
        /\ call'[s] = n
        /\ OthersWait(s)
        /\ UNCHANGED <<history, decisions, customers>>
    BY <1>2, <2>1 DEF InsertTransactionKey, TypeOK, Goto, OthersWait, tables
  <2>5. /\ PayloadOf(s)' = PayloadOf(s)
        /\ EventAt(s)' = EventAt(s)
        /\ TransactionAt(s)' = TransactionAt(s)
    BY <2>3, <2>4 DEF PayloadOf, EventAt, TransactionAt
  <2>6. Acquires(s)
    BY <2>1, <2>3, <2>4, <2>5
    DEF Acquires, HoldsCustomer, HoldsEvent, HoldsTransaction
  <2>7. SessionInv(s)'
    BY <1>2, <2>1, <2>3, <2>4, <2>5
    DEF SessionInv, HoldsEvent, HoldsTransaction, InCall, TransactionKnown
  <2>. QED
    BY <2>4, <2>6, <2>7 DEF Keeps
<1>. QED
  BY <1>1, <1>2

LEMMA InsertDecisionKeeps ==
  ASSUME IInv, NEW s \in Session, InsertDecision(s)
  PROVE  Keeps(s)
<1>. TypeOK
  BY DEF IInv
<1>1. CASE Return(s, Nothing)
  BY <1>1, ReturnKeeps
<1>2. CASE ~Return(s, Nothing)
  <2>1. /\ SessionInv(s) /\ pc[s] = "decision" /\ pc[s] \in InCall
        /\ EventAt(s) \in Event
    BY Parameters DEF IInv, InsertDecision, InCall
  <2>2. /\ OthersWait(s)
        /\ UNCHANGED <<history, decisions, customers, call>>
        /\ \/ pc'[s] = "conflict" /\ decisions[EventAt(s)] # Nothing
           \/ pc'[s] = "commit" /\ decisions[EventAt(s)] = Nothing
    BY <1>2, <2>1 DEF InsertDecision, TypeOK, Goto, OthersWait, tables
  <2>3. decisions[EventAt(s)] = Nothing => call[s].inserted
    BY <2>1 DEF SessionInv, IInv, AllOrNothing
  <2>4. Acquires(s)
    BY <2>1, <2>2, <2>3
    DEF Acquires, HoldsCustomer, HoldsEvent, HoldsTransaction, EventAt,
        TransactionAt, PayloadOf
  <2>5. SessionInv(s)'
    BY <2>1, <2>2, <2>3
    DEF SessionInv, HoldsEvent, HoldsTransaction, InCall, EventAt,
        TransactionAt, PayloadOf, TransactionKnown
  <2>. QED
    BY <2>2, <2>4, <2>5 DEF Keeps
<1>. QED
  BY <1>1, <1>2

LEMMA CommitConflictKeeps ==
  ASSUME IInv, NEW s \in Session, CommitConflict(s)
  PROVE  Keeps(s)
<1>1. /\ TypeOK /\ SessionInv(s) /\ pc[s] = "conflict" /\ pc[s] \in InCall
  BY DEF IInv, CommitConflict, InCall
<1>2. /\ OthersWait(s)
      /\ UNCHANGED <<history, decisions, call>>
      /\ pc'[s] = "reread"
  BY <1>1 DEF CommitConflict, TypeOK, Goto, OthersWait
<1>3. Acquires(s)
  BY <1>2 DEF Acquires, HoldsCustomer, HoldsEvent, HoldsTransaction
<1>4. SessionInv(s)'
  BY <1>1, <1>2
  DEF SessionInv, HoldsEvent, HoldsTransaction, InCall, EventAt, PayloadOf
<1>. QED
  BY <1>2, <1>3, <1>4 DEF Keeps

LEMMA UpsertProfileKeeps ==
  ASSUME IInv, NEW s \in Session, UpsertProfile(s)
  PROVE  Keeps(s)
<1> DEFINE r == [customers[call[s].customer] EXCEPT !.profile = call[s].profile]
           n == [call[s] EXCEPT !.row = r]
<1>1. TypeOK /\ pc[s] = "edit"
  BY DEF IInv, UpsertProfile
<1>2. /\ call[s] \in Call
      /\ customers[call[s].customer] \in CustomerRow
  BY <1>1, CallParameters DEF TypeOK
<1>3. /\ n.customer = call[s].customer
      /\ n.row.last = customers[call[s].customer].last
  BY <1>2 DEF Call, CustomerRow
<1>4. /\ pc'[s] = "edited"
      /\ call'[s] = n
      /\ OthersWait(s)
      /\ customers' = customers
      /\ CustomerFree(s, call[s].customer)
  BY <1>1 DEF UpsertProfile, TypeOK, Goto, OthersWait, tables
<1>5. Acquires(s)
  BY <1>3, <1>4 DEF Acquires, HoldsCustomer, HoldsEvent, HoldsTransaction
<1>6. SessionInv(s)'
  BY <1>3, <1>4 DEF SessionInv, HoldsEvent, HoldsTransaction, InCall
<1>. QED
  BY <1>4, <1>5, <1>6 DEF Keeps

LEMMA StepKeeps ==
  ASSUME IInv, [Next]_vars
  PROVE  \/ UNCHANGED vars
         \/ \E s \in Session :
              /\ Keeps(s)
              /\ \/ UNCHANGED tables
                 \/ CommitDecision(s)
                 \/ CommitConflict(s)
                 \/ CommitProfile(s)
<1>. TypeOK
  BY DEF IInv
<1>1. ASSUME NEW s \in Session,
             CommitDecision(s) \/ Reread(s) \/ Raise(s) \/ CommitProfile(s)
      PROVE  Keeps(s)
  BY <1>1, ReturnKeeps DEF CommitDecision, Reread, Raise, CommitProfile
<1>2. ASSUME NEW s \in Session,
             \/ \E d \in Candidate : Lookup(s, d)
             \/ \E c \in Customer, q \in Profile : BeginUpsert(s, c, q)
             \/ UpsertShell(s)
             \/ InsertEventKey(s)
             \/ InsertTransactionKey(s)
             \/ InsertDecision(s)
             \/ UpsertProfile(s)
             \/ Reread(s)
             \/ Raise(s)
      PROVE  UNCHANGED tables
  BY <1>2 DEF Lookup, BeginUpsert, UpsertShell, InsertEventKey,
     InsertTransactionKey, InsertDecision, UpsertProfile, Reread, Raise, tables
<1>. QED
  BY <1>1, <1>2, LookupKeeps, BeginUpsertKeeps, UpsertShellKeeps,
     InsertEventKeyKeeps, InsertTransactionKeyKeeps, InsertDecisionKeeps,
     CommitConflictKeeps, UpsertProfileKeeps DEF Next, Step

\* What another session relies on survives the step of s: the tables only
\* change where s has the lock.
LEMMA OthersKeep ==
  ASSUME IInv, NEW s \in Session, Keeps(s), NEW u \in Session \ {s},
         \/ UNCHANGED tables
         \/ CommitDecision(s)
         \/ CommitConflict(s)
         \/ CommitProfile(s)
  PROVE  SessionInv(u)'
<1>1. TypeOK /\ SessionInv(u) /\ pc'[u] = pc[u] /\ call'[u] = call[u]
  BY DEF IInv, Keeps, OthersWait
<1>2. /\ PayloadOf(u)' = PayloadOf(u)
      /\ EventAt(u)' = EventAt(u)
      /\ TransactionAt(u)' = TransactionAt(u)
      /\ \A e : HoldsEvent(u, e)' <=> HoldsEvent(u, e)
      /\ \A t : HoldsTransaction(u, t)' <=> HoldsTransaction(u, t)
  BY <1>1, OthersSame DEF Keeps, PayloadOf, EventAt, TransactionAt
<1>3. pc[u] \in {"event", "transaction", "decision", "commit", "conflict",
                 "edited"} =>
        customers'[call[u].customer] = customers[call[u].customer]
  <2> SUFFICES ASSUME pc[u] \in {"event", "transaction", "decision", "commit",
                                 "conflict", "edited"},
                      ~UNCHANGED tables
               PROVE  customers'[call[u].customer] = customers[call[u].customer]
    BY DEF tables
  <2>1. /\ call[u].customer \in Customer
        /\ HoldsCustomer(u, call[u].customer)
    BY <1>1, CallParameters DEF HoldsCustomer
  <2>2. /\ call[s].customer \in Customer
        /\ HoldsCustomer(s, call[s].customer)
        /\ customers' = [customers EXCEPT ![call[s].customer] = call[s].row]
    BY <1>1, CallParameters
    DEF HoldsCustomer, CommitDecision, CommitConflict, CommitProfile
  <2>3. call[s].customer # call[u].customer
    BY <2>1, <2>2 DEF IInv, LocksAreExclusive
  <2>. QED
    BY <1>1, <2>1, <2>2, <2>3 DEF TypeOK
<1>4. CASE UNCHANGED <<history, decisions>>
  BY <1>1, <1>2, <1>3, <1>4 DEF SessionInv, TransactionKnown
<1>5. CASE CommitDecision(s)
  <2>1. /\ EventAt(s) \in Event
        /\ HoldsEvent(s, EventAt(s))
        /\ HoldsTransaction(s, TransactionAt(s))
        /\ history' = [history EXCEPT ![EventAt(s)] = PayloadOf(s)]
        /\ decisions' = [decisions EXCEPT ![EventAt(s)] = call[s].decision]
        /\ PayloadOf(s) # Nothing
        /\ call[s].decision # Nothing
    BY <1>5, CommitFinds, CommitWrites, CandidateType, StorageAssumption
  <2>2. \A e \in Event : HoldsEvent(u, e) => history'[e] = Nothing
    <3> SUFFICES ASSUME NEW e \in Event, HoldsEvent(u, e)
                 PROVE  history'[e] = Nothing
      OBVIOUS
    <3>1. e # EventAt(s)
      BY <2>1 DEF IInv, LocksAreExclusive
    <3>. QED
      BY <1>1, <2>1, <3>1 DEF SessionInv, TypeOK
  <2>3. \A t \in Transaction : HoldsTransaction(u, t) => ~TransactionKnown(t)'
    <3> SUFFICES ASSUME NEW t \in Transaction, HoldsTransaction(u, t)
                 PROVE  ~TransactionKnown(t)'
      OBVIOUS
    <3>1. t # TransactionAt(s)
      BY <2>1 DEF IInv, LocksAreExclusive
    <3>2. ~TransactionKnown(t)
      BY <1>1 DEF SessionInv
    <3>. QED
      BY <1>1, <2>1, <3>1, <3>2 DEF TransactionKnown, TransactionAt, TypeOK
  <2>4. \A e \in Event : /\ history[e] # Nothing => history'[e] # Nothing
                         /\ decisions[e] # Nothing => decisions'[e] # Nothing
    BY <1>1, <2>1 DEF TypeOK
  <2>5. pc[u] \in InCall => EventAt(u) \in Event
    BY <1>1, Parameters
  <2>. QED
    BY <1>1, <1>2, <1>3, <2>2, <2>3, <2>4, <2>5 DEF SessionInv, InCall
<1>. QED
  BY <1>4, <1>5 DEF tables, CommitConflict, CommitProfile

LEMMA LocksStep ==
  ASSUME IInv, [Next]_vars
  PROVE  LocksAreExclusive'
<1>1. CASE UNCHANGED vars
  BY <1>1 DEF IInv, LocksAreExclusive, vars, HoldsCustomer, HoldsEvent,
     HoldsTransaction, EventAt, TransactionAt, PayloadOf
<1>2. ASSUME NEW s \in Session, Keeps(s)
      PROVE  LocksAreExclusive'
  <2>1. \A u \in Session \ {s} :
          /\ \A c : HoldsCustomer(u, c)' <=> HoldsCustomer(u, c)
          /\ \A e : HoldsEvent(u, e)' <=> HoldsEvent(u, e)
          /\ \A t : HoldsTransaction(u, t)' <=> HoldsTransaction(u, t)
    BY <1>2, OthersSame DEF IInv, Keeps
  <2>2. Acquires(s) /\ LocksAreExclusive
    BY <1>2 DEF Keeps, IInv
  <2>3. ASSUME NEW u \in Session \ {s}
        PROVE  /\ \A c \in Customer : ~(HoldsCustomer(s, c)' /\ HoldsCustomer(u, c)')
               /\ \A e \in Event : ~(HoldsEvent(s, e)' /\ HoldsEvent(u, e)')
               /\ \A t \in Transaction :
                    ~(HoldsTransaction(s, t)' /\ HoldsTransaction(u, t)')
    BY <2>1, <2>2
    DEF Acquires, CustomerFree, EventFree, TransactionFree, LocksAreExclusive
  <2>4. ASSUME NEW u \in Session \ {s}, NEW w \in Session \ {s}, u # w
        PROVE  /\ \A c \in Customer : ~(HoldsCustomer(w, c)' /\ HoldsCustomer(u, c)')
               /\ \A e \in Event : ~(HoldsEvent(w, e)' /\ HoldsEvent(u, e)')
               /\ \A t \in Transaction :
                    ~(HoldsTransaction(w, t)' /\ HoldsTransaction(u, t)')
    BY <2>1, <2>2, <2>4 DEF LocksAreExclusive
  <2>. QED
    BY <2>3, <2>4 DEF LocksAreExclusive
<1>. QED
  BY <1>1, <1>2, StepKeeps

LEMMA InvInit ==
  ASSUME Init
  PROVE  IInv
<1>1. TypeOK
  BY StorageAssumption DEF Init, TypeOK, CustomerRow, InCall
<1>2. AllOrNothing /\ PayloadsAgree /\ TransactionsAreUnique /\ LastActivityCovers
  BY DEF Init, AllOrNothing, PayloadsAgree, TransactionsAreUnique,
     LastActivityCovers
<1>3. LocksAreExclusive
  BY DEF Init, LocksAreExclusive, HoldsCustomer, HoldsEvent, HoldsTransaction
<1>4. \A s \in Session : SessionInv(s)
  BY DEF Init, SessionInv, HoldsEvent, HoldsTransaction, InCall
<1>. QED
  BY <1>1, <1>2, <1>3, <1>4 DEF IInv

LEMMA InvStep ==
  ASSUME IInv, [Next]_vars
  PROVE  IInv'
<1>1. TypeOK'
  BY TypeStep DEF IInv
<1>2. \A s \in Session : SessionInv(s)'
  <2>1. CASE UNCHANGED vars
    BY <2>1 DEF IInv, SessionInv, vars, tables, HoldsEvent, HoldsTransaction,
       EventAt, TransactionAt, PayloadOf, TransactionKnown
  <2>2. CASE ~UNCHANGED vars
    <3>1. PICK s \in Session :
            /\ Keeps(s)
            /\ \/ UNCHANGED tables
               \/ CommitDecision(s)
               \/ CommitConflict(s)
               \/ CommitProfile(s)
      BY <2>2, StepKeeps
    <3>2. SessionInv(s)'
      BY <3>1 DEF Keeps
    <3>. QED
      BY <3>1, <3>2, OthersKeep
  <2>. QED
    BY <2>1, <2>2
<1>. QED
  BY <1>1, <1>2, AllOrNothingStep, PayloadsStep, LastActivityStep, LocksStep
  DEF IInv

------------------------------------------------------------------------------
(* The theorems *)

\* The inductive invariant holds for any number of sessions, payloads and
\* customers.
THEOREM Invariant == Spec => []IInv
<1>1. Init => IInv
  BY InvInit
<1>2. IInv /\ [Next]_vars => IInv'
  BY InvStep
<1>. QED
  BY <1>1, <1>2, PTL DEF Spec

\* Every variable keeps its type.
THEOREM TypeCorrect == Spec => []TypeOK
<1>1. IInv => TypeOK
  BY DEF IInv
<1>. QED
  BY <1>1, Invariant, PTL

\* save_decision_if_absent stores a decision with its transaction, outbox
\* rows, alert and audit entry, or nothing of it.
THEOREM StoredTogether == Spec => []AllOrNothing
<1>1. IInv => AllOrNothing
  BY DEF IInv
<1>. QED
  BY <1>1, Invariant, PTL

\* The transaction row and the decision of an event come from one payload.
THEOREM PayloadsAreNotMixed == Spec => []PayloadsAgree
<1>1. IInv => PayloadsAgree
  BY DEF IInv
<1>. QED
  BY <1>1, Invariant, PTL

\* No transaction is stored under two events.
THEOREM OneEventPerTransaction == Spec => []TransactionsAreUnique
<1>1. IInv => TransactionsAreUnique
  BY DEF IInv
<1>. QED
  BY <1>1, Invariant, PTL

\* DecisionProcessor never raises "decision lost after a concurrent
\* idempotency conflict".
THEOREM DecisionsAreNeverLost == Spec => []ConflictFindsDecision
<1>1. IInv => ConflictFindsDecision
  BY DEF IInv, SessionInv, ConflictFindsDecision
<1>. QED
  BY <1>1, Invariant, PTL

\* last_activity_at is no earlier than any stored transaction of the customer.
THEOREM ActivityIsCovered == Spec => []LastActivityCovers
<1>1. IInv => LastActivityCovers
  BY DEF IInv
<1>. QED
  BY <1>1, Invariant, PTL

\* Scoring and profile maintenance do not undo each other's columns.
THEOREM NoColumnIsLost == Spec => ColumnsAreKept
<1>1. IInv /\ [Next]_vars =>
        (customers' # customers =>
           \A c \in Customer :
             /\ customers'[c].last >= customers[c].last
             /\ customers'[c].profile # customers[c].profile =>
                  upserts'[c] = upserts[c] + 1)
  BY CustomerStep
<1>. QED
  BY <1>1, Invariant, PTL DEF Spec, ColumnsAreKept

\* The locks are taken in one order, customer, event, transaction, decision,
\* so the session that is furthest waits for nobody.
THEOREM NobodyWaitsInACircle == Spec => []NoDeadlock
<1>1. ASSUME IInv, NEW s \in Session, pc[s] # "idle"
      PROVE  \E u \in Session : pc[u] # "idle" /\ ~Waits(u)
  <2>. DEFINE At(l) == \E u \in Session : pc[u] = l
  <2>1. CASE At("commit") \/ At("conflict") \/ At("reread") \/ At("edited")
    BY <2>1 DEF Waits
  <2>2. CASE At("decision") /\ ~At("commit")
    BY <2>2 DEF Waits, DecisionFree, HoldsDecision
  <2>3. CASE At("transaction") /\ ~At("decision") /\ ~At("commit")
    BY <2>3 DEF Waits, TransactionFree, HoldsTransaction
  <2>4. CASE At("event") /\ ~At("transaction") /\ ~At("decision") /\ ~At("commit")
    BY <2>4 DEF Waits, EventFree, HoldsEvent
  <2>5. CASE /\ ~At("event") /\ ~At("transaction") /\ ~At("decision")
             /\ ~At("commit") /\ ~At("conflict") /\ ~At("reread") /\ ~At("edited")
    <3>1. pc[s] \in {"shell", "edit"}
      BY <1>1, <2>5 DEF IInv, TypeOK, InCall
    <3>2. CustomerFree(s, call[s].customer)
      BY <2>5 DEF CustomerFree, HoldsCustomer
    <3>. QED
      BY <3>1, <3>2 DEF Waits
  <2>. QED
    BY <2>1, <2>2, <2>3, <2>4, <2>5
<1>2. IInv => NoDeadlock
  BY <1>1 DEF NoDeadlock
<1>. QED
  BY <1>2, Invariant, PTL

------------------------------------------------------------------------------
(* The refinement *)

LEMMA StoreStep ==
  ASSUME IInv, [Next]_vars
  PROVE  Store!Next \/ UNCHANGED Store!storeVars
<1>. TypeOK
  BY DEF IInv
<1>0. CASE UNCHANGED <<decisions, told>>
  BY <1>0 DEF Store!storeVars
<1>1. ASSUME NEW s \in Session, UNCHANGED decisions, Return(s, Nothing)
      PROVE  Store!Next
  BY <1>1 DEF Return, Store!Next, Store!Fail, Store!Tell
<1>2. ASSUME NEW s \in Session, NEW e \in Event, UNCHANGED decisions,
             Return(s, decisions[e])
      PROVE  Store!Next
  BY <1>1, <1>2 DEF Return, Store!Next, Store!Find, Store!Tell
<1>3. ASSUME NEW s \in Session, NEW d \in Candidate, Lookup(s, d)
      PROVE  Store!Next \/ UNCHANGED <<decisions, told>>
  BY <1>2, <1>3, CandidateType DEF Lookup, tables
<1>4. ASSUME NEW s \in Session, CommitDecision(s)
      PROVE  Store!Next
  <2> DEFINE d == call[s].decision
             e == EventAt(s)
  <2>1. /\ e \in Event /\ d \in Candidate
        /\ decisions[e] = Nothing
        /\ ~TransactionKnown(TransactionAt(s))
        /\ decisions' = [decisions EXCEPT ![e] = d]
        /\ e = EventOf[d.payload]
    BY <1>4, CommitFinds, CommitWrites DEF EventAt, PayloadOf
  <2>2. Store!Fresh(d)
    <3> SUFFICES ASSUME NEW f \in Event, decisions[f] # Nothing
                 PROVE  TransactionOf[decisions[f].payload] # TransactionOf[d.payload]
      BY DEF Store!Fresh
    <3>1. history[f] # Nothing /\ decisions[f].payload = history[f]
      BY DEF IInv, AllOrNothing, PayloadsAgree
    <3>. QED
      BY <2>1, <3>1 DEF TransactionKnown, TransactionAt, PayloadOf
  <2>3. \/ told' = [told EXCEPT ![s] = d]
        \/ told' = [told EXCEPT ![s] = Nothing]
    BY <1>4 DEF CommitDecision, Return
  <2>4. Store!Save(s, d)
    BY <2>1, <2>2, <2>3 DEF Store!Save, Store!Tell
  <2>. QED
    BY <2>1, <2>4 DEF Store!Next, Store!Candidate, Candidate
<1>5. ASSUME NEW s \in Session, Reread(s)
      PROVE  Store!Next
  <2>1. EventAt(s) \in Event
    BY <1>5, Parameters DEF Reread, InCall
  <2>. QED
    BY <1>2, <1>5, <2>1 DEF Reread, tables
<1>6. ASSUME NEW s \in Session, Raise(s) \/ CommitProfile(s)
      PROVE  Store!Next
  BY <1>1, <1>6 DEF Raise, CommitProfile, tables
<1>7. ASSUME NEW s \in Session, InsertTransactionKey(s) \/ InsertDecision(s)
      PROVE  Store!Next \/ UNCHANGED <<decisions, told>>
  BY <1>1, <1>7 DEF InsertTransactionKey, InsertDecision, Goto, tables
<1>8. ASSUME NEW s \in Session,
             \/ \E c \in Customer, p \in Profile : BeginUpsert(s, c, p)
             \/ UpsertShell(s) \/ InsertEventKey(s) \/ CommitConflict(s)
             \/ UpsertProfile(s)
      PROVE  UNCHANGED <<decisions, told>>
  BY <1>8 DEF BeginUpsert, UpsertShell, InsertEventKey, CommitConflict,
     UpsertProfile, tables
<1>. QED
  BY <1>0, <1>3, <1>4, <1>5, <1>6, <1>7, <1>8 DEF Next, Step, vars, tables

\* The statements of the processing store and their commits implement the
\* one-step store that DecisionWorker calls.
THEOREM Refinement == Spec => StoreSpec
<1>1. Init => Store!Init
  BY DEF Init, Store!Init
<1>2. IInv /\ [Next]_vars => [Store!Next]_Store!storeVars
  BY StoreStep
<1>. QED
  BY <1>1, <1>2, Invariant, PTL DEF Spec, StoreSpec, Store!Spec
==============================================================================
