--------------------------- MODULE DecisionStorage ---------------------------
(***************************************************************************)
(* PostgresProcessingStore and PostgresCustomerProfileRepository under     *)
(* DecisionProcessor.process: sessions that look up, store and re-read     *)
(* decisions and maintain profiles at the same time, on one database, each *)
(* mutation one READ COMMITTED transaction.  A step is a statement or the  *)
(* commit.                                                                 *)
(*                                                                         *)
(* A transaction's writes are shown when it commits.  The row locks and    *)
(* the unique keys it holds until then are read off pc and call; others    *)
(* wait for them.  A transaction may fail at every statement, and then     *)
(* leaves nothing.  Scoring itself is the choice of a category.            *)
(***************************************************************************)
EXTENDS Naturals

CONSTANTS
  Session,        \* worker processes, request threads, profile loaders
  Event,          \* event_id
  Transaction,    \* transaction_id
  Customer,       \* customer_id
  Payload,        \* validated events; several may name one event_id
  EventOf,        \* EventOf[p]: the event_id of payload p
  TransactionOf,  \* its transaction_id
  CustomerOf,     \* its customer_id
  TimeOf,         \* its transaction_time
  Category,       \* RiskCategory
  Alerting,       \* medium and high
  Profile,        \* the columns that a profile loader sets
  Nothing,        \* no row, no call, no answer
  MaxCalls        \* bound: how many calls are made

ASSUME StorageAssumption ==
  /\ EventOf \in [Payload -> Event]
  /\ TransactionOf \in [Payload -> Transaction]
  /\ CustomerOf \in [Payload -> Customer]
  /\ TimeOf \in [Payload -> Nat \ {0}]
  /\ Alerting \subseteq Category
  /\ Nothing \notin Payload \cup Profile
  /\ Nothing \notin [payload : Payload, category : Category]
  /\ MaxCalls \in Nat

VARIABLES
  history,    \* history[e]: the payload in transaction_history, or Nothing
  decisions,  \* decisions[e]: the row of risk_decisions, or Nothing
  outbox,     \* outbox_events: event and topic
  alerts,     \* the events with a row in fraud_alerts
  audits,     \* audits[e]: how many decision.created entries it has
  customers,  \* customers[c]: row of customer_profiles
  upserts,    \* upserts[c]: how many customer_profile.upserted entries
  pc,         \* the next step of each session
  call,       \* the parameters and locals of its call
  told,       \* the decision that its last call returned, or Nothing
  calls       \* how many calls were made

tables == <<history, decisions, outbox, alerts, audits, customers, upserts>>
vars == <<tables, pc, call, told, calls>>

\* StoredDecision
Candidate == [payload : Payload, category : Category]

\* last_activity_at is zero while it is null: no payload has that time.
CustomerRow == [profile : Profile \cup {Nothing}, last : Nat]

Init ==
  /\ history = [e \in Event |-> Nothing]
  /\ decisions = [e \in Event |-> Nothing]
  /\ outbox = {}
  /\ alerts = {}
  /\ audits = [e \in Event |-> 0]
  /\ customers = [c \in Customer |-> [profile |-> Nothing, last |-> 0]]
  /\ upserts = [c \in Customer |-> 0]
  /\ pc = [s \in Session |-> "idle"]
  /\ call = [s \in Session |-> Nothing]
  /\ told = [s \in Session |-> Nothing]
  /\ calls = 0

------------------------------------------------------------------------------
(* Helpers *)

Goto(s, label) == pc' = [pc EXCEPT ![s] = label]

\* The call returns decision d, or Nothing when it raises.
Return(s, d) ==
  /\ Goto(s, "idle")
  /\ call' = [call EXCEPT ![s] = Nothing]
  /\ told' = [told EXCEPT ![s] = d]

Later(t, u) == IF t >= u THEN t ELSE u

PayloadOf(s) == call[s].decision.payload
EventAt(s) == EventOf[PayloadOf(s)]

TransactionAt(s) == TransactionOf[PayloadOf(s)]

\* The row lock of customer c, from the upsert to the end.
HoldsCustomer(s, c) ==
  /\ pc[s] \in {"event", "transaction", "decision", "commit", "conflict",
                "edited"}
  /\ call[s].customer = c

\* The uncommitted key of event e in transaction_history.
HoldsEvent(s, e) ==
  /\ \/ pc[s] = "transaction"
     \/ pc[s] \in {"decision", "commit"} /\ call[s].inserted
  /\ EventAt(s) = e

\* The uncommitted key of transaction t in transaction_history.
HoldsTransaction(s, t) ==
  /\ pc[s] \in {"decision", "commit"}
  /\ call[s].inserted
  /\ TransactionAt(s) = t

\* The uncommitted keys of risk_decisions.
HoldsDecision(s, e, t) ==
  /\ pc[s] = "commit"
  /\ EventAt(s) = e \/ TransactionAt(s) = t

\* A defect, for a mutation run: a shared lock on the key is
\* taken first.
EventFreeShared(s, e) ==
  \A u \in Session \ {s} :
    ~HoldsEvent(u, e) /\ ~(pc[u] = "event" /\ EventAt(u) = e)

CustomerFree(s, c) == \A u \in Session \ {s} : ~HoldsCustomer(u, c)
EventFree(s, e) == \A u \in Session \ {s} : ~HoldsEvent(u, e)
TransactionFree(s, t) == \A u \in Session \ {s} : ~HoldsTransaction(u, t)
DecisionFree(s, e, t) == \A u \in Session \ {s} : ~HoldsDecision(u, e, t)

\* Another event's row has the transaction_id.
TransactionKnown(t) ==
  \E e \in Event : history[e] # Nothing /\ TransactionOf[history[e]] = t

TransactionDecided(t) ==
  \E e \in Event :
    decisions[e] # Nothing /\ TransactionOf[decisions[e].payload] = t

\* DecisionOutputFactory.build
RowsOf(e, d) ==
  IF d.category \in Alerting
    THEN {<<e, "transactions.scored">>, <<e, "fraud.alerts">>}
    ELSE {<<e, "transactions.scored">>}

\* What a call starts with: a decision to store, or a profile to set.
NewCall(c, d, p) ==
  [customer |-> c, decision |-> d, profile |-> p, inserted |-> FALSE,
   row |-> [profile |-> Nothing, last |-> 0]]

------------------------------------------------------------------------------
(* Defects: actions that the program does not have.  A mutation run puts one *)
(* in the place of the action it is named after, and a property must fail.   *)

\* The shell takes the time of the transaction that came last.
UpsertShellLatest(s) ==
  /\ pc[s] = "shell"
  /\ LET c == call[s].customer IN
     /\ CustomerFree(s, c)
     /\ call' = [call EXCEPT ![s].row =
                   [customers[c] EXCEPT !.last = TimeOf[PayloadOf(s)]]]
  /\ Goto(s, "event")
  /\ UNCHANGED <<tables, told, calls>>

\* A key that is not committed yet counts as a stored transaction.
InsertEventKeyTrusts(s) ==
  /\ pc[s] = "event"
  /\ IF history[EventAt(s)] = Nothing /\ EventFree(s, EventAt(s))
       THEN Goto(s, "transaction")
       ELSE Goto(s, "decision")
  /\ UNCHANGED <<tables, call, told, calls>>

\* ON CONFLICT (event_id) DO UPDATE: the loser overwrites the transaction.
CommitConflictOverwrites(s) ==
  /\ pc[s] = "conflict"
  /\ customers' = [customers EXCEPT ![call[s].customer] = call[s].row]
  /\ history' = [history EXCEPT ![EventAt(s)] = PayloadOf(s)]
  /\ Goto(s, "reread")
  /\ UNCHANGED <<decisions, outbox, alerts, audits, upserts, call, told, calls>>

\* The caller takes its own decision for the stored one.
RereadOwn(s) ==
  /\ pc[s] = "reread"
  /\ Return(s, call[s].decision)
  /\ UNCHANGED <<tables, calls>>

------------------------------------------------------------------------------
(* DecisionProcessor.process *)

\* get_decision.  A known event is answered with its decision; another one
\* is scored, and the candidate is to be stored.
Lookup(s, d) ==
  /\ pc[s] = "idle"
  /\ calls < MaxCalls
  /\ calls' = calls + 1
  /\ \/ /\ decisions[EventOf[d.payload]] # Nothing
        /\ Return(s, decisions[EventOf[d.payload]])
     \/ /\ decisions[EventOf[d.payload]] = Nothing
        /\ Goto(s, "shell")
        /\ call' = [call EXCEPT ![s] =
                      NewCall(CustomerOf[d.payload], d, Nothing)]
        /\ UNCHANGED told
  /\ UNCHANGED tables

\* _UPSERT_CUSTOMER_SHELL.  The row is locked, and what is written is
\* computed from the row as it is then.
UpsertShell(s) ==
  /\ pc[s] = "shell"
  /\ LET c == call[s].customer IN
     /\ CustomerFree(s, c)
     /\ call' = [call EXCEPT ![s].row =
                   [customers[c] EXCEPT
                      !.last = Later(@, TimeOf[PayloadOf(s)])]]
  /\ Goto(s, "event")
  /\ UNCHANGED <<tables, told, calls>>

\* _INSERT_TRANSACTION, its conflict target: a known event_id inserts
\* nothing, and the call goes on.
InsertEventKey(s) ==
  /\ pc[s] = "event"
  /\ EventFree(s, EventAt(s))
  /\ \/ history[EventAt(s)] = Nothing /\ Goto(s, "transaction")
     \/ history[EventAt(s)] # Nothing /\ Goto(s, "decision")
  /\ UNCHANGED <<tables, call, told, calls>>

\* _INSERT_TRANSACTION, the other unique key: a known transaction_id is an
\* error.
InsertTransactionKey(s) ==
  /\ pc[s] = "transaction"
  /\ TransactionFree(s, TransactionAt(s))
  /\ \/ /\ ~TransactionKnown(TransactionAt(s))
        /\ Goto(s, "decision")
        /\ call' = [call EXCEPT ![s].inserted = TRUE]
        /\ UNCHANGED told
     \/ /\ TransactionKnown(TransactionAt(s))
        /\ Return(s, Nothing)
  /\ UNCHANGED <<tables, calls>>

\* _INSERT_DECISION.  A known event_id ends the method, and the block around
\* it commits; a known transaction_id is an error.
InsertDecision(s) ==
  /\ pc[s] = "decision"
  /\ DecisionFree(s, EventAt(s), TransactionAt(s))
  /\ IF decisions[EventAt(s)] # Nothing
       THEN Goto(s, "conflict") /\ UNCHANGED <<call, told>>
     ELSE IF TransactionDecided(TransactionAt(s))
       THEN Return(s, Nothing)
     ELSE Goto(s, "commit") /\ UNCHANGED <<call, told>>
  /\ UNCHANGED <<tables, calls>>

\* The outbox rows, the alert of a medium or high risk and the audit entry
\* are inserted, and all is committed.  The answer may be lost on its way.
CommitDecision(s) ==
  /\ pc[s] = "commit"
  /\ LET e == EventAt(s)
         d == call[s].decision IN
     /\ history' = IF call[s].inserted
                     THEN [history EXCEPT ![e] = d.payload] ELSE history
     /\ decisions' = [decisions EXCEPT ![e] = d]
     /\ outbox' = outbox \cup RowsOf(e, d)
     /\ alerts' = IF d.category \in Alerting THEN alerts \cup {e} ELSE alerts
     /\ audits' = [audits EXCEPT ![e] = @ + 1]
     /\ customers' = [customers EXCEPT ![call[s].customer] = call[s].row]
     /\ Return(s, d) \/ Return(s, Nothing)
  /\ UNCHANGED <<upserts, calls>>

\* The method returns False: what is committed is the customer's row.
CommitConflict(s) ==
  /\ pc[s] = "conflict"
  /\ customers' = [customers EXCEPT ![call[s].customer] = call[s].row]
  /\ Goto(s, "reread")
  /\ UNCHANGED <<history, decisions, outbox, alerts, audits, upserts, call,
                 told, calls>>

\* get_decision after the conflict.  Nothing would be the RuntimeError
\* "decision lost after a concurrent idempotency conflict".
Reread(s) ==
  /\ pc[s] = "reread"
  /\ Return(s, decisions[EventAt(s)])
  /\ UNCHANGED <<tables, calls>>

\* A statement fails or the connection is lost: the call raises, and its
\* transaction, if one is open, is rolled back.
Raise(s) ==
  /\ pc[s] # "idle"
  /\ Return(s, Nothing)
  /\ UNCHANGED <<tables, calls>>

------------------------------------------------------------------------------
(* PostgresCustomerProfileRepository.upsert *)

BeginUpsert(s, c, p) ==
  /\ pc[s] = "idle"
  /\ calls < MaxCalls
  /\ calls' = calls + 1
  /\ Goto(s, "edit")
  /\ call' = [call EXCEPT ![s] = NewCall(c, Nothing, p)]
  /\ UNCHANGED <<tables, told>>

\* _UPSERT_CUSTOMER_PROFILE
UpsertProfile(s) ==
  /\ pc[s] = "edit"
  /\ LET c == call[s].customer IN
     /\ CustomerFree(s, c)
     /\ call' = [call EXCEPT ![s].row =
                   [customers[c] EXCEPT !.profile = call[s].profile]]
  /\ Goto(s, "edited")
  /\ UNCHANGED <<tables, told, calls>>

\* The audit entry and the commit
CommitProfile(s) ==
  /\ pc[s] = "edited"
  /\ customers' = [customers EXCEPT ![call[s].customer] = call[s].row]
  /\ upserts' = [upserts EXCEPT ![call[s].customer] = @ + 1]
  /\ Return(s, Nothing)
  /\ UNCHANGED <<history, decisions, outbox, alerts, audits, calls>>

------------------------------------------------------------------------------

Step(s) ==
  \/ UpsertShell(s)
  \/ InsertEventKey(s)
  \/ InsertTransactionKey(s)
  \/ InsertDecision(s)
  \/ CommitDecision(s)
  \/ CommitConflict(s)
  \/ Reread(s)
  \/ UpsertProfile(s)
  \/ CommitProfile(s)

Next ==
  \E s \in Session :
    \/ \E d \in Candidate : Lookup(s, d)
    \/ \E c \in Customer, p \in Profile : BeginUpsert(s, c, p)
    \/ Step(s)
    \/ Raise(s)

Spec == Init /\ [][Next]_vars

------------------------------------------------------------------------------
(* Properties *)

InCall == {"shell", "event", "transaction", "decision", "commit",
           "conflict", "reread"}

Call == [customer : Customer, decision : Candidate \cup {Nothing},
         profile : Profile \cup {Nothing}, inserted : BOOLEAN,
         row : CustomerRow]

\* Every variable keeps its type, and a call has what its step works on.
TypeOK ==
  /\ history \in [Event -> Payload \cup {Nothing}]
  /\ decisions \in [Event -> Candidate \cup {Nothing}]
  /\ outbox \subseteq Event \X {"transactions.scored", "fraud.alerts"}
  /\ alerts \subseteq Event
  /\ audits \in [Event -> Nat]
  /\ customers \in [Customer -> CustomerRow]
  /\ upserts \in [Customer -> Nat]
  /\ pc \in [Session -> InCall \cup {"idle", "edit", "edited"}]
  /\ call \in [Session -> Call \cup {Nothing}]
  /\ told \in [Session -> Candidate \cup {Nothing}]
  /\ calls \in 0 .. MaxCalls
  /\ \A s \in Session :
       /\ IF pc[s] = "idle" THEN call[s] = Nothing ELSE call[s] \in Call
       /\ pc[s] \in InCall => call[s].decision # Nothing

\* A decision is never stored without its transaction, its outbox rows, its
\* alert and one audit entry, nor any of these without it, however the
\* transactions of several sessions interleave and fail.
AllOrNothing ==
  \A e \in Event :
    /\ history[e] = Nothing <=> decisions[e] = Nothing
    /\ {r \in outbox : r[1] = e} =
         IF decisions[e] = Nothing THEN {} ELSE RowsOf(e, decisions[e])
    /\ e \in alerts <=>
         decisions[e] # Nothing /\ decisions[e].category \in Alerting
    /\ audits[e] = IF decisions[e] = Nothing THEN 0 ELSE 1

\* Two payloads under one event_id are never mixed: the transaction row and
\* the decision of an event come from the same payload.
PayloadsAgree ==
  \A e \in Event :
    history[e] # Nothing /\ decisions[e] # Nothing =>
      /\ decisions[e].payload = history[e]
      /\ EventOf[history[e]] = e

\* A transaction_id is stored, and decided, under one event_id only.
TransactionsAreUnique ==
  \A e, f \in Event :
    /\ history[e] # Nothing
    /\ history[f] # Nothing
    /\ TransactionOf[history[e]] = TransactionOf[history[f]]
    => e = f

\* Who is told that its event is a duplicate finds the decision: the
\* RuntimeError "decision lost after a concurrent idempotency conflict"
\* is never raised.
ConflictFindsDecision ==
  \A s \in Session :
    pc[s] \in {"conflict", "reread"} => decisions[EventAt(s)] # Nothing

\* last_activity_at of a customer is no earlier than any stored transaction.
LastActivityCovers ==
  \A e \in Event :
    history[e] # Nothing =>
      customers[CustomerOf[history[e]]].last >= TimeOf[history[e]]

\* Scoring and profile maintenance write the same row at the same time, and
\* neither undoes the other: last_activity_at never goes back, and the
\* columns of the profile change with an audit entry only.
ColumnsAreKept ==
  [][customers' # customers =>
       \A c \in Customer :
         /\ customers'[c].last >= customers[c].last
         /\ customers'[c].profile # customers[c].profile =>
              upserts'[c] = upserts[c] + 1]_vars

\* The call of s waits for another transaction.
Waits(s) ==
  \/ pc[s] \in {"shell", "edit"} /\ ~CustomerFree(s, call[s].customer)
  \/ pc[s] = "event" /\ ~EventFree(s, EventAt(s))
  \/ pc[s] = "transaction" /\ ~TransactionFree(s, TransactionAt(s))
  \/ pc[s] = "decision" /\ ~DecisionFree(s, EventAt(s), TransactionAt(s))

\* Transactions never wait for each other in a circle: when some session
\* is in a call, one of them can go on.
NoDeadlock ==
  (\E s \in Session : pc[s] # "idle") =>
     \E s \in Session : pc[s] # "idle" /\ ~Waits(s)

\* What a session relies on between its statements: the row it will write
\* is the committed one with its own change, the keys it holds are in no
\* committed row, and the key it found known is.
SessionInv(s) ==
  /\ pc[s] \in InCall =>
       /\ call[s].customer = CustomerOf[PayloadOf(s)]
       /\ pc[s] \in {"shell", "event", "transaction"} => ~call[s].inserted
  /\ pc[s] \in {"event", "transaction", "decision", "commit", "conflict"} =>
       /\ call[s].row.profile = customers[call[s].customer].profile
       /\ call[s].row.last = Later(customers[call[s].customer].last,
                                   TimeOf[PayloadOf(s)])
  /\ pc[s] = "edited" =>
       call[s].row.last = customers[call[s].customer].last
  /\ \A e \in Event : HoldsEvent(s, e) => history[e] = Nothing
  /\ \A t \in Transaction : HoldsTransaction(s, t) => ~TransactionKnown(t)
  /\ pc[s] = "decision" /\ ~call[s].inserted => history[EventAt(s)] # Nothing
  /\ pc[s] = "commit" => call[s].inserted
  /\ pc[s] \in {"conflict", "reread"} => decisions[EventAt(s)] # Nothing

\* A row and a key belong to one transaction at a time.
LocksAreExclusive ==
  \A s, u \in Session :
    s # u =>
      /\ \A c \in Customer : ~(HoldsCustomer(s, c) /\ HoldsCustomer(u, c))
      /\ \A e \in Event : ~(HoldsEvent(s, e) /\ HoldsEvent(u, e))
      /\ \A t \in Transaction : ~(HoldsTransaction(s, t) /\ HoldsTransaction(u, t))

\* The inductive invariant.
IInv ==
  /\ TypeOK
  /\ AllOrNothing
  /\ PayloadsAgree
  /\ TransactionsAreUnique
  /\ LastActivityCovers
  /\ LocksAreExclusive
  /\ \A s \in Session : SessionInv(s)

\* The statements implement the processing store as its callers know it.
Store == INSTANCE DecisionStore WITH decided <- decisions
StoreSpec == Store!Spec
==============================================================================
