--------------------------- MODULE DecisionOutputs ---------------------------
(***************************************************************************)
(* The data the scoring worker, the synchronous API and their store share: *)
(* the messages of the topic transactions.raw, the decisions, and the      *)
(* outbox rows that a decision or a rejection gives rise to.               *)
(*                                                                         *)
(* Payloads are abstract.  What the properties tell apart is kept: which   *)
(* messages pass the transaction contract, which transaction and customer  *)
(* an event is about, the risk category, and the history a score saw.      *)
(***************************************************************************)
EXTENDS Naturals, Sequences

CONSTANTS
  Partition,      \* the partitions of transactions.raw
  Event,          \* event identifiers of payloads that pass the contract
  Malformed,      \* payloads that fail the contract
  Oversized,      \* the malformed ones whose event_id exceeds message_key
  Log,            \* Log[p]: the records of partition p, in offset order
  TransactionOf,  \* transaction_id of an event
  CustomerOf,     \* customer_id of an event
  TimeOf,         \* transaction_time of an event
  Category,       \* RiskCategory
  Alerting,       \* the categories that open an alert
  NoDecision      \* what get_decision returns for an unknown event

\* An entry of the raw topic, named by partition and position.  Positions
\* count from one: position n is Kafka offset n - 1, and a committed
\* position n is the committed offset n (the next one to read).
Source == Partition \X (Nat \ {0})

ASSUME DataAssumption ==
  /\ Oversized \subseteq Malformed
  /\ Alerting \subseteq Category
  /\ Log \in [Partition -> Seq(Event \cup Malformed)]
  /\ DOMAIN TransactionOf = Event
  /\ DOMAIN CustomerOf = Event
  /\ TimeOf \in [Event -> Nat]

\* The three namespaces do not meet: a payload passes the contract or fails
\* it, and the record ids "event:..." and "source:..." differ in prefix.
ASSUME NamesAssumption ==
  /\ Event \cap Malformed = {}
  /\ \A e \in Event : e \notin Source

\* StoredDecision: the effective category, and the transactions of the
\* customer the history query returned when the decision was computed.
Decision == [category : Category, prior : SUBSET Event]

ASSUME NoDecisionAssumption == NoDecision \notin Decision

\* publish_transaction keys a record by its customer_id, and the partitioner
\* goes by the key: the events of one customer are in one partition.
ASSUME KeyAssumption ==
  \A p, q \in Partition :
    \A i \in 1 .. Len(Log[p]), j \in 1 .. Len(Log[q]) :
      /\ Log[p][i] \in Event
      /\ Log[q][j] \in Event
      /\ CustomerOf[Log[p][i]] = CustomerOf[Log[q][j]]
      => p = q

------------------------------------------------------------------------------
(* Outbox rows: record_id, topic and payload. *)

ScoredRow(e, d) ==
  [rec |-> e, topic |-> "transactions.scored", body |-> d]

AlertRow(e, d) ==
  [rec |-> e, topic |-> "fraud.alerts", body |-> d]

\* DecisionOutputFactory.build: a scored event always, an alert event for
\* the alerting categories.
DecisionRows(e, d) ==
  {ScoredRow(e, d)}
    \cup (IF d.category \in Alerting THEN {AlertRow(e, d)} ELSE {})

\* The dead letter of the malformed record at source s.
DeadLetterRow(s) ==
  [rec |-> s, topic |-> "transactions.dead-letter", body |-> Log[s[1]][s[2]]]

Row ==
  [rec : Event, topic : {"transactions.scored", "fraud.alerts"},
   body : Decision]
    \cup
  [rec : Source, topic : {"transactions.dead-letter"}, body : Malformed]

\* _validate_outbox: the rows of record rec are its own, one per topic.
OutboxAccepted(rec, rows) ==
  /\ \A m \in rows : m.rec = rec
  /\ \A m, n \in rows : m.topic = n.topic => m = n

\* Every row that the decisions dec and the rejections rej call for.
RowsFor(dec, rej) ==
  (UNION {DecisionRows(e, dec[e]) : e \in {x \in Event : dec[x] # NoDecision}})
    \cup {DeadLetterRow(s) : s \in rej}

\* The record at position n of partition p has been dealt with for good: it
\* has a stored outcome, and all that the outcome announces is in ann.
Settled(p, n, dec, rej, ann) ==
  LET item == Log[p][n]
  IN  IF item \in Event
      THEN dec[item] # NoDecision /\ DecisionRows(item, dec[item]) \subseteq ann
      ELSE <<p, n>> \in rej /\ DeadLetterRow(<<p, n>>) \in ann
==============================================================================
