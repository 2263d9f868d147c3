---------------------------- MODULE DecisionWorker ----------------------------
(***************************************************************************)
(* FraudScoringWorker processes of one consumer group and the request      *)
(* threads of the synchronous API, both running DecisionProcessor.process  *)
(* against one PostgresProcessingStore and publishing through Kafka.       *)
(*                                                                         *)
(* A step of the model is a database transaction, a Kafka call, or the     *)
(* computation between two of them.  Any step may fail: an exception ends  *)
(* run_forever, which closes the consumer, and fails an API request.       *)
(***************************************************************************)
EXTENDS DecisionOutputs

CONSTANTS
  Worker,    \* scoring worker processes
  Client,    \* request threads of POST /transactions/score
  ApiEvent,  \* the events submitted to the API
  Nobody,    \* no owner of a partition
  Nothing    \* no record, no source in hand

Actor == Worker \cup Client

ASSUME ActorAssumption ==
  /\ Worker \cap Client = {}
  /\ Nobody \notin Actor
  /\ ApiEvent \subseteq Event
  /\ Nothing \notin Event \cup Malformed \cup Source

VARIABLES
  \* Kafka: the consumer group and the output topics
  committed,  \* committed[p]: the group's committed position in p
  owner,      \* owner[p]: the member p is assigned to, or Nobody
  position,   \* position[p]: how far the owner has polled
  delivered,  \* outbox rows that reached their topic
  unresolved, \* rows sent whose delivery timed out: may still arrive
  \* PostgreSQL
  decision,   \* risk_decisions (and transaction_history), by event
  alerts,     \* events with a row in fraud_alerts
  rejected,   \* rejected_events
  outbox,     \* outbox_events
  published,  \* the outbox rows with published_at set
  \* Local state of the actors
  pc,         \* the next step
  hand,       \* the event or malformed payload being processed
  at,         \* where the worker read it
  existing,   \* the variable existing (or candidate) of process
  todo        \* what is left of the list that pending_outbox returned

kafkaVars == <<committed, owner, position>>
topicVars == <<delivered, unresolved>>
storeVars == <<decision, alerts, rejected, outbox, published>>
localVars == <<pc, hand, at, existing, todo>>
vars == <<kafkaVars, topicVars, storeVars, localVars>>

Idle(a) == IF a \in Worker THEN "poll" ELSE "idle"

Init ==
  /\ committed = [p \in Partition |-> 0]
  /\ owner = [p \in Partition |-> Nobody]
  /\ position = [p \in Partition |-> 0]
  /\ delivered = {}
  /\ unresolved = {}
  /\ decision = [e \in Event |-> NoDecision]
  /\ alerts = {}
  /\ rejected = {}
  /\ outbox = {}
  /\ published = {}
  /\ pc = [a \in Actor |-> Idle(a)]
  /\ hand = [a \in Actor |-> Nothing]
  /\ at = [a \in Actor |-> Nothing]
  /\ existing = [a \in Actor |-> NoDecision]
  /\ todo = [a \in Actor |-> {}]

------------------------------------------------------------------------------
(* Helpers *)

Goto(a, label) == pc' = [pc EXCEPT ![a] = label]

\* The locals go out of scope.
Forget(a) ==
  /\ hand' = [hand EXCEPT ![a] = Nothing]
  /\ at' = [at EXCEPT ![a] = Nothing]
  /\ existing' = [existing EXCEPT ![a] = NoDecision]
  /\ todo' = [todo EXCEPT ![a] = {}]

\* What a member leaves behind: its partitions have no owner.
Without(a) == [p \in Partition |-> IF owner[p] = a THEN Nobody ELSE owner[p]]

\* An exception: run_forever ends and closes the consumer; a request thread
\* answers with an error.  The session expiry of a member that did not even
\* close its consumer is a delay before the next Assign.
Abort(a) ==
  /\ Goto(a, IF a \in Worker THEN "stopped" ELSE "idle")
  /\ owner' = Without(a)
  /\ Forget(a)
  /\ UNCHANGED <<committed, position>>

\* The record id of what a is processing: event:<id> or source:<t>:<p>:<o>.
RecordOf(a) == IF hand[a] \in Event THEN hand[a] ELSE at[a]

\* The history query: the stored transactions of e's customer that happened
\* before e.  (The 90 days and 2000 rows it is limited to are left out.)
History(e) ==
  {x \in Event : /\ decision[x] # NoDecision
                 /\ CustomerOf[x] = CustomerOf[e]
                 /\ TimeOf[x] < TimeOf[e]}

\* Another event has already taken the transaction_id of e.
TransactionTaken(e) ==
  \E f \in Event \ {e} :
    decision[f] # NoDecision /\ TransactionOf[f] = TransactionOf[e]

\* ORDER BY created_at, outbox_id: the rows of a record are inserted by one
\* transaction, so outbox_id decides, and "OUTBOX-ALERT-" comes first.
IsNext(m, rows) ==
  /\ m \in rows
  /\ (\E n \in rows : n.topic = "fraud.alerts") => m.topic = "fraud.alerts"

------------------------------------------------------------------------------
(* Defects: actions that the program does not have.  A mutation run puts one *)
(* in the place of the action it is named after, and a property must fail.   *)

\* The worker logs an exception and goes on with the next record.
FailKeepsGoing(a) ==
  /\ pc[a] \notin {"idle", "stopped"}
  /\ Goto(a, Idle(a))
  /\ Forget(a)
  /\ UNCHANGED <<kafkaVars, topicVars, storeVars>>

\* A delivery timeout passes for a delivery.
PublishUnknownIsSuccess(a) ==
  /\ pc[a] = "publish"
  /\ \E m \in todo[a] : IsNext(m, todo[a]) /\ unresolved' = unresolved \cup {m}
  /\ Goto(a, "mark")
  /\ UNCHANGED <<kafkaVars, delivered, storeVars, hand, at, existing, todo>>

\* A new owner goes on where the last one stopped polling.
AssignWithoutSeek(p, w) ==
  /\ owner[p] = Nobody
  /\ pc[w] = "poll"
  /\ owner' = [owner EXCEPT ![p] = w]
  /\ UNCHANGED <<committed, position, topicVars, storeVars, localVars>>

\* A member that lost its partition commits all the same.
CommitUnfenced(w) ==
  /\ pc[w] = "done"
  /\ committed' = [committed EXCEPT ![at[w][1]] = at[w][2]]
  /\ Goto(w, "poll")
  /\ Forget(w)
  /\ UNCHANGED <<owner, position, topicVars, storeVars>>

\* The second rejection of a source raises.
SaveRejectionRaisesAgain(w) ==
  /\ pc[w] = "reject"
  /\ hand[w] \notin Oversized
  /\ \/ /\ at[w] \in rejected
        /\ Abort(w)
        /\ UNCHANGED <<topicVars, storeVars>>
     \/ /\ at[w] \notin rejected
        /\ rejected' = rejected \cup {at[w]}
        /\ outbox' = outbox \cup {DeadLetterRow(at[w])}
        /\ Goto(w, "pending")
        /\ UNCHANGED <<kafkaVars, topicVars, decision, alerts, published, hand,
                       at, existing, todo>>

\* A known event is a duplicate with nothing left to do.
GetDecisionAndReturn(a) ==
  /\ pc[a] = "get"
  /\ existing' = [existing EXCEPT ![a] = decision[hand[a]]]
  /\ Goto(a, IF decision[hand[a]] = NoDecision THEN "score" ELSE "done")
  /\ UNCHANGED <<kafkaVars, topicVars, storeVars, hand, at, todo>>

\* The scored event is sent before the decision is stored.
ScoreAndSend(a) ==
  /\ pc[a] = "score"
  /\ \E c \in Category :
       LET d == [category |-> c, prior |-> History(hand[a])]
       IN  /\ existing' = [existing EXCEPT ![a] = d]
           /\ unresolved' = unresolved \cup {ScoredRow(hand[a], d)}
  /\ Goto(a, "save")
  /\ UNCHANGED <<kafkaVars, delivered, storeVars, hand, at, todo>>

\* The loser of a race queues the rows of its own candidate.
SaveConflictQueues(a) ==
  /\ pc[a] = "save"
  /\ decision[hand[a]] # NoDecision
  /\ outbox' = outbox \cup DecisionRows(hand[a], existing[a])
  /\ existing' = [existing EXCEPT ![a] = NoDecision]
  /\ Goto(a, "reget")
  /\ UNCHANGED <<kafkaVars, topicVars, decision, alerts, rejected, published,
                 hand, at, todo>>

\* The loser of a race answers with its own candidate.
SaveConflictKeepsCandidate(a) ==
  /\ pc[a] = "save"
  /\ decision[hand[a]] # NoDecision
  /\ Goto(a, "pending")
  /\ UNCHANGED <<kafkaVars, topicVars, storeVars, hand, at, existing, todo>>

\* Any unique violation passes for a conflict on the event.
SaveRaisesAsConflict(a) ==
  /\ pc[a] = "save"
  /\ decision[hand[a]] = NoDecision
  /\ TransactionTaken(hand[a])
  /\ Goto(a, "reget")
  /\ UNCHANGED <<kafkaVars, topicVars, storeVars, hand, at, existing, todo>>

\* The failed save is logged, and the decision announced.
SaveRaisesAnnounced(a) ==
  /\ pc[a] = "save"
  /\ decision[hand[a]] = NoDecision
  /\ TransactionTaken(hand[a])
  /\ delivered' = delivered \cup {ScoredRow(hand[a], existing[a])}
  /\ Goto(a, "done")
  /\ UNCHANGED <<kafkaVars, unresolved, storeVars, hand, at, existing, todo>>

------------------------------------------------------------------------------
(* Taking work *)

\* Worker, run_once: the next record of an assigned partition, validated.
Poll(w) ==
  /\ pc[w] = "poll"
  /\ \E p \in Partition :
       /\ owner[p] = w
       /\ position[p] < Len(Log[p])
       /\ LET item == Log[p][position[p] + 1]
          IN  /\ hand' = [hand EXCEPT ![w] = item]
              /\ Goto(w, IF item \in Event THEN "get" ELSE "reject")
       /\ at' = [at EXCEPT ![w] = <<p, position[p] + 1>>]
       /\ position' = [position EXCEPT ![p] = @ + 1]
  /\ UNCHANGED <<committed, owner, topicVars, storeVars, existing, todo>>

\* Client: POST /transactions/score with an event that passes the contract.
Request(c) ==
  /\ pc[c] = "idle"
  /\ \E e \in ApiEvent : hand' = [hand EXCEPT ![c] = e]
  /\ Goto(c, "get")
  /\ UNCHANGED <<kafkaVars, topicVars, storeVars, at, existing, todo>>

------------------------------------------------------------------------------
(* DecisionProcessor.process *)

\* store.get_decision: go on from a stored decision, or compute one.
GetDecision(a) ==
  /\ pc[a] = "get"
  /\ existing' = [existing EXCEPT ![a] = decision[hand[a]]]
  /\ Goto(a, IF decision[hand[a]] = NoDecision THEN "score" ELSE "pending")
  /\ UNCHANGED <<kafkaVars, topicVars, storeVars, hand, at, todo>>

\* pipeline.score and the candidate: the history as it is now, and any
\* category the rules and the model may arrive at.
Score(a) ==
  /\ pc[a] = "score"
  /\ \E c \in Category :
       existing' =
         [existing EXCEPT ![a] = [category |-> c, prior |-> History(hand[a])]]
  /\ Goto(a, "save")
  /\ UNCHANGED <<kafkaVars, topicVars, storeVars, hand, at, todo>>

\* store.save_decision_if_absent, the transaction that stores the decision,
\* its outbox rows and its alert.  Rows that _validate_outbox does not accept
\* would raise, as in Fail.
SaveDecision(a) ==
  LET e == hand[a]
      d == existing[a]
  IN  /\ pc[a] = "save"
      /\ OutboxAccepted(e, DecisionRows(e, d))
      /\ decision[e] = NoDecision
      /\ ~TransactionTaken(e)
      /\ decision' = [decision EXCEPT ![e] = d]
      /\ outbox' = outbox \cup DecisionRows(e, d)
      /\ alerts' = IF d.category \in Alerting THEN alerts \cup {e} ELSE alerts
      /\ Goto(a, "pending")
      /\ UNCHANGED <<kafkaVars, topicVars, rejected, published, hand, at,
                     existing, todo>>

\* ... and ON CONFLICT (input_event_id) DO NOTHING: somebody else was first.
SaveConflict(a) ==
  /\ pc[a] = "save"
  /\ OutboxAccepted(hand[a], DecisionRows(hand[a], existing[a]))
  /\ decision[hand[a]] # NoDecision
  /\ existing' = [existing EXCEPT ![a] = NoDecision]
  /\ Goto(a, "reget")
  /\ UNCHANGED <<kafkaVars, topicVars, storeVars, hand, at, todo>>

\* ... and the unique transaction_id of transaction_history, which the ON
\* CONFLICT (event_id) clause does not cover: the statement raises.
SaveRaises(a) ==
  /\ pc[a] = "save"
  /\ OutboxAccepted(hand[a], DecisionRows(hand[a], existing[a]))
  /\ decision[hand[a]] = NoDecision
  /\ TransactionTaken(hand[a])
  /\ Abort(a)
  /\ UNCHANGED <<topicVars, storeVars>>

\* get_decision_after_conflict.
GetAfterConflict(a) ==
  /\ pc[a] = "reget"
  /\ decision[hand[a]] # NoDecision
  /\ existing' = [existing EXCEPT ![a] = decision[hand[a]]]
  /\ Goto(a, "pending")
  /\ UNCHANGED <<kafkaVars, topicVars, storeVars, hand, at, todo>>

------------------------------------------------------------------------------
(* FraudScoringWorker._reject_invalid *)

\* store.save_rejection_if_absent, whether the source is new or known.
SaveRejection(w) ==
  /\ pc[w] = "reject"
  /\ OutboxAccepted(at[w], {DeadLetterRow(at[w])})
  /\ hand[w] \notin Oversized
  /\ rejected' = rejected \cup {at[w]}
  /\ outbox' = IF at[w] \in rejected THEN outbox
                                     ELSE outbox \cup {DeadLetterRow(at[w])}
  /\ Goto(w, "pending")
  /\ UNCHANGED <<kafkaVars, topicVars, decision, alerts, published, hand, at,
                 existing, todo>>

\* ... and the key of the dead letter, the event_id of the payload, does not
\* fit outbox_events.message_key: the statement raises.
RejectionRaises(w) ==
  /\ pc[w] = "reject"
  /\ OutboxAccepted(at[w], {DeadLetterRow(at[w])})
  /\ hand[w] \in Oversized
  /\ Abort(w)
  /\ UNCHANGED <<topicVars, storeVars>>

------------------------------------------------------------------------------
(* DecisionProcessor.publish_pending *)

\* store.pending_outbox, read once.
ReadPending(a) ==
  /\ pc[a] = "pending"
  /\ todo' = [todo EXCEPT ![a] =
                {m \in outbox \ published : m.rec = RecordOf(a)}]
  /\ Goto(a, "publish")
  /\ UNCHANGED <<kafkaVars, topicVars, storeVars, hand, at, existing>>

\* publisher.publish: the broker acknowledges the row.
Publish(a) ==
  /\ pc[a] = "publish"
  /\ \E m \in todo[a] : IsNext(m, todo[a]) /\ delivered' = delivered \cup {m}
  /\ Goto(a, "mark")
  /\ UNCHANGED <<kafkaVars, unresolved, storeVars, hand, at, existing, todo>>

\* ... or no delivery report arrives in time, or the process ends before
\* it: the row is sent, and its fate is unknown.
PublishUnknown(a) ==
  /\ pc[a] = "publish"
  /\ \E m \in todo[a] : IsNext(m, todo[a]) /\ unresolved' = unresolved \cup {m}
  /\ Abort(a)
  /\ UNCHANGED <<delivered, storeVars>>

\* store.mark_outbox_published; an earlier published_at stays.
MarkPublished(a) ==
  /\ pc[a] = "mark"
  /\ \E m \in todo[a] :
       /\ IsNext(m, todo[a])
       /\ published' = published \cup {m}
       /\ todo' = [todo EXCEPT ![a] = @ \ {m}]
  /\ Goto(a, "publish")
  /\ UNCHANGED <<kafkaVars, topicVars, decision, alerts, rejected, outbox,
                 hand, at, existing>>

\* The end of the loop.
AllPublished(a) ==
  /\ pc[a] = "publish"
  /\ todo[a] = {}
  /\ Goto(a, "done")
  /\ UNCHANGED <<kafkaVars, topicVars, storeVars, hand, at, existing, todo>>

------------------------------------------------------------------------------
(* Finishing *)

\* Worker: the synchronous commit of the record in hand.
Commit(w) ==
  LET p == at[w][1]
  IN  /\ pc[w] = "done"
      /\ owner[p] = w
      /\ committed' = [committed EXCEPT ![p] = at[w][2]]
      /\ Goto(w, "poll")
      /\ Forget(w)
      /\ UNCHANGED <<owner, position, topicVars, storeVars>>

\* ... refused by the coordinator: w is no longer the member that polled it.
CommitFenced(w) ==
  /\ pc[w] = "done"
  /\ owner[at[w][1]] # w
  /\ Abort(w)
  /\ UNCHANGED <<topicVars, storeVars>>

\* Client: the score response.
Reply(c) ==
  /\ pc[c] = "done"
  /\ Goto(c, "idle")
  /\ Forget(c)
  /\ UNCHANGED <<kafkaVars, topicVars, storeVars>>

------------------------------------------------------------------------------
(* The environment: failures, the group coordinator, the supervisor *)

\* A crash, a consumption error, a failed query, model or enqueue: the step
\* a was about to take has no effect, and a is gone.
Fail(a) ==
  /\ pc[a] \notin {"idle", "stopped"}
  /\ Abort(a)
  /\ UNCHANGED <<topicVars, storeVars>>

\* w exceeds max.poll.interval.ms or its session, and does not know it yet.
Evict(w) ==
  /\ pc[w] # "stopped"
  /\ \E p \in Partition : owner[p] = w
  /\ owner' = Without(w)
  /\ UNCHANGED <<committed, position, topicVars, storeVars, localVars>>

\* The coordinator assigns p to a member, which joins the group in poll and
\* starts at the committed position.
Assign(p, w) ==
  /\ owner[p] = Nobody
  /\ pc[w] = "poll"
  /\ owner' = [owner EXCEPT ![p] = w]
  /\ position' = [position EXCEPT ![p] = committed[p]]
  /\ UNCHANGED <<committed, topicVars, storeVars, localVars>>

\* A supervisor starts the worker again.
Restart(w) ==
  /\ pc[w] = "stopped"
  /\ Goto(w, "poll")
  /\ UNCHANGED <<kafkaVars, topicVars, storeVars, hand, at, existing, todo>>

\* A row whose delivery report was lost arrives after all, or never will.
ArriveLate(m) ==
  /\ delivered' = delivered \cup {m}
  /\ unresolved' = unresolved \ {m}
  /\ UNCHANGED <<kafkaVars, storeVars, localVars>>

Lose(m) ==
  /\ unresolved' = unresolved \ {m}
  /\ UNCHANGED <<delivered, kafkaVars, storeVars, localVars>>

------------------------------------------------------------------------------
(* The specification *)

\* The steps of process, common to workers and request threads.
Process(a) ==
  \/ GetDecision(a)
  \/ Score(a)
  \/ SaveDecision(a)
  \/ SaveConflict(a)
  \/ SaveRaises(a)
  \/ GetAfterConflict(a)
  \/ ReadPending(a)
  \/ Publish(a)
  \/ MarkPublished(a)
  \/ AllPublished(a)

WorkerStep(w) ==
  \/ Poll(w)
  \/ Process(w)
  \/ SaveRejection(w)
  \/ RejectionRaises(w)
  \/ Commit(w)
  \/ CommitFenced(w)

ClientStep(c) == Process(c) \/ Reply(c)

\* What goes well, or fails because of the data alone.
Progress ==
  \/ \E w \in Worker : WorkerStep(w) \/ Restart(w)
  \/ \E c \in Client : Request(c) \/ ClientStep(c)
  \/ \E p \in Partition, w \in Worker : Assign(p, w)
  \/ \E m \in unresolved : ArriveLate(m) \/ Lose(m)

\* What goes wrong for no reason in the data.
Fault ==
  \/ \E a \in Actor : Fail(a) \/ PublishUnknown(a)
  \/ \E w \in Worker : Evict(w)

Next == Progress \/ Fault

Spec == Init /\ [][Next]_vars

------------------------------------------------------------------------------
(* Properties *)

Labels == {"poll", "idle", "get", "score", "save", "reget", "reject",
           "pending", "publish", "mark", "done", "stopped"}

\* Every variable has its type.
TypeOK ==
  /\ committed \in [Partition -> Nat]
  /\ owner \in [Partition -> Worker \cup {Nobody}]
  /\ position \in [Partition -> Nat]
  /\ delivered \subseteq Row
  /\ unresolved \subseteq Row
  /\ decision \in [Event -> Decision \cup {NoDecision}]
  /\ alerts \subseteq Event
  /\ rejected \subseteq Source
  /\ outbox \subseteq Row
  /\ published \subseteq Row
  /\ pc \in [Actor -> Labels]
  /\ hand \in [Actor -> Event \cup Malformed \cup {Nothing}]
  /\ at \in [Actor -> Source \cup {Nothing}]
  /\ existing \in [Actor -> Decision \cup {NoDecision}]
  /\ todo \in [Actor -> SUBSET Row]

\* The committed position never passes a record that is not settled: its
\* decision or rejection is stored and everything it announces has reached
\* its topic, however workers were evicted, restarted or overtaken.
ConsumedOnlyWhenSettled ==
  \A p \in Partition : \A n \in 1 .. committed[p] :
    Settled(p, n, decision, rejected, delivered)

\* The outbox holds the rows of the stored decisions and rejections, those
\* and no others, each with the stored payload, and an alert is stored for
\* exactly the decisions that are announced as alerts: two actors that
\* score the same event differently never mix what they computed.
OutboxMatchesStore ==
  /\ outbox = RowsFor(decision, rejected)
  /\ \A e \in Event :
       e \in alerts <=> \E m \in outbox : m.rec = e /\ m.topic = "fraud.alerts"

\* Nothing is on a topic, or on its way there, unless the store announces
\* it with that payload: a late or repeated delivery carries what the
\* first one carried.
OnlyStoredIsAnnounced == delivered \cup unresolved \subseteq outbox

\* published_at is set only on rows the broker has, whoever sent them.
MarkedOnlyAfterDelivery == published \subseteq delivered

\* Past the lookup and the save, what process is about to return is the
\* stored decision, also when its own candidate lost the race.
AnswerIsStored ==
  \A a \in Actor :
    pc[a] \in {"pending", "publish", "mark", "done"} /\ hand[a] \in Event
      => existing[a] = decision[hand[a]] /\ existing[a] # NoDecision

\* After a conflict the decision is there to be read: the RuntimeError
\* "decision lost after a concurrent idempotency conflict" cannot happen.
ConflictFindsDecision ==
  \A a \in Actor : pc[a] = "reget" => decision[hand[a]] # NoDecision

\* Two decided events never share a transaction_id.
OneDecisionPerTransaction ==
  \A e, f \in Event :
    /\ decision[e] # NoDecision
    /\ decision[f] # NoDecision
    /\ TransactionOf[e] = TransactionOf[f]
    => e = f

\* A decision taken from the raw topic has seen the customer's earlier
\* transactions that come before it in its partition, whoever decided those.
\* (An event scored by the API may overtake the ones still queued.)
HistoryIsComplete ==
  \A p \in Partition : \A i, j \in 1 .. Len(Log[p]) :
    LET e == Log[p][i]
        f == Log[p][j]
    IN  /\ i < j
        /\ e \in Event
        /\ f \in Event \ ApiEvent
        /\ CustomerOf[e] = CustomerOf[f]
        /\ TimeOf[e] < TimeOf[f]
        /\ \A k \in 1 .. i : Log[p][k] # f
        /\ decision[f] # NoDecision
        => e \in decision[f].prior

\* A stored decision is never changed or removed: redelivery and retries do
\* not score again.
DecisionIsFinal ==
  [][\A e \in Event :
       decision[e] # NoDecision => decision'[e] = decision[e]]_vars

------------------------------------------------------------------------------
(* The inductive invariant *)

\* a is in the middle of process_message or of a request.
Busy(a) == pc[a] \notin {"poll", "idle", "stopped"}

\* The locals fit the step: a worker holds the record it read, a request an
\* event; process runs on events, _reject_invalid on malformed payloads.
HandFitsStep ==
  \A a \in Actor :
    /\ a \in Worker => pc[a] # "idle"
    /\ a \in Client => pc[a] \notin {"poll", "stopped", "reject"}
    /\ Busy(a) =>
         IF a \in Worker
         THEN /\ at[a] \in Source
              /\ at[a][2] \in 1 .. Len(Log[at[a][1]])
              /\ hand[a] = Log[at[a][1]][at[a][2]]
         ELSE hand[a] \in Event
    /\ pc[a] \in {"get", "score", "save", "reget"} => hand[a] \in Event
    /\ pc[a] = "reject" => hand[a] \in Malformed
    /\ pc[a] = "save" => existing[a] \in Decision

\* Publishing starts from a stored outcome.
OutcomeIsStored ==
  \A a \in Actor :
    pc[a] \in {"pending", "publish", "mark", "done"} =>
      IF hand[a] \in Event THEN decision[hand[a]] # NoDecision
                           ELSE at[a] \in rejected

\* The list read by pending_outbox goes stale, but only one way: what is not
\* on it has been published, and the row to be marked has been delivered.
TodoCoversUnpublished ==
  \A a \in Actor :
    /\ pc[a] \in {"publish", "mark"} =>
         /\ todo[a] \subseteq {m \in outbox : m.rec = RecordOf(a)}
         /\ \A m \in outbox \ todo[a] : m.rec = RecordOf(a) => m \in published
    /\ pc[a] = "mark" =>
         \A m \in todo[a] : IsNext(m, todo[a]) => m \in delivered
    /\ pc[a] = "done" =>
         \A m \in outbox : m.rec = RecordOf(a) => m \in published

\* The owner of a partition has polled up to the committed position, and one
\* record further exactly while it is processing that record.
OwnerIsAtCommitted ==
  \A p \in Partition :
    /\ committed[p] <= Len(Log[p])
    /\ owner[p] # Nobody =>
         LET w == owner[p]
         IN  /\ pc[w] # "stopped"
             /\ IF Busy(w) /\ at[w][1] = p
                THEN /\ at[w][2] = committed[p] + 1
                     /\ position[p] = committed[p] + 1
                ELSE position[p] = committed[p]

\* Everything above that a step preserves, together: what makes the safety
\* properties hold at every step of every interleaving.
IInv ==
  /\ TypeOK
  /\ HandFitsStep
  /\ OutcomeIsStored
  /\ AnswerIsStored
  /\ ConflictFindsDecision
  /\ OutboxMatchesStore
  /\ OnlyStoredIsAnnounced
  /\ MarkedOnlyAfterDelivery
  /\ TodoCoversUnpublished
  /\ OwnerIsAtCommitted
  /\ ConsumedOnlyWhenSettled

\* A request works on an event that was submitted.
RequestsAreSubmitted ==
  \A c \in Client : Busy(c) => hand[c] \in ApiEvent

\* The events before the record a worker holds are decided, also while the
\* worker is evicted and another one reads the record again.
EarlierAreDecided ==
  \A w \in Worker : Busy(w) =>
    \A i \in 1 .. at[w][2] - 1 :
      LET e == Log[at[w][1]][i]
      IN  e \in Event => decision[e] # NoDecision

\* The candidate of a worker has seen the earlier transactions among them.
CandidateIsComplete ==
  \A w \in Worker : pc[w] = "save" =>
    \A i \in 1 .. at[w][2] - 1 :
      LET e == Log[at[w][1]][i]
      IN  /\ e \in Event
          /\ CustomerOf[e] = CustomerOf[hand[w]]
          /\ TimeOf[e] < TimeOf[hand[w]]
          => e \in existing[w].prior

\* With IInv, what makes HistoryIsComplete inductive.
HistoryInv ==
  /\ RequestsAreSubmitted
  /\ EarlierAreDecided
  /\ CandidateIsComplete
  /\ HistoryIsComplete

------------------------------------------------------------------------------
(* Refinement *)

\* What the workers and the API do together is what DecisionLedger allows.
Ledger == INSTANCE DecisionLedger
            WITH decided <- decision, refused <- rejected,
                 announced <- delivered, consumed <- committed
LedgerSpec == Ledger!Spec
==============================================================================
