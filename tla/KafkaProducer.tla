----------------------------- MODULE KafkaProducer -----------------------------
(***************************************************************************)
(* KafkaTransactionProducer: request threads, or workers, publish through  *)
(* one Kafka client.  Each call enqueues its message, with retries while   *)
(* the local queue is full, and polls until the callback of its own        *)
(* message has run, or a deadline has passed.  A poll serves the callbacks *)
(* of whoever's messages are reported.                                     *)
(*                                                                         *)
(* The client (librdkafka) and the broker are modelled from how this code  *)
(* uses them: a message takes room in the local queue until its report is  *)
(* served.  Time is counted down: Tick lets one unit pass for everybody.   *)
(***************************************************************************)
EXTENDS Naturals, Sequences, SequencesExt

CONSTANTS
  Thread,            \* threads that share the producer
  Message,           \* one call of publish_serialized each
  Slot,              \* room in the client's local queue
  RetryAttempts,     \* local_queue_retry_attempts
  Backoff,           \* the sleep after each attempt, doubled every time
  DeliveryTimeout,   \* delivery_timeout_ms
  Allowance,         \* what delivery_wait_timeout_seconds adds to it
  CloseTimeout,      \* timeout_seconds of close
  Free,              \* an empty slot
  Nothing            \* no message, no report

ASSUME ProducerAssumption ==
  /\ RetryAttempts \in Nat
  /\ Backoff \in [0 .. RetryAttempts -> Nat]
  /\ DeliveryTimeout \in Nat \ {0}
  /\ Allowance \in Nat \ {0}
  /\ CloseTimeout \in Nat
  /\ Nothing \notin Message
  /\ Nothing \notin {"ok", "error"}

VARIABLES
  pc,        \* the next step of each thread
  mine,      \* the message of its call
  retries,   \* retries_used
  timer,     \* what is left of its backoff, its deadline or its flush
  phase,     \* what the caller of each message knows
  delivery,  \* the closure of each call: its report, once completed is set
  queue,     \* the client's local queue
  late,      \* messages given up by the client and perhaps on the wire
  log        \* the messages in the topic, in the order of arrival

caller == <<mine, retries, timer>>
client == <<queue, late, log>>
vars == <<pc, caller, phase, delivery, client>>

Init ==
  /\ pc = [t \in Thread |-> "idle"]
  /\ mine = [t \in Thread |-> Nothing]
  /\ retries = [t \in Thread |-> 0]
  /\ timer = [t \in Thread |-> 0]
  /\ phase = [m \in Message |-> "new"]
  /\ delivery = [m \in Message |-> Nothing]
  /\ queue = [s \in Slot |-> Free]
  /\ late = {}
  /\ log = <<>>

------------------------------------------------------------------------------
(* Helpers *)

Goto(t, label) == pc' = [pc EXCEPT ![t] = label]

\* The call of t ends.
End(t, result) ==
  /\ Goto(t, "idle")
  /\ phase' = [phase EXCEPT ![mine[t]] = result]
  /\ mine' = [mine EXCEPT ![t] = Nothing]
  /\ UNCHANGED <<retries, timer, delivery, client>>

Busy(s) == queue[s] # Free

Reported(s) == Busy(s) /\ queue[s].state \in {"ok", "error"}

\* Defects: the wait forgets the client's own timeout; the report goes to the
\* call of the thread that polls.
WaitOfAllowance == Allowance
CallOfPoller(t, s) == IF mine[t] # Nothing THEN mine[t] ELSE queue[s].message

\* delivery_wait_timeout_seconds
WaitTimeout == DeliveryTimeout + Allowance

\* on_delivery is a closure of the call that enqueued the message.
CallOf(t, s) == queue[s].message

------------------------------------------------------------------------------
(* publish_serialized *)

Publish(t, m) ==
  /\ pc[t] = "idle"
  /\ phase[m] = "new"
  /\ phase' = [phase EXCEPT ![m] = "calling"]
  /\ mine' = [mine EXCEPT ![t] = m]
  /\ retries' = [retries EXCEPT ![t] = 0]
  /\ Goto(t, "produce")
  /\ UNCHANGED <<timer, delivery, client>>

\* The client takes the message and starts to count its delivery timeout.
Produce(t, s) ==
  /\ pc[t] = "produce"
  /\ ~Busy(s)
  /\ queue' = [queue EXCEPT ![s] =
       [message |-> mine[t], state |-> "queued", left |-> DeliveryTimeout]]
  /\ Goto(t, "enqueued")
  /\ UNCHANGED <<caller, phase, delivery, late, log>>

\* BufferError
ProduceFull(t) ==
  /\ pc[t] = "produce"
  /\ \A s \in Slot : Busy(s)
  /\ retries[t] < RetryAttempts
  /\ Goto(t, "make room")
  /\ UNCHANGED <<caller, phase, delivery, client>>

ProduceGivesUp(t) ==
  /\ pc[t] = "produce"
  /\ \A s \in Slot : Busy(s)
  /\ retries[t] >= RetryAttempts
  /\ End(t, "refused")

\* Any other exception of produce.
ProduceRaises(t) ==
  /\ pc[t] = "produce"
  /\ End(t, "refused")

\* poll(0) has served what it did; the thread sleeps.
SleepBeforeRetry(t) ==
  /\ pc[t] = "make room"
  /\ timer' = [timer EXCEPT ![t] = Backoff[retries[t]]]
  /\ retries' = [retries EXCEPT ![t] = @ + 1]
  /\ Goto(t, "sleep")
  /\ UNCHANGED <<mine, phase, delivery, client>>

Retry(t) ==
  /\ pc[t] = "sleep"
  /\ timer[t] = 0
  /\ Goto(t, "produce")
  /\ UNCHANGED <<caller, phase, delivery, client>>

\* _wait_for_delivery reads the clock.
SetDeadline(t) ==
  /\ pc[t] = "enqueued"
  /\ timer' = [timer EXCEPT ![t] = WaitTimeout]
  /\ Goto(t, "check")
  /\ UNCHANGED <<mine, retries, phase, delivery, client>>

\* A defect: the deadline is set anew in every turn of the loop.
PollOnceRenews(t) ==
  /\ pc[t] = "check"
  /\ delivery[mine[t]] = Nothing
  /\ timer[t] > 0
  /\ timer' = [timer EXCEPT ![t] = WaitTimeout]
  /\ Goto(t, "poll")
  /\ UNCHANGED <<mine, retries, phase, delivery, client>>

PollOnce(t) ==
  /\ pc[t] = "check"
  /\ delivery[mine[t]] = Nothing
  /\ timer[t] > 0
  /\ Goto(t, "poll")
  /\ UNCHANGED <<caller, phase, delivery, client>>

\* The poll ends after its interval, or earlier.
PollReturns(t) ==
  /\ pc[t] = "poll"
  /\ Goto(t, "check")
  /\ UNCHANGED <<caller, phase, delivery, client>>

Receipt(t) ==
  /\ pc[t] = "check"
  /\ delivery[mine[t]] = "ok"
  /\ End(t, "confirmed")

DeliveryFails(t) ==
  /\ pc[t] = "check"
  /\ delivery[mine[t]] = "error"
  /\ End(t, "failed")

\* A defect: a message that was enqueued is taken for one that was refused.
DeadlineRefuses(t) ==
  /\ pc[t] = "check"
  /\ delivery[mine[t]] = Nothing
  /\ timer[t] = 0
  /\ End(t, "refused")

DeadlinePasses(t) ==
  /\ pc[t] = "check"
  /\ delivery[mine[t]] = Nothing
  /\ timer[t] = 0
  /\ End(t, "unknown")

------------------------------------------------------------------------------
(* close *)

Close(t) ==
  /\ pc[t] = "idle"
  /\ timer' = [timer EXCEPT ![t] = CloseTimeout]
  /\ Goto(t, "flush")
  /\ UNCHANGED <<mine, retries, phase, delivery, client>>

\* With messages left it raises.
Closed(t) ==
  /\ pc[t] = "flush"
  /\ timer[t] = 0 \/ \A s \in Slot : ~Busy(s)
  /\ Goto(t, "idle")
  /\ UNCHANGED <<caller, phase, delivery, client>>

------------------------------------------------------------------------------
(* The client and the broker *)

\* In a poll or a flush of any thread a callback runs: on_delivery fills the
\* closure and sets completed.
Serve(t, s) ==
  /\ pc[t] \in {"make room", "poll", "flush"}
  /\ Reported(s)
  /\ delivery' = [delivery EXCEPT ![CallOf(t, s)] = queue[s].state]
  /\ queue' = [queue EXCEPT ![s] = Free]
  /\ UNCHANGED <<pc, caller, phase, late, log>>

\* Idempotence: the broker's retries append once.
BrokerAppends(s) ==
  /\ Busy(s)
  /\ queue[s].state = "queued"
  /\ log' = Append(log, queue[s].message)
  /\ queue' = [queue EXCEPT ![s].state = "appended"]
  /\ UNCHANGED <<pc, caller, phase, delivery, late>>

BrokerConfirms(s) ==
  /\ Busy(s)
  /\ queue[s].state = "appended"
  /\ queue' = [queue EXCEPT ![s].state = "ok"]
  /\ UNCHANGED <<pc, caller, phase, delivery, late, log>>

\* The client gives a message up: the broker has refused it, or the delivery
\* timeout is over, and then the message may be on the wire or in the topic.
ClientGivesUp(s) ==
  /\ Busy(s)
  /\ queue[s].state \in {"queued", "appended"}
  /\ queue' = [queue EXCEPT ![s].state = "error"]
  /\ late' \in {late} \cup
       (IF queue[s].state = "queued" /\ queue[s].left = 0
        THEN {late \cup {queue[s].message}} ELSE {})
  /\ UNCHANGED <<pc, caller, phase, delivery, log>>

ArrivesLate(m) ==
  /\ m \in late
  /\ late' = late \ {m}
  /\ log' = Append(log, m)
  /\ UNCHANGED <<pc, caller, phase, delivery, queue>>

Less(n) == IF n > 0 THEN n - 1 ELSE 0

Tick ==
  /\ timer' = [t \in Thread |-> Less(timer[t])]
  /\ queue' = [s \in Slot |->
       IF Busy(s) THEN [queue[s] EXCEPT !.left = Less(@)] ELSE Free]
  /\ UNCHANGED <<pc, mine, retries, phase, delivery, late, log>>

------------------------------------------------------------------------------

\* A thread goes on by itself, the callbacks it has to run included.
Step(t) ==
  \/ \E s \in Slot : Produce(t, s) \/ Serve(t, s)
  \/ ProduceFull(t)
  \/ ProduceGivesUp(t)
  \/ ProduceRaises(t)
  \/ SleepBeforeRetry(t)
  \/ Retry(t)
  \/ SetDeadline(t)
  \/ PollOnce(t)
  \/ PollReturns(t)
  \/ Receipt(t)
  \/ DeliveryFails(t)
  \/ DeadlinePasses(t)
  \/ Closed(t)

Next ==
  \/ \E t \in Thread :
       \/ \E m \in Message : Publish(t, m)
       \/ Close(t)
       \/ Step(t)
  \/ \E s \in Slot : BrokerAppends(s) \/ BrokerConfirms(s) \/ ClientGivesUp(s)
  \/ \E m \in Message : ArrivesLate(m)
  \/ Tick

Spec == Init /\ [][Next]_vars

\* Threads are scheduled and time passes.  Nothing is assumed of the broker.
Fairness ==
  /\ \A t \in Thread : WF_vars(Step(t))
  /\ WF_vars(Tick)

FairSpec == Spec /\ Fairness

------------------------------------------------------------------------------
(* Properties *)

Entry == [message : Message, state : {"queued", "appended", "ok", "error"},
          left : Nat]

Working == {"produce", "make room", "sleep", "enqueued", "check", "poll"}

\* Every variable has its type, and a thread has a message while it publishes.
TypeOK ==
  /\ pc \in [Thread -> Working \cup {"idle", "flush"}]
  /\ mine \in [Thread -> Message \cup {Nothing}]
  /\ \A t \in Thread : mine[t] \in Message <=> pc[t] \in Working
  /\ retries \in [Thread -> 0 .. RetryAttempts]
  /\ \A t \in Thread : pc[t] = "make room" => retries[t] < RetryAttempts
  /\ timer \in [Thread -> Nat]
  /\ phase \in [Message -> {"new", "calling", "confirmed", "refused",
                            "failed", "unknown"}]
  /\ delivery \in [Message -> {Nothing, "ok", "error"}]
  /\ queue \in [Slot -> Entry \cup {Free}]
  /\ \A s \in Slot : Busy(s) => queue[s] \in Entry
  /\ late \subseteq Message
  /\ log \in Seq(Message)

Arrived(m) == m \in ToSet(log)

\* Threads serve each other's callbacks, and still a receipt is only returned
\* for a message that is in the topic.
ReceiptIsOwn ==
  \A m \in Message : phase[m] = "confirmed" => Arrived(m)

\* No message is in the topic twice, whatever retries, timeouts and late
\* arrivals it had.
AtMostOnce == IsInjective(log)

\* A message refused for a full queue never arrives, so it may be sent again.
RefusedNeverArrives ==
  \A m \in Message : phase[m] = "refused" =>
    /\ ~Arrived(m)
    /\ m \notin late
    /\ \A s \in Slot : Busy(s) => queue[s].message # m

\* The wait outlasts the client: a call ends as unknown only when the client
\* has no time left to deliver its message.
NeverGivesUpFirst ==
  \A m \in Message : phase[m] = "unknown" =>
    \A s \in Slot : Busy(s) /\ queue[s].message = m => queue[s].left = 0

\* The client, the topic and the callbacks have never heard of m.
NotSent(m) ==
  /\ ~Arrived(m)
  /\ m \notin late
  /\ delivery[m] = Nothing
  /\ \A s \in Slot : Busy(s) => queue[s].message # m

\* A message that its call has not enqueued yet.
Waiting(m) ==
  \E t \in Thread :
    mine[t] = m /\ pc[t] \in {"produce", "make room", "sleep"}

\* No two calls share a message, and their messages are being called.
CallsAreApart ==
  /\ \A t, u \in Thread : mine[t] = mine[u] => t = u \/ mine[t] = Nothing
  /\ \A t \in Thread : pc[t] \in Working => phase[mine[t]] = "calling"

\* What nobody has enqueued, or was refused, is nowhere.
UnsentIsNowhere ==
  \A m \in Message :
    phase[m] \in {"new", "refused"} \/ Waiting(m) => NotSent(m)

OneSlotEach ==
  \A r, s \in Slot :
    Busy(r) /\ Busy(s) /\ queue[r].message = queue[s].message => r = s

\* A message is in one place: waiting in a slot, on the wire, or in the topic.
QueueFits ==
  /\ \A s \in Slot : Busy(s) =>
       /\ delivery[queue[s].message] = Nothing
       /\ queue[s].left <= DeliveryTimeout
       /\ queue[s].state = "queued" =>
            ~Arrived(queue[s].message) /\ queue[s].message \notin late
       /\ queue[s].state \in {"appended", "ok"} => Arrived(queue[s].message)
  /\ \A m \in late : ~Arrived(m)
  /\ \A m \in Message : delivery[m] = "ok" => Arrived(m)

\* Whoever waits has at least as much time left as the client.
WaitOutlastsClient ==
  \A t \in Thread, s \in Slot :
    pc[t] \in {"check", "poll"} /\ Busy(s) /\ queue[s].message = mine[t]
      => queue[s].left <= timer[t]

\* The inductive invariant.
IInv ==
  /\ TypeOK
  /\ CallsAreApart
  /\ UnsentIsNowhere
  /\ OneSlotEach
  /\ QueueFits
  /\ WaitOutlastsClient
  /\ ReceiptIsOwn
  /\ AtMostOnce
  /\ NeverGivesUpFirst

\* Callers know no more than MessageDelivery says.
Delivery == INSTANCE MessageDelivery
DeliverySpec == Delivery!Spec

\* Every call ends, even if the broker never answers and the queue is full.
CallsEnd ==
  \A m \in Message : phase[m] = "calling" ~> phase[m] # "calling"
==============================================================================
