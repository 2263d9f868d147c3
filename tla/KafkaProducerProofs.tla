-------------------------- MODULE KafkaProducerProofs --------------------------
(***************************************************************************)
(* For any number of threads, messages and slots, any timeouts and any     *)
(* number of retries: the invariant IInv of KafkaProducer, its safety      *)
(* properties, and that it implements MessageDelivery.                     *)
(***************************************************************************)
EXTENDS KafkaProducer, TLAPS

\* What an appended message changes in the topic.
LEMMA AppendArrives ==
  ASSUME NEW s \in Seq(Message), NEW m \in Message
  PROVE  /\ ToSet(Append(s, m)) = ToSet(s) \cup {m}
         /\ Append(s, m) \in Seq(Message)
         /\ IsInjective(s) /\ m \notin ToSet(s) => IsInjective(Append(s, m))
<1>1. /\ Append(s, m) \in Seq(Message)
      /\ DOMAIN Append(s, m) = DOMAIN s \cup {Len(s) + 1}
      /\ Append(s, m)[Len(s) + 1] = m
      /\ \A i \in DOMAIN s : Append(s, m)[i] = s[i] /\ i # Len(s) + 1
  OBVIOUS
<1>2. ToSet(Append(s, m)) = ToSet(s) \cup {m}
  BY <1>1 DEF ToSet
<1>3. ASSUME IsInjective(s), m \notin ToSet(s)
      PROVE  IsInjective(Append(s, m))
  BY <1>1, <1>3 DEF IsInjective, ToSet
<1> QED
  BY <1>1, <1>2, <1>3

\* The part of the type invariant about threads and callers, and the part
\* about the client.
CallerTypes ==
  /\ pc \in [Thread -> Working \cup {"idle", "flush"}]
  /\ mine \in [Thread -> Message \cup {Nothing}]
  /\ \A t \in Thread : mine[t] \in Message <=> pc[t] \in Working
  /\ retries \in [Thread -> 0 .. RetryAttempts]
  /\ \A t \in Thread : pc[t] = "make room" => retries[t] < RetryAttempts
  /\ timer \in [Thread -> Nat]
  /\ phase \in [Message -> {"new", "calling", "confirmed", "refused",
                            "failed", "unknown"}]

ClientTypes ==
  /\ delivery \in [Message -> {Nothing, "ok", "error"}]
  /\ queue \in [Slot -> Entry \cup {Free}]
  /\ \A s \in Slot : Busy(s) => queue[s] \in Entry
  /\ late \subseteq Message
  /\ log \in Seq(Message)

LEMMA TypesSplit == TypeOK <=> CallerTypes /\ ClientTypes
BY DEF TypeOK, CallerTypes, ClientTypes

LEMMA TypesSplitNext == TypeOK' <=> CallerTypes' /\ ClientTypes'
BY DEF TypeOK, CallerTypes, ClientTypes

\* A thread that is publishing has a message of its own.
LEMMA MineIsMessage ==
  ASSUME IInv, NEW t \in Thread, pc[t] \in Working
  PROVE  /\ mine[t] \in Message
         /\ phase[mine[t]] = "calling"
         /\ \A u \in Thread : u # t => mine[u] # mine[t]
<1>1. mine[t] \in Message
  BY TypesSplit DEF IInv, CallerTypes
<1>2. mine[t] # Nothing \/ Nothing \in Message
  BY <1>1
<1> QED
  BY <1>1, ProducerAssumption DEF ProducerAssumption, IInv, CallsAreApart

\* Steps of callers leave the client's part of the invariant alone.
LEMMA ClientKept ==
  ASSUME IInv, UNCHANGED <<delivery, queue, late, log>>
  PROVE  /\ ClientTypes' /\ OneSlotEach' /\ QueueFits' /\ AtMostOnce'
         /\ \A m \in Message : NotSent(m)' <=> NotSent(m)
         /\ \A s \in Slot : Busy(s)' <=> Busy(s)
         /\ \A m : Arrived(m)' <=> Arrived(m)
<1>1. ClientTypes'
  BY TypesSplit DEF IInv, ClientTypes, Busy
<1>2. OneSlotEach' /\ QueueFits' /\ AtMostOnce'
  BY DEF IInv, OneSlotEach, QueueFits, AtMostOnce, Busy, Arrived
<1>3. \A m \in Message : NotSent(m)' <=> NotSent(m)
  BY DEF NotSent, Busy, Arrived
<1> QED
  BY <1>1, <1>2, <1>3 DEF Busy, Arrived

\* A thread takes a new message.
LEMMA PublishPreserves ==
  ASSUME IInv, NEW t \in Thread, NEW m \in Message, Publish(t, m)
  PROVE  IInv'
<1>0. /\ CallerTypes /\ Nothing \notin Message /\ 0 \in 0 .. RetryAttempts
  BY TypesSplit, ProducerAssumption DEF IInv, ProducerAssumption
<1>1. /\ UNCHANGED <<timer, delivery, queue, late, log>>
      /\ pc[t] = "idle" /\ phase[m] = "new"
      /\ pc' = [pc EXCEPT ![t] = "produce"]
      /\ mine' = [mine EXCEPT ![t] = m]
      /\ retries' = [retries EXCEPT ![t] = 0]
      /\ phase' = [phase EXCEPT ![m] = "calling"]
  BY DEF Publish, Goto, client
<1>2. /\ pc'[t] = "produce" /\ mine'[t] = m /\ phase'[m] = "calling"
      /\ \A u \in Thread : u # t => pc'[u] = pc[u] /\ mine'[u] = mine[u]
      /\ \A n \in Message : n # m => phase'[n] = phase[n]
  BY <1>0, <1>1 DEF CallerTypes
<1>3. \A u \in Thread : mine[u] # m
  <2>1. \A u \in Thread : pc[u] \in Working => mine[u] # m
    BY <1>1, MineIsMessage
  <2> QED
    BY <1>0, <2>1 DEF CallerTypes
<1>4. CallerTypes'
  BY <1>0, <1>1 DEF CallerTypes, Working
<1>5. CallsAreApart'
  <2>1. \A u, v \in Thread : mine'[u] = mine'[v] => u = v \/ mine'[u] = Nothing
    BY <1>2, <1>3 DEF IInv, CallsAreApart
  <2>2. \A u \in Thread : pc'[u] \in Working => phase'[mine'[u]] = "calling"
    BY <1>0, <1>2, <1>3, MineIsMessage
  <2> QED
    BY <2>1, <2>2 DEF CallsAreApart
<1>6. UnsentIsNowhere'
  <2>1. NotSent(m)
    BY <1>1 DEF IInv, UnsentIsNowhere
  <2>2. ASSUME NEW n \in Message, n # m,
               phase'[n] \in {"new", "refused"} \/ Waiting(n)'
        PROVE  NotSent(n)
    BY <1>2, <2>2 DEF IInv, UnsentIsNowhere, Waiting
  <2> QED
    BY <1>1, <2>1, <2>2, ClientKept DEF UnsentIsNowhere
<1>7. WaitOutlastsClient'
  BY <1>1, <1>2 DEF IInv, WaitOutlastsClient, Busy
<1>8. ReceiptIsOwn' /\ NeverGivesUpFirst'
  BY <1>1, <1>2 DEF IInv, ReceiptIsOwn, NeverGivesUpFirst, Busy, Arrived
<1> QED
  BY <1>1, <1>4, <1>5, <1>6, <1>7, <1>8, ClientKept, TypesSplitNext DEF IInv

\* The client takes a message that is nowhere else, before its caller sets
\* the deadline.
LEMMA ProducePreserves ==
  ASSUME IInv, NEW t \in Thread, NEW s \in Slot, Produce(t, s)
  PROVE  IInv'
<1> DEFINE m == mine[t]
           entry == [message |-> m, state |-> "queued", left |-> DeliveryTimeout]
<1>0. CallerTypes /\ ClientTypes /\ DeliveryTimeout \in Nat
  BY TypesSplit, ProducerAssumption DEF IInv, ProducerAssumption
<1>1. /\ UNCHANGED <<mine, retries, timer, phase, delivery, late, log>>
      /\ pc[t] = "produce" /\ ~Busy(s)
      /\ pc' = [pc EXCEPT ![t] = "enqueued"]
      /\ queue' = [queue EXCEPT ![s] = entry]
  BY DEF Produce, Goto, caller
<1>2. /\ m \in Message /\ phase[m] = "calling" /\ entry \in Entry
      /\ \A u \in Thread : u # t => mine[u] # m
  BY <1>0, <1>1, MineIsMessage DEF Working, Entry
<1>3. NotSent(m)
  BY <1>1, <1>2 DEF IInv, UnsentIsNowhere, Waiting
<1>4. /\ pc'[t] = "enqueued"
      /\ \A u \in Thread : u # t => pc'[u] = pc[u]
      /\ queue'[s] = entry
      /\ \A r \in Slot : r # s => queue'[r] = queue[r]
  BY <1>0, <1>1 DEF CallerTypes, ClientTypes
<1>5. CallerTypes'
  BY <1>0, <1>1 DEF CallerTypes, Working
<1>6. ClientTypes'
  BY <1>0, <1>1, <1>2, <1>4 DEF ClientTypes, Busy
<1>7. CallsAreApart'
  BY <1>1, <1>4 DEF IInv, CallsAreApart, Working
<1>8. UnsentIsNowhere'
  <2>1. ASSUME NEW n \in Message,
               phase'[n] \in {"new", "refused"} \/ Waiting(n)'
        PROVE  NotSent(n) /\ n # m
    BY <1>1, <1>2, <1>4, <2>1 DEF IInv, UnsentIsNowhere, Waiting
  <2> QED
    BY <1>1, <1>4, <2>1 DEF UnsentIsNowhere, NotSent, Arrived, Busy
<1>9. OneSlotEach'
  BY <1>3, <1>4 DEF IInv, OneSlotEach, NotSent, Busy
<1>10. QueueFits'
  BY <1>0, <1>1, <1>3, <1>4 DEF IInv, QueueFits, NotSent, Arrived, Busy
<1>11. WaitOutlastsClient'
  BY <1>1, <1>2, <1>4 DEF IInv, WaitOutlastsClient, Busy
<1>12. ReceiptIsOwn' /\ AtMostOnce' /\ NeverGivesUpFirst'
  BY <1>1, <1>2, <1>4
  DEF IInv, ReceiptIsOwn, AtMostOnce, NeverGivesUpFirst, Busy, Arrived
<1> QED
  BY <1>5, <1>6, <1>7, <1>8, <1>9, <1>10, <1>11, <1>12, TypesSplitNext DEF IInv

\* A thread goes on with its call, or closes, without any effect outside.
Moves(t, from, to) ==
  /\ pc[t] = from
  /\ pc' = [pc EXCEPT ![t] = to]
  /\ UNCHANGED <<mine, phase, delivery, queue, late, log>>
  /\ from \in Working <=> to \in Working
  /\ to \in {"produce", "make room", "sleep"}
       => from \in {"produce", "make room", "sleep"}

LEMMA MovePreserves ==
  ASSUME IInv, NEW t \in Thread, NEW from,
         NEW to \in Working \cup {"idle", "flush"}, Moves(t, from, to),
         retries' \in [Thread -> 0 .. RetryAttempts],
         timer' \in [Thread -> Nat],
         \A u \in Thread : u # t => retries'[u] = retries[u] /\ timer'[u] = timer[u],
         to = "make room" => retries'[t] < RetryAttempts,
         WaitOutlastsClient'
  PROVE  IInv'
<1>0. CallerTypes
  BY TypesSplit DEF IInv
<1>1. /\ UNCHANGED <<mine, phase, delivery, queue, late, log>>
      /\ pc[t] = from /\ pc'[t] = to
      /\ \A u \in Thread : u # t => pc'[u] = pc[u]
  BY <1>0 DEF Moves, CallerTypes
<1>2. CallerTypes'
  BY <1>0, <1>1 DEF CallerTypes, Moves
<1>3. CallsAreApart'
  <2>1. \A u \in Thread : pc'[u] \in Working => pc[u] \in Working
    BY <1>1 DEF Moves
  <2> QED
    BY <1>1, <2>1 DEF IInv, CallsAreApart
<1>4. UnsentIsNowhere'
  <2>1. ASSUME NEW n \in Message,
               phase'[n] \in {"new", "refused"} \/ Waiting(n)'
        PROVE  NotSent(n)
    BY <1>1, <2>1 DEF IInv, UnsentIsNowhere, Waiting, Moves
  <2> QED
    BY <1>1, <2>1, ClientKept DEF UnsentIsNowhere
<1>5. ReceiptIsOwn' /\ NeverGivesUpFirst'
  BY <1>1 DEF IInv, ReceiptIsOwn, NeverGivesUpFirst, Busy, Arrived
<1> QED
  BY <1>1, <1>2, <1>3, <1>4, <1>5, ClientKept, TypesSplitNext DEF IInv

\* A call ends: a receipt needs the message in the topic, a refusal that it
\* was not enqueued, and an unknown delivery that the client's time is over.
LEMMA EndPreserves ==
  ASSUME IInv, NEW t \in Thread, pc[t] \in Working,
         NEW result \in {"confirmed", "refused", "failed", "unknown"},
         End(t, result),
         result = "confirmed" => Arrived(mine[t]),
         result = "refused" => pc[t] = "produce",
         result = "unknown" => pc[t] = "check" /\ timer[t] = 0
  PROVE  IInv'
<1> DEFINE m == mine[t]
<1>0. CallerTypes /\ ClientTypes /\ Nothing \notin Message
  BY TypesSplit, ProducerAssumption DEF IInv, ProducerAssumption
<1>1. /\ UNCHANGED <<retries, timer, delivery, queue, late, log>>
      /\ pc' = [pc EXCEPT ![t] = "idle"]
      /\ mine' = [mine EXCEPT ![t] = Nothing]
      /\ phase' = [phase EXCEPT ![m] = result]
  BY DEF End, Goto, client
<1>2. /\ m \in Message /\ phase[m] = "calling"
      /\ \A u \in Thread : u # t => mine[u] # m
  BY MineIsMessage
<1>3. /\ pc'[t] = "idle" /\ mine'[t] = Nothing /\ phase'[m] = result
      /\ \A u \in Thread : u # t => pc'[u] = pc[u] /\ mine'[u] = mine[u]
      /\ \A n \in Message : n # m => phase'[n] = phase[n]
  BY <1>0, <1>1, <1>2 DEF CallerTypes
<1>4. CallerTypes'
  BY <1>0, <1>1, <1>2, <1>3 DEF CallerTypes, Working
<1>5. CallsAreApart'
  <2>1. \A u, v \in Thread : mine'[u] = mine'[v] => u = v \/ mine'[u] = Nothing
    BY <1>3 DEF IInv, CallsAreApart
  <2>2. ASSUME NEW u \in Thread, pc'[u] \in Working
        PROVE  phase'[mine'[u]] = "calling"
    <3>1. u # t
      BY <1>3, <2>2 DEF Working
    <3>2. mine[u] \in Message /\ phase[mine[u]] = "calling"
      BY <1>3, <2>2, <3>1, MineIsMessage
    <3> QED
      BY <1>2, <1>3, <3>1, <3>2
  <2> QED
    BY <2>1, <2>2 DEF CallsAreApart
<1>6. UnsentIsNowhere'
  <2>1. ASSUME NEW n \in Message,
               phase'[n] \in {"new", "refused"} \/ Waiting(n)'
        PROVE  NotSent(n)
    <3>1. CASE n = m
      <4>1. ~Waiting(n)'
        BY <1>0, <1>2, <1>3, <3>1 DEF Waiting
      <4>2. pc[t] = "produce"
        BY <1>3, <2>1, <3>1, <4>1
      <4> QED
        BY <1>2, <3>1, <4>2 DEF IInv, UnsentIsNowhere, Waiting
    <3>2. CASE n # m
      BY <1>0, <1>3, <2>1, <3>2 DEF IInv, UnsentIsNowhere, Waiting
    <3> QED
      BY <3>1, <3>2
  <2> QED
    BY <1>1, <2>1, ClientKept DEF UnsentIsNowhere
<1>7. WaitOutlastsClient'
  BY <1>1, <1>3 DEF IInv, WaitOutlastsClient, Busy
<1>8. ReceiptIsOwn'
  BY <1>1, <1>2, <1>3 DEF IInv, ReceiptIsOwn, Arrived
<1>9. NeverGivesUpFirst'
  <2>1. ASSUME NEW s \in Slot, Busy(s), queue[s].message = m,
               result = "unknown"
        PROVE  queue[s].left = 0
    <3>1. queue[s].left <= timer[t]
      BY <2>1 DEF IInv, WaitOutlastsClient
    <3>2. queue[s].left \in Nat /\ timer[t] = 0
      BY <1>0, <2>1 DEF ClientTypes, Entry
    <3> QED
      BY <3>1, <3>2
  <2> QED
    BY <1>1, <1>2, <1>3, <2>1 DEF IInv, NeverGivesUpFirst, Busy
<1> QED
  BY <1>1, <1>4, <1>5, <1>6, <1>7, <1>8, <1>9, ClientKept, TypesSplitNext
  DEF IInv

\* The client's steps leave the callers alone.
LEMMA CallerKept ==
  ASSUME IInv, UNCHANGED <<pc, mine, retries, timer, phase>>
  PROVE  /\ CallerTypes' /\ CallsAreApart'
         /\ \A m \in Message : Waiting(m)' <=> Waiting(m)
BY TypesSplit DEF IInv, CallerTypes, CallsAreApart, Waiting

\* The callback of a message runs in whatever thread polls, and fills the
\* closure of the call that enqueued it.
LEMMA ServePreserves ==
  ASSUME IInv, NEW t \in Thread, NEW s \in Slot, Serve(t, s)
  PROVE  IInv'
<1> DEFINE m == queue[s].message
<1>0. ClientTypes
  BY TypesSplit DEF IInv
<1>1. /\ UNCHANGED <<pc, mine, retries, timer, phase, late, log>>
      /\ Busy(s) /\ queue[s].state \in {"ok", "error"}
      /\ delivery' = [delivery EXCEPT ![m] = queue[s].state]
      /\ queue' = [queue EXCEPT ![s] = Free]
  BY DEF Serve, Reported, CallOf, caller
<1>2. /\ m \in Message
      /\ delivery'[m] = queue[s].state
      /\ \A n \in Message : n # m => delivery'[n] = delivery[n]
      /\ ~Busy(s)' /\ queue'[s] = Free
      /\ \A r \in Slot : r # s => queue'[r] = queue[r]
  BY <1>0, <1>1 DEF ClientTypes, Entry, Busy
<1>a. \A r \in Slot : Busy(r)' => r # s /\ Busy(r) /\ queue'[r] = queue[r]
  BY <1>2 DEF Busy
<1>3. ClientTypes'
  BY <1>0, <1>1, <1>a DEF ClientTypes
<1>4. UnsentIsNowhere'
  <2>1. ASSUME NEW n \in Message, NotSent(n)
        PROVE  NotSent(n)'
    <3>1. n # m
      BY <1>1, <2>1 DEF NotSent
    <3> QED
      BY <1>1, <1>2, <1>a, <2>1, <3>1 DEF NotSent, Arrived
  <2> QED
    BY <1>1, <2>1, CallerKept DEF IInv, UnsentIsNowhere
<1>5. OneSlotEach'
  BY <1>a DEF IInv, OneSlotEach
<1>6. QueueFits'
  <2>1. ASSUME NEW r \in Slot, Busy(r)'
        PROVE  delivery'[queue'[r].message] = Nothing
    <3>1. Busy(r) /\ r # s /\ queue'[r] = queue[r]
      BY <1>a, <2>1
    <3>2. queue[r].message \in Message /\ queue[r].message # m
      BY <1>0, <1>1, <3>1 DEF ClientTypes, Entry, IInv, OneSlotEach
    <3> QED
      BY <1>2, <3>1, <3>2 DEF IInv, QueueFits
  <2>2. ASSUME NEW n \in Message, delivery'[n] = "ok"
        PROVE  Arrived(n)
    BY <1>1, <1>2, <2>2 DEF IInv, QueueFits
  <2> QED
    BY <1>1, <1>a, <2>1, <2>2 DEF IInv, QueueFits, Arrived
<1>7. WaitOutlastsClient' /\ NeverGivesUpFirst'
  BY <1>1, <1>a DEF IInv, WaitOutlastsClient, NeverGivesUpFirst
<1>8. ReceiptIsOwn' /\ AtMostOnce'
  BY <1>1 DEF IInv, ReceiptIsOwn, AtMostOnce, Arrived
<1> QED
  BY <1>1, <1>3, <1>4, <1>5, <1>6, <1>7, <1>8, CallerKept, TypesSplitNext
  DEF IInv

\* A slot changes its state and keeps its message.
LEMMA SlotKeepsMessage ==
  ASSUME IInv, NEW s \in Slot, Busy(s),
         NEW state \in {"queued", "appended", "ok", "error"},
         queue' = [queue EXCEPT ![s].state = state],
         UNCHANGED <<pc, mine, retries, timer, phase, delivery>>
  PROVE  /\ queue[s].message \in Message
         /\ queue' \in [Slot -> Entry \cup {Free}]
         /\ \A r \in Slot : Busy(r)' => queue'[r] \in Entry
         /\ \A r \in Slot : Busy(r)' => Busy(r)
         /\ \A r \in Slot : Busy(r)' =>
              /\ queue'[r].message = queue[r].message
              /\ queue'[r].left = queue[r].left
              /\ queue'[r].state = IF r = s THEN state ELSE queue[r].state
         /\ OneSlotEach' /\ WaitOutlastsClient' /\ NeverGivesUpFirst'
<1>0. ClientTypes
  BY TypesSplit DEF IInv
<1>1. queue[s] \in Entry
  BY <1>0 DEF ClientTypes
<1>2. [queue[s] EXCEPT !.state = state] \in Entry
  BY <1>1 DEF Entry
<1>3. /\ queue'[s] = [queue[s] EXCEPT !.state = state]
      /\ \A r \in Slot : r # s => queue'[r] = queue[r]
  BY <1>0 DEF ClientTypes
<1>4. /\ queue'[s].message = queue[s].message
      /\ queue'[s].left = queue[s].left
      /\ queue'[s].state = state
  BY <1>1, <1>3 DEF Entry
<1>5. \A r \in Slot : Busy(r)' =>
        /\ Busy(r)
        /\ queue'[r].message = queue[r].message
        /\ queue'[r].left = queue[r].left
        /\ queue'[r].state = IF r = s THEN state ELSE queue[r].state
  BY <1>3, <1>4 DEF Busy
<1>6. queue' \in [Slot -> Entry \cup {Free}]
  BY <1>0, <1>2 DEF ClientTypes
<1>7. \A r \in Slot : Busy(r)' => queue'[r] \in Entry
  BY <1>0, <1>2, <1>3, <1>5 DEF ClientTypes
<1>8. OneSlotEach'
  BY <1>5 DEF IInv, OneSlotEach
<1>9. WaitOutlastsClient' /\ NeverGivesUpFirst'
  BY <1>5 DEF IInv, WaitOutlastsClient, NeverGivesUpFirst
<1> QED
  BY <1>1, <1>5, <1>6, <1>7, <1>8, <1>9 DEF Entry

LEMMA BrokerAppendsPreserves ==
  ASSUME IInv, NEW s \in Slot, BrokerAppends(s)
  PROVE  IInv'
<1> DEFINE m == queue[s].message
<1>0. ClientTypes
  BY TypesSplit DEF IInv
<1>1. /\ UNCHANGED <<pc, mine, retries, timer, phase, delivery, late>>
      /\ Busy(s) /\ queue[s].state = "queued"
      /\ log' = Append(log, m)
      /\ queue' = [queue EXCEPT ![s].state = "appended"]
  BY DEF BrokerAppends, caller
<1>2. m \in Message /\ ~Arrived(m) /\ m \notin late /\ log \in Seq(Message)
  BY <1>0, <1>1 DEF ClientTypes, Entry, IInv, QueueFits
<1>3. /\ log' \in Seq(Message)
      /\ \A n : Arrived(n)' <=> Arrived(n) \/ n = m
      /\ AtMostOnce'
  BY <1>1, <1>2, AppendArrives DEF Arrived, AtMostOnce, IInv
<1>4. /\ queue' \in [Slot -> Entry \cup {Free}]
      /\ \A r \in Slot : Busy(r)' => queue'[r] \in Entry
      /\ \A r \in Slot : Busy(r)' =>
           /\ Busy(r)
           /\ queue'[r].message = queue[r].message
           /\ queue'[r].left = queue[r].left
           /\ queue'[r].state = IF r = s THEN "appended" ELSE queue[r].state
      /\ OneSlotEach' /\ WaitOutlastsClient' /\ NeverGivesUpFirst'
  BY <1>1, SlotKeepsMessage
<1>5. ClientTypes'
  BY <1>0, <1>1, <1>3, <1>4 DEF ClientTypes
<1>6. UnsentIsNowhere'
  <2>1. ASSUME NEW n \in Message, NotSent(n)
        PROVE  NotSent(n)'
    <3>1. n # m
      BY <1>1, <2>1 DEF NotSent
    <3> QED
      BY <1>1, <1>3, <1>4, <2>1, <3>1 DEF NotSent
  <2> QED
    BY <1>1, <2>1, CallerKept DEF IInv, UnsentIsNowhere
<1>7. QueueFits'
  <2>1. ASSUME NEW r \in Slot, Busy(r)', r # s
        PROVE  queue'[r].message # m
    BY <1>1, <1>4, <2>1 DEF IInv, OneSlotEach
  <2> QED
    BY <1>1, <1>2, <1>3, <1>4, <2>1 DEF IInv, QueueFits
<1>8. ReceiptIsOwn'
  BY <1>1, <1>3 DEF IInv, ReceiptIsOwn
<1> QED
  BY <1>1, <1>3, <1>4, <1>5, <1>6, <1>7, <1>8, CallerKept, TypesSplitNext
  DEF IInv

LEMMA BrokerConfirmsPreserves ==
  ASSUME IInv, NEW s \in Slot, BrokerConfirms(s)
  PROVE  IInv'
<1>0. ClientTypes
  BY TypesSplit DEF IInv
<1>1. /\ UNCHANGED <<pc, mine, retries, timer, phase, delivery, late, log>>
      /\ Busy(s) /\ queue[s].state = "appended"
      /\ queue' = [queue EXCEPT ![s].state = "ok"]
  BY DEF BrokerConfirms, caller
<1>2. /\ queue' \in [Slot -> Entry \cup {Free}]
      /\ \A r \in Slot : Busy(r)' => queue'[r] \in Entry
      /\ \A r \in Slot : Busy(r)' =>
           /\ Busy(r)
           /\ queue'[r].message = queue[r].message
           /\ queue'[r].left = queue[r].left
           /\ queue'[r].state = IF r = s THEN "ok" ELSE queue[r].state
      /\ OneSlotEach' /\ WaitOutlastsClient' /\ NeverGivesUpFirst'
  BY <1>1, SlotKeepsMessage
<1>3. ClientTypes'
  BY <1>0, <1>1, <1>2 DEF ClientTypes
<1>4. UnsentIsNowhere'
  <2>1. ASSUME NEW n \in Message, NotSent(n)
        PROVE  NotSent(n)'
    BY <1>1, <1>2, <2>1 DEF NotSent, Arrived
  <2> QED
    BY <1>1, <2>1, CallerKept DEF IInv, UnsentIsNowhere
<1>5. QueueFits'
  BY <1>1, <1>2 DEF IInv, QueueFits, Arrived
<1>6. ReceiptIsOwn' /\ AtMostOnce'
  BY <1>1 DEF IInv, ReceiptIsOwn, AtMostOnce, Arrived
<1> QED
  BY <1>1, <1>2, <1>3, <1>4, <1>5, <1>6, CallerKept, TypesSplitNext DEF IInv

LEMMA ClientGivesUpPreserves ==
  ASSUME IInv, NEW s \in Slot, ClientGivesUp(s)
  PROVE  IInv'
<1> DEFINE m == queue[s].message
<1>0. ClientTypes
  BY TypesSplit DEF IInv
<1>1. /\ UNCHANGED <<pc, mine, retries, timer, phase, delivery, log>>
      /\ Busy(s) /\ queue[s].state \in {"queued", "appended"}
      /\ queue' = [queue EXCEPT ![s].state = "error"]
      /\ \/ late' = late
         \/ queue[s].state = "queued" /\ late' = late \cup {m}
  BY DEF ClientGivesUp, caller
<1>2. /\ m \in Message
      /\ queue' \in [Slot -> Entry \cup {Free}]
      /\ \A r \in Slot : Busy(r)' => queue'[r] \in Entry
      /\ \A r \in Slot : Busy(r)' =>
           /\ Busy(r)
           /\ queue'[r].message = queue[r].message
           /\ queue'[r].left = queue[r].left
           /\ queue'[r].state = IF r = s THEN "error" ELSE queue[r].state
      /\ OneSlotEach' /\ WaitOutlastsClient' /\ NeverGivesUpFirst'
  BY <1>1, SlotKeepsMessage
<1>3. ClientTypes'
  BY <1>0, <1>1, <1>2 DEF ClientTypes
<1>4. UnsentIsNowhere'
  <2>1. ASSUME NEW n \in Message, NotSent(n)
        PROVE  NotSent(n)'
    <3>1. n # m
      BY <1>1, <2>1 DEF NotSent
    <3> QED
      BY <1>1, <1>2, <2>1, <3>1 DEF NotSent, Arrived
  <2> QED
    BY <1>1, <2>1, CallerKept DEF IInv, UnsentIsNowhere
<1>5. QueueFits'
  <2>1. ASSUME NEW r \in Slot, Busy(r)', r # s
        PROVE  queue'[r].message # m
    BY <1>1, <1>2, <2>1 DEF IInv, OneSlotEach
  <2>2. queue[s].state = "queued" => ~Arrived(m)
    BY <1>1 DEF IInv, QueueFits
  <2> QED
    BY <1>1, <1>2, <2>1, <2>2 DEF IInv, QueueFits, Arrived
<1>6. ReceiptIsOwn' /\ AtMostOnce'
  BY <1>1 DEF IInv, ReceiptIsOwn, AtMostOnce, Arrived
<1> QED
  BY <1>1, <1>2, <1>3, <1>4, <1>5, <1>6, CallerKept, TypesSplitNext DEF IInv

LEMMA ArrivesLatePreserves ==
  ASSUME IInv, NEW m \in Message, ArrivesLate(m)
  PROVE  IInv'
<1>0. ClientTypes
  BY TypesSplit DEF IInv
<1>1. /\ UNCHANGED <<pc, mine, retries, timer, phase, delivery, queue>>
      /\ m \in late /\ late' = late \ {m}
      /\ log' = Append(log, m)
  BY DEF ArrivesLate, caller
<1>2. ~Arrived(m) /\ log \in Seq(Message)
  BY <1>0, <1>1 DEF ClientTypes, IInv, QueueFits
<1>3. /\ log' \in Seq(Message)
      /\ \A n : Arrived(n)' <=> Arrived(n) \/ n = m
      /\ AtMostOnce'
  BY <1>1, <1>2, AppendArrives DEF Arrived, AtMostOnce, IInv
<1>4. ClientTypes'
  BY <1>0, <1>1, <1>3 DEF ClientTypes, Busy
<1>5. UnsentIsNowhere'
  <2>1. ASSUME NEW n \in Message, NotSent(n)
        PROVE  NotSent(n)'
    <3>1. n # m
      BY <1>1, <2>1 DEF NotSent
    <3> QED
      BY <1>1, <1>3, <2>1, <3>1 DEF NotSent, Busy
  <2> QED
    BY <1>1, <2>1, CallerKept DEF IInv, UnsentIsNowhere
<1>6. QueueFits' /\ OneSlotEach'
  BY <1>1, <1>3 DEF IInv, QueueFits, OneSlotEach, Busy
<1>7. WaitOutlastsClient' /\ NeverGivesUpFirst'
  BY <1>1 DEF IInv, WaitOutlastsClient, NeverGivesUpFirst, Busy
<1>8. ReceiptIsOwn'
  BY <1>1, <1>3 DEF IInv, ReceiptIsOwn
<1> QED
  BY <1>1, <1>3, <1>4, <1>5, <1>6, <1>7, <1>8, CallerKept, TypesSplitNext
  DEF IInv

\* Time passes for the client as fast as for the callers.
LEMMA TickPreserves ==
  ASSUME IInv, Tick
  PROVE  IInv'
<1>0. CallerTypes /\ ClientTypes /\ DeliveryTimeout \in Nat
  BY TypesSplit, ProducerAssumption DEF IInv, ProducerAssumption
<1>1. /\ UNCHANGED <<pc, mine, retries, phase, delivery, late, log>>
      /\ timer' = [t \in Thread |-> Less(timer[t])]
      /\ queue' = [s \in Slot |->
           IF Busy(s) THEN [queue[s] EXCEPT !.left = Less(@)] ELSE Free]
  BY DEF Tick
<1>2. \A n \in Nat : Less(n) \in Nat /\ Less(n) <= n
  BY DEF Less
<1>3. \A i, j \in Nat : i <= j => Less(i) <= Less(j)
  BY DEF Less
<1>4. ASSUME NEW s \in Slot, Busy(s)'
      PROVE  /\ Busy(s) /\ queue[s] \in Entry /\ queue'[s] \in Entry
             /\ queue'[s].message = queue[s].message
             /\ queue'[s].state = queue[s].state
             /\ queue'[s].left = Less(queue[s].left)
  <2>1. Busy(s)
    BY <1>1, <1>4 DEF Busy
  <2>2. queue[s] \in Entry /\ queue'[s] = [queue[s] EXCEPT !.left = Less(@)]
    BY <1>0, <1>1, <2>1 DEF ClientTypes
  <2> QED
    BY <1>2, <2>1, <2>2 DEF Entry
<1>5. CallerTypes'
  BY <1>0, <1>1, <1>2 DEF CallerTypes
<1>6. ClientTypes'
  <2>1. queue' \in [Slot -> Entry \cup {Free}]
    BY <1>1, <1>4 DEF Busy
  <2> QED
    BY <1>0, <1>1, <1>4, <2>1 DEF ClientTypes
<1>7. CallsAreApart'
  BY <1>1 DEF IInv, CallsAreApart
<1>8. UnsentIsNowhere'
  BY <1>1, <1>4 DEF IInv, UnsentIsNowhere, NotSent, Waiting, Arrived
<1>9. OneSlotEach'
  BY <1>4 DEF IInv, OneSlotEach
<1>10. QueueFits'
  <2>1. ASSUME NEW s \in Slot, Busy(s)'
        PROVE  queue'[s].left <= DeliveryTimeout
    <3>1. /\ queue[s].left \in Nat /\ queue[s].left <= DeliveryTimeout
          /\ queue'[s].left \in Nat /\ queue'[s].left <= queue[s].left
      BY <1>2, <1>4, <2>1 DEF IInv, QueueFits, Entry
    <3> QED
      BY <1>0, <3>1
  <2>2. ASSUME NEW s \in Slot, Busy(s)'
        PROVE  /\ delivery'[queue'[s].message] = Nothing
               /\ queue'[s].state = "queued" =>
                    /\ ~Arrived(queue'[s].message)
                    /\ queue'[s].message \notin late'
               /\ queue'[s].state \in {"appended", "ok"}
                    => Arrived(queue'[s].message)
    <3>1. /\ Busy(s) /\ queue'[s].message = queue[s].message
          /\ queue'[s].state = queue[s].state
      BY <1>4, <2>2
    <3>2. /\ delivery[queue[s].message] = Nothing
          /\ queue[s].state = "queued" =>
               ~Arrived(queue[s].message) /\ queue[s].message \notin late
          /\ queue[s].state \in {"appended", "ok"} => Arrived(queue[s].message)
      BY <3>1 DEF IInv, QueueFits
    <3> QED
      BY <1>1, <3>1, <3>2
  <2>3. /\ \A m \in late' : ~Arrived(m)
        /\ \A m \in Message : delivery'[m] = "ok" => Arrived(m)
    BY <1>1 DEF IInv, QueueFits
  <2> QED
    BY <1>1, <2>1, <2>2, <2>3 DEF QueueFits, Arrived
<1>11. WaitOutlastsClient'
  <2>1. ASSUME NEW t \in Thread, NEW s \in Slot, pc[t] \in {"check", "poll"},
               Busy(s)', queue'[s].message = mine[t]
        PROVE  queue'[s].left <= timer'[t]
    <3>1. queue[s].left \in Nat /\ timer[t] \in Nat
      BY <1>0, <1>4, <2>1 DEF CallerTypes, Entry
    <3>2. queue[s].left <= timer[t]
      BY <1>4, <2>1 DEF IInv, WaitOutlastsClient
    <3> QED
      BY <1>1, <1>3, <1>4, <2>1, <3>1, <3>2
  <2> QED
    BY <1>1, <2>1 DEF WaitOutlastsClient
<1>12. NeverGivesUpFirst'
  <2>1. Less(0) = 0
    BY DEF Less
  <2> QED
    BY <1>1, <1>4, <2>1 DEF IInv, NeverGivesUpFirst
<1>13. ReceiptIsOwn' /\ AtMostOnce'
  BY <1>1 DEF IInv, ReceiptIsOwn, AtMostOnce, Arrived
<1> QED
  BY <1>5, <1>6, <1>7, <1>8, <1>9, <1>10, <1>11, <1>12, <1>13, TypesSplitNext
  DEF IInv

LEMMA StutterPreserves ==
  ASSUME IInv, UNCHANGED vars
  PROVE  IInv'
<1>1. UNCHANGED <<pc, mine, retries, timer, phase, delivery, queue, late, log>>
  BY DEF vars, caller, client
<1>2. WaitOutlastsClient' /\ ReceiptIsOwn' /\ NeverGivesUpFirst'
  BY <1>1 DEF IInv, WaitOutlastsClient, ReceiptIsOwn, NeverGivesUpFirst, Busy,
              Arrived
<1>3. UnsentIsNowhere'
  BY <1>1, ClientKept, CallerKept DEF IInv, UnsentIsNowhere
<1> QED
  BY <1>1, <1>2, <1>3, ClientKept, CallerKept, TypesSplitNext DEF IInv

\* A thread between two calls of the client.
LEMMA GoingOnPreserves ==
  ASSUME IInv, NEW t \in Thread,
         \/ ProduceFull(t) \/ Retry(t) \/ PollOnce(t) \/ PollReturns(t)
         \/ Closed(t)
  PROVE  IInv'
<1>0. CallerTypes
  BY TypesSplit DEF IInv
<1>1. UNCHANGED <<mine, retries, timer, phase, delivery, queue, late, log>>
  BY DEF ProduceFull, Retry, PollOnce, PollReturns, Closed, caller, client
<1>2. /\ retries' \in [Thread -> 0 .. RetryAttempts] /\ timer' \in [Thread -> Nat]
      /\ \A u \in Thread : retries'[u] = retries[u] /\ timer'[u] = timer[u]
  BY <1>0, <1>1 DEF CallerTypes
<1> SUFFICES \E from, to \in Working \cup {"idle", "flush"} :
               /\ Moves(t, from, to)
               /\ to = "make room" => retries'[t] < RetryAttempts
               /\ WaitOutlastsClient'
  BY <1>2, MovePreserves
<1>3. ASSUME NEW from, NEW to \in {"make room", "produce", "idle"},
             pc' = [pc EXCEPT ![t] = to]
      PROVE  WaitOutlastsClient'
  BY <1>0, <1>1, <1>3 DEF CallerTypes, IInv, WaitOutlastsClient, Busy
<1>4. ASSUME NEW to \in {"check", "poll"},
             pc[t] \in {"check", "poll"}, pc' = [pc EXCEPT ![t] = to]
      PROVE  WaitOutlastsClient'
  BY <1>0, <1>1, <1>4 DEF CallerTypes, IInv, WaitOutlastsClient, Busy
<1>5. CASE ProduceFull(t)
  <2>1. /\ Moves(t, "produce", "make room") /\ retries'[t] < RetryAttempts
        /\ pc' = [pc EXCEPT ![t] = "make room"]
    BY <1>1, <1>5 DEF ProduceFull, Goto, Moves, Working
  <2> QED
    BY <1>3, <2>1 DEF Working
<1>6. CASE Retry(t)
  <2>1. /\ Moves(t, "sleep", "produce")
        /\ pc' = [pc EXCEPT ![t] = "produce"]
    BY <1>1, <1>6 DEF Retry, Goto, Moves, Working
  <2> QED
    BY <1>3, <2>1 DEF Working
<1>7. CASE PollOnce(t)
  <2>1. /\ Moves(t, "check", "poll") /\ pc[t] = "check"
        /\ pc' = [pc EXCEPT ![t] = "poll"]
    BY <1>1, <1>7 DEF PollOnce, Goto, Moves, Working
  <2> QED
    BY <1>4, <2>1 DEF Working
<1>8. CASE PollReturns(t)
  <2>1. /\ Moves(t, "poll", "check") /\ pc[t] = "poll"
        /\ pc' = [pc EXCEPT ![t] = "check"]
    BY <1>1, <1>8 DEF PollReturns, Goto, Moves, Working
  <2> QED
    BY <1>4, <2>1 DEF Working
<1>9. CASE Closed(t)
  <2>1. /\ Moves(t, "flush", "idle")
        /\ pc' = [pc EXCEPT ![t] = "idle"]
    BY <1>1, <1>9 DEF Closed, Goto, Moves, Working
  <2> QED
    BY <1>3, <2>1 DEF Working
<1> QED
  BY <1>5, <1>6, <1>7, <1>8, <1>9

\* A thread that sets its timer: the deadline is at least the client's.
LEMMA TimerPreserves ==
  ASSUME IInv, NEW t \in Thread,
         SleepBeforeRetry(t) \/ SetDeadline(t) \/ Close(t)
  PROVE  IInv'
<1>0. CallerTypes /\ ClientTypes
  BY TypesSplit DEF IInv
<1>1. UNCHANGED <<mine, phase, delivery, queue, late, log>>
  BY DEF SleepBeforeRetry, SetDeadline, Close, client
<1>2. CASE SleepBeforeRetry(t)
  <2>1. retries[t] \in 0 .. RetryAttempts /\ retries[t] < RetryAttempts
    BY <1>0, <1>2 DEF CallerTypes, SleepBeforeRetry
  <2>2. /\ Backoff[retries[t]] \in Nat /\ retries[t] + 1 \in 0 .. RetryAttempts
    BY <2>1, ProducerAssumption DEF ProducerAssumption
  <2>3. /\ retries' \in [Thread -> 0 .. RetryAttempts]
        /\ timer' \in [Thread -> Nat]
        /\ \A u \in Thread : u # t =>
             retries'[u] = retries[u] /\ timer'[u] = timer[u]
    BY <1>0, <1>2, <2>2 DEF CallerTypes, SleepBeforeRetry
  <2>4. Moves(t, "make room", "sleep")
    BY <1>1, <1>2 DEF SleepBeforeRetry, Goto, Moves, Working
  <2>5. WaitOutlastsClient'
    BY <1>0, <1>1, <1>2, <2>3
    DEF CallerTypes, SleepBeforeRetry, Goto, IInv, WaitOutlastsClient, Busy
  <2> QED
    BY <2>3, <2>4, <2>5, MovePreserves DEF Working
<1>3. CASE SetDeadline(t)
  <2>1. WaitTimeout \in Nat /\ DeliveryTimeout \in Nat /\ DeliveryTimeout <= WaitTimeout
    BY ProducerAssumption DEF ProducerAssumption, WaitTimeout
  <2>2. /\ retries' \in [Thread -> 0 .. RetryAttempts]
        /\ timer' \in [Thread -> Nat] /\ timer'[t] = WaitTimeout
        /\ \A u \in Thread : u # t =>
             retries'[u] = retries[u] /\ timer'[u] = timer[u] /\ pc'[u] = pc[u]
    BY <1>0, <1>3, <2>1 DEF CallerTypes, SetDeadline, Goto
  <2>3. Moves(t, "enqueued", "check")
    BY <1>1, <1>3 DEF SetDeadline, Goto, Moves, Working
  <2>4. WaitOutlastsClient'
    <3>1. ASSUME NEW s \in Slot, Busy(s)
          PROVE  queue[s].left <= WaitTimeout
      <4>1. queue[s].left \in Nat /\ queue[s].left <= DeliveryTimeout
        BY <1>0, <3>1 DEF ClientTypes, Entry, IInv, QueueFits
      <4> QED
        BY <2>1, <4>1
    <3> QED
      BY <1>1, <2>2, <3>1 DEF IInv, WaitOutlastsClient, Busy
  <2> QED
    BY <2>2, <2>3, <2>4, MovePreserves DEF Working
<1>4. CASE Close(t)
  <2>1. CloseTimeout \in Nat
    BY ProducerAssumption DEF ProducerAssumption
  <2>2. /\ retries' \in [Thread -> 0 .. RetryAttempts]
        /\ timer' \in [Thread -> Nat]
        /\ \A u \in Thread : u # t =>
             retries'[u] = retries[u] /\ timer'[u] = timer[u]
    BY <1>0, <1>4, <2>1 DEF CallerTypes, Close
  <2>3. Moves(t, "idle", "flush")
    BY <1>1, <1>4 DEF Close, Goto, Moves, Working
  <2>4. WaitOutlastsClient'
    BY <1>0, <1>1, <1>4, <2>2
    DEF CallerTypes, Close, Goto, IInv, WaitOutlastsClient, Busy
  <2> QED
    BY <2>2, <2>3, <2>4, MovePreserves DEF Working
<1> QED
  BY <1>2, <1>3, <1>4

LEMMA EndingPreserves ==
  ASSUME IInv, NEW t \in Thread,
         \/ ProduceGivesUp(t) \/ ProduceRaises(t) \/ Receipt(t)
         \/ DeliveryFails(t) \/ DeadlinePasses(t)
  PROVE  IInv'
<1>1. CASE ProduceGivesUp(t) \/ ProduceRaises(t)
  BY <1>1, EndPreserves DEF ProduceGivesUp, ProduceRaises, Working
<1>2. CASE Receipt(t)
  <2>1. pc[t] \in Working /\ delivery[mine[t]] = "ok" /\ End(t, "confirmed")
    BY <1>2 DEF Receipt, Working
  <2>2. Arrived(mine[t])
    BY <2>1, MineIsMessage DEF IInv, QueueFits
  <2> QED
    BY <2>1, <2>2, EndPreserves
<1>3. CASE DeliveryFails(t)
  BY <1>3, EndPreserves DEF DeliveryFails, Working
<1>4. CASE DeadlinePasses(t)
  BY <1>4, EndPreserves DEF DeadlinePasses, Working
<1> QED
  BY <1>1, <1>2, <1>3, <1>4

------------------------------------------------------------------------------
\* The invariant of KafkaProducer holds in every reachable state.
THEOREM Invariant == Spec => []IInv
<1>1. Init => IInv
  <2> SUFFICES ASSUME Init PROVE IInv
    OBVIOUS
  <2>1. 0 \in 0 .. RetryAttempts /\ Nothing \notin Message
    BY ProducerAssumption DEF ProducerAssumption
  <2>2. ToSet(<<>>) = {} /\ IsInjective(<<>>)
    BY DEF ToSet, IsInjective
  <2>3. CallerTypes /\ ClientTypes
    BY <2>1 DEF Init, CallerTypes, ClientTypes, Working, Busy
  <2>4. CallsAreApart /\ UnsentIsNowhere /\ OneSlotEach /\ QueueFits
    BY <2>1, <2>2, ProducerAssumption
    DEF Init, CallsAreApart, UnsentIsNowhere, OneSlotEach, QueueFits, NotSent,
        Waiting, Working, Busy, Arrived, ProducerAssumption
  <2>5. WaitOutlastsClient /\ ReceiptIsOwn /\ AtMostOnce /\ NeverGivesUpFirst
    BY <2>2 DEF Init, WaitOutlastsClient, ReceiptIsOwn, AtMostOnce,
       NeverGivesUpFirst, Busy
  <2> QED
    BY <2>3, <2>4, <2>5, TypesSplit DEF IInv
<1>2. IInv /\ [Next]_vars => IInv'
  <2> SUFFICES ASSUME IInv, [Next]_vars PROVE IInv'
    OBVIOUS
  <2>1. CASE UNCHANGED vars
    BY <2>1, StutterPreserves
  <2>2. ASSUME NEW t \in Thread, NEW m \in Message, Publish(t, m) PROVE IInv'
    BY <2>2, PublishPreserves
  <2>3. ASSUME NEW t \in Thread, Close(t) PROVE IInv'
    BY <2>3, TimerPreserves
  <2>4. ASSUME NEW t \in Thread, Step(t) PROVE IInv'
    BY <2>4, ProducePreserves, ServePreserves, GoingOnPreserves,
       TimerPreserves, EndingPreserves DEF Step
  <2>5. ASSUME NEW s \in Slot,
               BrokerAppends(s) \/ BrokerConfirms(s) \/ ClientGivesUp(s)
        PROVE  IInv'
    BY <2>5, BrokerAppendsPreserves, BrokerConfirmsPreserves,
       ClientGivesUpPreserves
  <2>6. ASSUME NEW m \in Message, ArrivesLate(m) PROVE IInv'
    BY <2>6, ArrivesLatePreserves
  <2>7. CASE Tick
    BY <2>7, TickPreserves
  <2> QED
    BY <2>1, <2>2, <2>3, <2>4, <2>5, <2>6, <2>7 DEF Next
<1> QED
  BY <1>1, <1>2, PTL DEF Spec

\* Threads, callers and the client keep their types.
THEOREM TypeCorrect == Spec => []TypeOK
<1>1. IInv => TypeOK
  BY DEF IInv
<1> QED
  BY <1>1, Invariant, PTL

\* A receipt is only returned for a message that is in the topic.
THEOREM ReceiptsAreOwn == Spec => []ReceiptIsOwn
<1>1. IInv => ReceiptIsOwn
  BY DEF IInv
<1> QED
  BY <1>1, Invariant, PTL

\* No message is in the topic twice.
THEOREM NothingIsSentTwice == Spec => []AtMostOnce
<1>1. IInv => AtMostOnce
  BY DEF IInv
<1> QED
  BY <1>1, Invariant, PTL

\* A refused message is nowhere, and so never arrives.
THEOREM RefusalIsSafe == Spec => []RefusedNeverArrives
<1>1. IInv => RefusedNeverArrives
  BY DEF IInv, UnsentIsNowhere, NotSent, RefusedNeverArrives
<1> QED
  BY <1>1, Invariant, PTL

\* A call ends as unknown only when the client's own time is over.
THEOREM WaitIsLongEnough == Spec => []NeverGivesUpFirst
<1>1. IInv => NeverGivesUpFirst
  BY DEF IInv
<1> QED
  BY <1>1, Invariant, PTL

\* The producer implements MessageDelivery: what callers know of a message and
\* what the topic holds change only as it allows.
THEOREM Refinement == Spec => DeliverySpec
<1> USE DEF Delivery!vars
<1>1. Init => Delivery!Init
  BY DEF Init, Delivery!Init
<1>2. IInv /\ [Next]_vars => [Delivery!Next]_<<phase, log>>
  <2> SUFFICES ASSUME IInv, [Next]_vars
               PROVE  [Delivery!Next]_<<phase, log>>
    OBVIOUS
  <2>a. ASSUME NEW t \in Thread, pc[t] \in Working,
               NEW result \in {"confirmed", "refused", "failed", "unknown"},
               End(t, result),
               result = "confirmed" => Arrived(mine[t]),
               result = "refused" => pc[t] = "produce"
        PROVE  Delivery!Next
    <3>1. /\ mine[t] \in Message /\ phase[mine[t]] = "calling"
          /\ phase' = [phase EXCEPT ![mine[t]] = result]
          /\ UNCHANGED log
      BY <2>a, MineIsMessage DEF End, client
    <3>2. result = "refused" => ~Arrived(mine[t])
      BY <2>a, <3>1 DEF IInv, UnsentIsNowhere, Waiting, NotSent
    <3>3. Delivery!Finish(mine[t], result)
      BY <2>a, <3>1, <3>2 DEF Delivery!Finish, Delivery!Arrived, Delivery!ToSet, Arrived,
         ToSet
    <3> QED
      BY <3>1, <3>3 DEF Delivery!Next
  <2>b. ASSUME NEW m \in Message, phase[m] \notin {"new", "refused"},
               ~Arrived(m), log' = Append(log, m), UNCHANGED phase
        PROVE  Delivery!Next
    <3>1. phase[m] \in {"calling", "failed", "unknown"}
      BY <2>b, TypesSplit DEF IInv, CallerTypes, ReceiptIsOwn
    <3> QED
      BY <2>b, <3>1
      DEF Delivery!Next, Delivery!Arrive, Delivery!Arrived, Delivery!ToSet,
          Arrived, ToSet
  <2>1. CASE UNCHANGED vars
    BY <2>1 DEF vars, client
  <2>2. ASSUME NEW t \in Thread, NEW m \in Message, Publish(t, m)
        PROVE  Delivery!Next
    BY <2>2 DEF Publish, client, Delivery!Next, Delivery!Begin
  <2>3. ASSUME NEW t \in Thread, Close(t) \/ Closed(t)
        PROVE  UNCHANGED <<phase, log>>
    BY <2>3 DEF Close, Closed, client
  <2>4. ASSUME NEW t \in Thread,
               \/ ProduceFull(t) \/ SleepBeforeRetry(t) \/ Retry(t)
               \/ SetDeadline(t) \/ PollOnce(t) \/ PollReturns(t)
               \/ \E s \in Slot : Produce(t, s) \/ Serve(t, s)
        PROVE  UNCHANGED <<phase, log>>
    BY <2>4 DEF ProduceFull, SleepBeforeRetry, Retry, SetDeadline, PollOnce,
       PollReturns, Produce, Serve, client
  <2>5. ASSUME NEW t \in Thread, Receipt(t)
        PROVE  Delivery!Next
    <3>1. pc[t] \in Working /\ delivery[mine[t]] = "ok" /\ End(t, "confirmed")
      BY <2>5 DEF Receipt, Working
    <3>2. Arrived(mine[t])
      BY <3>1, MineIsMessage DEF IInv, QueueFits
    <3> QED
      BY <2>a, <3>1, <3>2
  <2>6. ASSUME NEW t \in Thread,
               \/ ProduceGivesUp(t) \/ ProduceRaises(t)
               \/ DeliveryFails(t) \/ DeadlinePasses(t)
        PROVE  Delivery!Next
    BY <2>6, <2>a
    DEF ProduceGivesUp, ProduceRaises, DeliveryFails, DeadlinePasses, Working
  <2>7. ASSUME NEW s \in Slot, BrokerAppends(s)
        PROVE  Delivery!Next
    <3>1. /\ Busy(s) /\ queue[s].state = "queued" /\ UNCHANGED phase
          /\ log' = Append(log, queue[s].message)
      BY <2>7 DEF BrokerAppends
    <3>2. queue[s].message \in Message /\ ~Arrived(queue[s].message)
      BY <3>1, TypesSplit DEF IInv, ClientTypes, Entry, QueueFits
    <3>3. phase[queue[s].message] \notin {"new", "refused"}
      BY <3>1, <3>2 DEF IInv, UnsentIsNowhere, NotSent
    <3> QED
      BY <2>b, <3>1, <3>2, <3>3
  <2>8. ASSUME NEW s \in Slot, BrokerConfirms(s) \/ ClientGivesUp(s)
        PROVE  UNCHANGED <<phase, log>>
    BY <2>8 DEF BrokerConfirms, ClientGivesUp
  <2>9. ASSUME NEW m \in Message, ArrivesLate(m)
        PROVE  Delivery!Next
    <3>1. m \in late /\ log' = Append(log, m) /\ UNCHANGED phase
      BY <2>9 DEF ArrivesLate
    <3>2. ~Arrived(m) /\ phase[m] \notin {"new", "refused"}
      BY <3>1 DEF IInv, QueueFits, UnsentIsNowhere, NotSent
    <3> QED
      BY <2>b, <3>1, <3>2
  <2>10. CASE Tick
    BY <2>10 DEF Tick
  <2> QED
    BY <2>1, <2>2, <2>3, <2>4, <2>5, <2>6, <2>7, <2>8, <2>9, <2>10
    DEF Next, Step
<1> QED
  BY <1>1, <1>2, Invariant, PTL DEF Spec, DeliverySpec, Delivery!Spec
==============================================================================
