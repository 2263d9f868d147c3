------------------------- MODULE DecisionWorkerProofs -------------------------
(***************************************************************************)
(* The safety properties of DecisionWorker hold for any number of workers, *)
(* request threads, partitions, events and categories, and the workers and *)
(* the API together implement DecisionLedger.                              *)
(***************************************************************************)
EXTENDS DecisionWorker, TLAPS

------------------------------------------------------------------------------
(* Outbox rows *)

\* The rows of a decision are its scored event, and an alert for an alerting
\* category.
LEMMA DecisionRowMember ==
  ASSUME NEW e, NEW d, NEW m
  PROVE  m \in DecisionRows(e, d)
           <=> \/ m = ScoredRow(e, d)
               \/ d.category \in Alerting /\ m = AlertRow(e, d)
BY DEF DecisionRows

\* The rows of a decision are rows of the outbox.
LEMMA DecisionRowsTyped ==
  ASSUME NEW e \in Event, NEW d \in Decision
  PROVE  DecisionRows(e, d) \subseteq Row
BY DecisionRowMember DEF ScoredRow, AlertRow, Row

\* A row of the outbox belongs to a stored decision or to a rejection.
LEMMA RowsForMember ==
  ASSUME NEW dec, NEW rej, NEW m
  PROVE  m \in RowsFor(dec, rej)
           <=> \/ \E e \in Event :
                    dec[e] # NoDecision /\ m \in DecisionRows(e, dec[e])
               \/ \E s \in rej : m = DeadLetterRow(s)
BY DEF RowsFor

\* The rows of an event are those of its decision.
LEMMA RowOfEvent ==
  ASSUME NEW dec, NEW rej \in SUBSET Source, NEW m \in RowsFor(dec, rej),
         m.rec \in Event
  PROVE  dec[m.rec] # NoDecision /\ m \in DecisionRows(m.rec, dec[m.rec])
<1>1. \A s \in rej : m # DeadLetterRow(s)
  BY NamesAssumption DEF DeadLetterRow
<1>2. PICK e \in Event : dec[e] # NoDecision /\ m \in DecisionRows(e, dec[e])
  BY <1>1, RowsForMember
<1>3. m.rec = e
  BY <1>2, DecisionRowMember DEF ScoredRow, AlertRow
<1>. QED
  BY <1>2, <1>3

\* The row of a source is its dead letter.
LEMMA RowOfSource ==
  ASSUME NEW dec, NEW rej \in SUBSET Source, NEW m \in RowsFor(dec, rej),
         m.rec \in Source
  PROVE  m.rec \in rej /\ m = DeadLetterRow(m.rec)
<1>1. \A e \in Event : m \notin DecisionRows(e, dec[e])
  BY NamesAssumption, DecisionRowMember DEF ScoredRow, AlertRow
<1>2. PICK s \in rej : m = DeadLetterRow(s)
  BY <1>1, RowsForMember
<1>. QED
  BY <1>2 DEF DeadLetterRow

\* _validate_outbox accepts the rows of a decision, and a dead letter: it
\* raises for no worker and no request.
LEMMA RowsAreAccepted ==
  /\ \A e, d : OutboxAccepted(e, DecisionRows(e, d))
  /\ \A s : OutboxAccepted(s, {DeadLetterRow(s)})
<1>1. ASSUME NEW e, NEW d
      PROVE  OutboxAccepted(e, DecisionRows(e, d))
  BY DecisionRowMember DEF OutboxAccepted, ScoredRow, AlertRow
<1>2. ASSUME NEW s
      PROVE  OutboxAccepted(s, {DeadLetterRow(s)})
  BY DEF OutboxAccepted, DeadLetterRow
<1>. QED
  BY <1>1, <1>2

\* A record has at most one row per topic (UNIQUE (record_id, topic)).
LEMMA OneRowPerTopic ==
  ASSUME NEW dec, NEW rej \in SUBSET Source,
         NEW m \in RowsFor(dec, rej), NEW n \in RowsFor(dec, rej),
         m.rec = n.rec, m.topic = n.topic
  PROVE  m = n
<1>1. CASE m.rec \in Event
  BY <1>1, RowOfEvent, RowsAreAccepted DEF OutboxAccepted
<1>2. CASE m.rec \notin Event
  <2>1. \A e \in Event : \A x \in DecisionRows(e, dec[e]) : x.rec = e
    BY DecisionRowMember DEF ScoredRow, AlertRow
  <2>2. /\ \E s \in rej : m = DeadLetterRow(s)
        /\ \E s \in rej : n = DeadLetterRow(s)
    BY <1>2, <2>1, RowsForMember
  <2>. QED
    BY <2>2 DEF DeadLetterRow
<1>. QED
  BY <1>1, <1>2

\* Two rows of one record that are no alerts are on the same topic.
LEMMA OtherTopicsAgree ==
  ASSUME NEW dec, NEW rej \in SUBSET Source,
         NEW m \in RowsFor(dec, rej), NEW n \in RowsFor(dec, rej),
         m.rec = n.rec, m.topic # "fraud.alerts", n.topic # "fraud.alerts"
  PROVE  m.topic = n.topic
<1>1. CASE m.rec \in Event
  BY <1>1, RowOfEvent, DecisionRowMember DEF ScoredRow, AlertRow
<1>2. CASE m.rec \notin Event
  <2>1. \A e \in Event : \A x \in DecisionRows(e, dec[e]) : x.rec = e
    BY DecisionRowMember DEF ScoredRow, AlertRow
  <2>2. /\ \E s \in rej : m = DeadLetterRow(s)
        /\ \E s \in rej : n = DeadLetterRow(s)
    BY <1>2, <2>1, RowsForMember
  <2>. QED
    BY <2>2 DEF DeadLetterRow
<1>. QED
  BY <1>1, <1>2

------------------------------------------------------------------------------
(* What an actor has in hand *)

\* A busy worker holds the record of the log at the source it remembers.
LEMMA InHand ==
  ASSUME IInv, NEW w \in Worker, Busy(w)
  PROVE  /\ at[w] \in Source
         /\ at[w][1] \in Partition
         /\ at[w][2] \in 1 .. Len(Log[at[w][1]])
         /\ at[w][2] \in Nat
         /\ hand[w] = Log[at[w][1]][at[w][2]]
BY DEF IInv, HandFitsStep, Actor, Source

\* A worker that reaches the commit has settled its record.
LEMMA DoneIsSettled ==
  ASSUME IInv, NEW w \in Worker, pc[w] = "done"
  PROVE  Settled(at[w][1], at[w][2], decision, rejected, delivered)
<1> DEFINE s == at[w]
<1>1. /\ s \in Source
      /\ hand[w] = Log[s[1]][s[2]]
      /\ s = <<s[1], s[2]>>
  BY InHand DEF Busy, Source
<1>2. \A m \in outbox : m.rec = RecordOf(w) => m \in delivered
  BY DEF IInv, TodoCoversUnpublished, MarkedOnlyAfterDelivery, Actor
<1>3. CASE hand[w] \in Event
  <2>1. decision[hand[w]] # NoDecision
    BY <1>3 DEF IInv, OutcomeIsStored, Actor
  <2>2. DecisionRows(hand[w], decision[hand[w]]) \subseteq outbox
    BY <1>3, <2>1, RowsForMember DEF IInv, OutboxMatchesStore
  <2>3. \A m \in DecisionRows(hand[w], decision[hand[w]]) : m.rec = hand[w]
    BY DecisionRowMember DEF ScoredRow, AlertRow
  <2>. QED
    BY <1>1, <1>2, <1>3, <2>1, <2>2, <2>3 DEF Settled, RecordOf
<1>4. CASE hand[w] \notin Event
  <2>1. s \in rejected
    BY <1>4 DEF IInv, OutcomeIsStored, Actor
  <2>2. DeadLetterRow(s) \in outbox
    BY <2>1, RowsForMember DEF IInv, OutboxMatchesStore
  <2>3. DeadLetterRow(s).rec = s
    BY DEF DeadLetterRow
  <2>. QED
    BY <1>1, <1>2, <1>4, <2>1, <2>2, <2>3 DEF Settled, RecordOf
<1>. QED
  BY <1>3, <1>4

\* What Poll does, for the partition it takes a record from.
Polled(w, p) ==
  /\ pc[w] = "poll"
  /\ owner[p] = w
  /\ position[p] < Len(Log[p])
  /\ hand' = [hand EXCEPT ![w] = Log[p][position[p] + 1]]
  /\ pc' = [pc EXCEPT ![w] =
             IF Log[p][position[p] + 1] \in Event THEN "get" ELSE "reject"]
  /\ at' = [at EXCEPT ![w] = <<p, position[p] + 1>>]
  /\ position' = [position EXCEPT ![p] = @ + 1]
  /\ UNCHANGED <<committed, owner, topicVars, storeVars, existing, todo>>

\* The record is one of the log: an event or a malformed payload.
LEMMA RecordPolled ==
  ASSUME IInv, NEW w, NEW p \in Partition, Polled(w, p)
  PROVE  /\ Log[p][position[p] + 1] \in Event \cup Malformed
         /\ <<p, position[p] + 1>> \in Source
         /\ position[p] + 1 \in 1 .. Len(Log[p])
         /\ position[p] + 1 \in Nat
<1>1. position[p] \in Nat /\ Log[p] \in Seq(Event \cup Malformed)
  BY DataAssumption DEF IInv, TypeOK
<1>2. position[p] + 1 \in 1 .. Len(Log[p])
  BY <1>1 DEF Polled
<1>. QED
  BY <1>1, <1>2 DEF Source

\* A worker in poll holds nothing the invariant speaks of.
LEMMA PollStart ==
  ASSUME NEW w \in Worker, Poll(w)
  PROVE  \E p \in Partition : Polled(w, p)
BY DEF Poll, Polled, Goto

\* A request takes an event in hand, and touches nothing shared.
LEMMA RequestStep ==
  ASSUME IInv, NEW c \in Client, Request(c)
  PROVE  IInv'
<1>1. TypeOK'
  BY ActorAssumption
  DEF IInv, TypeOK, Labels, Request, Goto, HandFitsStep, Source, Actor,
      kafkaVars, topicVars, storeVars, localVars
<1>2. HandFitsStep'
  BY ActorAssumption
  DEF IInv, TypeOK, HandFitsStep, Busy, Request, Goto, Actor, kafkaVars,
      topicVars, storeVars, localVars
<1>3. OutcomeIsStored'
  BY ActorAssumption
  DEF IInv, TypeOK, OutcomeIsStored, Request, Goto, Actor, kafkaVars,
      topicVars, storeVars, localVars
<1>4. AnswerIsStored'
  BY ActorAssumption
  DEF IInv, TypeOK, AnswerIsStored, Request, Goto, Actor, kafkaVars,
      topicVars, storeVars, localVars
<1>5. ConflictFindsDecision'
  BY ActorAssumption
  DEF IInv, TypeOK, ConflictFindsDecision, Request, Goto, Actor, kafkaVars,
      topicVars, storeVars, localVars
<1>6. TodoCoversUnpublished'
  BY ActorAssumption
  DEF IInv, TypeOK, TodoCoversUnpublished, RecordOf, Request, Goto, Actor,
      kafkaVars, topicVars, storeVars, localVars
<1>7. OwnerIsAtCommitted'
  BY ActorAssumption
  DEF IInv, TypeOK, OwnerIsAtCommitted, Busy, Source, Request, Goto, Actor,
      kafkaVars, topicVars, storeVars, localVars
<1>8. OutboxMatchesStore' /\ OnlyStoredIsAnnounced' /\
      MarkedOnlyAfterDelivery' /\ ConsumedOnlyWhenSettled'
  BY DEF IInv, OutboxMatchesStore, OnlyStoredIsAnnounced,
         MarkedOnlyAfterDelivery, ConsumedOnlyWhenSettled, Request, RecordOf,
         Busy, IsNext, kafkaVars, topicVars, storeVars, localVars
<1>. QED
  BY <1>1, <1>2, <1>3, <1>4, <1>5, <1>6, <1>7, <1>8 DEF IInv

\* What the lookup finds is what is stored.
LEMMA GetDecisionStep ==
  ASSUME IInv, NEW a \in Actor, GetDecision(a)
  PROVE  IInv'
<1>1. TypeOK'
  BY ActorAssumption
  DEF IInv, TypeOK, Labels, GetDecision, Goto, HandFitsStep, Source, Actor,
      kafkaVars, topicVars, storeVars, localVars
<1>2. HandFitsStep'
  BY ActorAssumption
  DEF IInv, TypeOK, HandFitsStep, Busy, GetDecision, Goto, Actor, kafkaVars,
      topicVars, storeVars, localVars
<1>3. OutcomeIsStored'
  BY ActorAssumption, NamesAssumption
  DEF IInv, TypeOK, HandFitsStep, OutcomeIsStored, GetDecision, Goto, Actor,
      kafkaVars, topicVars, storeVars, localVars
<1>4. AnswerIsStored'
  BY ActorAssumption
  DEF IInv, TypeOK, AnswerIsStored, GetDecision, Goto, Actor, kafkaVars,
      topicVars, storeVars, localVars
<1>5. ConflictFindsDecision'
  BY ActorAssumption
  DEF IInv, TypeOK, ConflictFindsDecision, GetDecision, Goto, Actor,
      kafkaVars, topicVars, storeVars, localVars
<1>6. TodoCoversUnpublished'
  BY ActorAssumption
  DEF IInv, TypeOK, TodoCoversUnpublished, RecordOf, GetDecision, Goto, Actor,
      kafkaVars, topicVars, storeVars, localVars
<1>7. OwnerIsAtCommitted'
  BY ActorAssumption
  DEF IInv, TypeOK, OwnerIsAtCommitted, Busy, Source, GetDecision, Goto,
      Actor, kafkaVars, topicVars, storeVars, localVars
<1>8. OutboxMatchesStore' /\ OnlyStoredIsAnnounced' /\
      MarkedOnlyAfterDelivery' /\ ConsumedOnlyWhenSettled'
  BY DEF IInv, OutboxMatchesStore, OnlyStoredIsAnnounced,
         MarkedOnlyAfterDelivery, ConsumedOnlyWhenSettled, GetDecision,
         RecordOf, Busy, IsNext, kafkaVars, topicVars, storeVars, localVars
<1>. QED
  BY <1>1, <1>2, <1>3, <1>4, <1>5, <1>6, <1>7, <1>8 DEF IInv

\* A candidate is a decision, and not stored yet.
LEMMA ScoreStep ==
  ASSUME IInv, NEW a \in Actor, Score(a)
  PROVE  IInv'
<1>1. TypeOK'
  <2>1. History(hand[a]) \subseteq Event
    BY DEF History
  <2>2. existing' \in [Actor -> Decision \cup {NoDecision}]
    BY <2>1 DEF IInv, TypeOK, Score, Decision
  <2>. QED
    BY <2>2
    DEF IInv, TypeOK, Score, Goto, Labels, kafkaVars, topicVars, storeVars
<1>2. HandFitsStep'
  <2>1. existing'[a] \in Decision
    BY DEF IInv, TypeOK, Score, Decision, History
  <2>. QED
    BY <2>1, ActorAssumption
    DEF IInv, TypeOK, HandFitsStep, Busy, Score, Goto, Actor, kafkaVars,
        topicVars, storeVars
<1>3. OutcomeIsStored'
  BY ActorAssumption
  DEF IInv, TypeOK, OutcomeIsStored, Score, Goto, Actor, kafkaVars, topicVars,
      storeVars, localVars
<1>4. AnswerIsStored'
  BY ActorAssumption
  DEF IInv, TypeOK, AnswerIsStored, Score, Goto, Actor, kafkaVars, topicVars,
      storeVars, localVars
<1>5. ConflictFindsDecision'
  BY ActorAssumption
  DEF IInv, TypeOK, ConflictFindsDecision, Score, Goto, Actor, kafkaVars,
      topicVars, storeVars, localVars
<1>6. TodoCoversUnpublished'
  BY ActorAssumption
  DEF IInv, TypeOK, TodoCoversUnpublished, RecordOf, Score, Goto, Actor,
      kafkaVars, topicVars, storeVars, localVars
<1>7. OwnerIsAtCommitted'
  BY ActorAssumption
  DEF IInv, TypeOK, OwnerIsAtCommitted, Busy, Source, Score, Goto, Actor,
      kafkaVars, topicVars, storeVars, localVars
<1>8. OutboxMatchesStore' /\ OnlyStoredIsAnnounced' /\
      MarkedOnlyAfterDelivery' /\ ConsumedOnlyWhenSettled'
  BY DEF IInv, OutboxMatchesStore, OnlyStoredIsAnnounced,
         MarkedOnlyAfterDelivery, ConsumedOnlyWhenSettled, Score, RecordOf,
         Busy, IsNext, kafkaVars, topicVars, storeVars, localVars
<1>. QED
  BY <1>1, <1>2, <1>3, <1>4, <1>5, <1>6, <1>7, <1>8 DEF IInv

\* A conflict leaves the store as it is: the decision is there.
LEMMA SaveConflictStep ==
  ASSUME IInv, NEW a \in Actor, SaveConflict(a)
  PROVE  IInv'
<1>1. TypeOK'
  BY ActorAssumption
  DEF IInv, TypeOK, Labels, SaveConflict, Goto, HandFitsStep, Source, Actor,
      kafkaVars, topicVars, storeVars, localVars
<1>2. HandFitsStep'
  BY ActorAssumption
  DEF IInv, TypeOK, HandFitsStep, Busy, SaveConflict, Goto, Actor, kafkaVars,
      topicVars, storeVars, localVars
<1>3. OutcomeIsStored'
  BY ActorAssumption
  DEF IInv, TypeOK, OutcomeIsStored, SaveConflict, Goto, Actor, kafkaVars,
      topicVars, storeVars, localVars
<1>4. AnswerIsStored'
  BY ActorAssumption
  DEF IInv, TypeOK, AnswerIsStored, SaveConflict, Goto, Actor, kafkaVars,
      topicVars, storeVars, localVars
<1>5. ConflictFindsDecision'
  BY ActorAssumption
  DEF IInv, TypeOK, ConflictFindsDecision, SaveConflict, Goto, Actor,
      kafkaVars, topicVars, storeVars, localVars
<1>6. TodoCoversUnpublished'
  BY ActorAssumption
  DEF IInv, TypeOK, TodoCoversUnpublished, RecordOf, SaveConflict, Goto,
      Actor, kafkaVars, topicVars, storeVars, localVars
<1>7. OwnerIsAtCommitted'
  BY ActorAssumption
  DEF IInv, TypeOK, OwnerIsAtCommitted, Busy, Source, SaveConflict, Goto,
      Actor, kafkaVars, topicVars, storeVars, localVars
<1>8. OutboxMatchesStore' /\ OnlyStoredIsAnnounced' /\
      MarkedOnlyAfterDelivery' /\ ConsumedOnlyWhenSettled'
  BY DEF IInv, OutboxMatchesStore, OnlyStoredIsAnnounced,
         MarkedOnlyAfterDelivery, ConsumedOnlyWhenSettled, SaveConflict,
         RecordOf, Busy, IsNext, kafkaVars, topicVars, storeVars, localVars
<1>. QED
  BY <1>1, <1>2, <1>3, <1>4, <1>5, <1>6, <1>7, <1>8 DEF IInv

\* The second lookup finds the decision of the winner.
LEMMA GetAfterConflictStep ==
  ASSUME IInv, NEW a \in Actor, GetAfterConflict(a)
  PROVE  IInv'
<1>1. TypeOK'
  BY ActorAssumption
  DEF IInv, TypeOK, Labels, GetAfterConflict, Goto, HandFitsStep, Source,
      Actor, kafkaVars, topicVars, storeVars, localVars
<1>2. HandFitsStep'
  BY ActorAssumption
  DEF IInv, TypeOK, HandFitsStep, Busy, GetAfterConflict, Goto, Actor,
      kafkaVars, topicVars, storeVars, localVars
<1>3. OutcomeIsStored'
  BY ActorAssumption, NamesAssumption
  DEF IInv, TypeOK, HandFitsStep, OutcomeIsStored, GetAfterConflict, Goto, Actor,
      kafkaVars, topicVars, storeVars, localVars
<1>4. AnswerIsStored'
  BY ActorAssumption
  DEF IInv, TypeOK, AnswerIsStored, GetAfterConflict, Goto, Actor, kafkaVars,
      topicVars, storeVars, localVars
<1>5. ConflictFindsDecision'
  BY ActorAssumption
  DEF IInv, TypeOK, ConflictFindsDecision, GetAfterConflict, Goto, Actor,
      kafkaVars, topicVars, storeVars, localVars
<1>6. TodoCoversUnpublished'
  BY ActorAssumption
  DEF IInv, TypeOK, TodoCoversUnpublished, RecordOf, GetAfterConflict, Goto,
      Actor, kafkaVars, topicVars, storeVars, localVars
<1>7. OwnerIsAtCommitted'
  BY ActorAssumption
  DEF IInv, TypeOK, OwnerIsAtCommitted, Busy, Source, GetAfterConflict, Goto,
      Actor, kafkaVars, topicVars, storeVars, localVars
<1>8. OutboxMatchesStore' /\ OnlyStoredIsAnnounced' /\
      MarkedOnlyAfterDelivery' /\ ConsumedOnlyWhenSettled'
  BY DEF IInv, OutboxMatchesStore, OnlyStoredIsAnnounced,
         MarkedOnlyAfterDelivery, ConsumedOnlyWhenSettled, GetAfterConflict,
         RecordOf, Busy, IsNext, kafkaVars, topicVars, storeVars, localVars
<1>. QED
  BY <1>1, <1>2, <1>3, <1>4, <1>5, <1>6, <1>7, <1>8 DEF IInv

\* The list read covers what is not published.
LEMMA ReadPendingStep ==
  ASSUME IInv, NEW a \in Actor, ReadPending(a)
  PROVE  IInv'
<1>1. TypeOK'
  BY ActorAssumption
  DEF IInv, TypeOK, Labels, ReadPending, Goto, HandFitsStep, Source, Actor,
      kafkaVars, topicVars, storeVars, localVars
<1>2. HandFitsStep'
  BY ActorAssumption
  DEF IInv, TypeOK, HandFitsStep, Busy, ReadPending, Goto, Actor, kafkaVars,
      topicVars, storeVars, localVars
<1>3. OutcomeIsStored'
  BY ActorAssumption
  DEF IInv, TypeOK, OutcomeIsStored, ReadPending, Goto, Actor, kafkaVars,
      topicVars, storeVars, localVars
<1>4. AnswerIsStored'
  BY ActorAssumption
  DEF IInv, TypeOK, AnswerIsStored, ReadPending, Goto, Actor, kafkaVars,
      topicVars, storeVars, localVars
<1>5. ConflictFindsDecision'
  BY ActorAssumption
  DEF IInv, TypeOK, ConflictFindsDecision, ReadPending, Goto, Actor,
      kafkaVars, topicVars, storeVars, localVars
<1>6. TodoCoversUnpublished'
  BY ActorAssumption
  DEF IInv, TypeOK, TodoCoversUnpublished, RecordOf, ReadPending, Goto, Actor,
      kafkaVars, topicVars, storeVars, localVars
<1>7. OwnerIsAtCommitted'
  BY ActorAssumption
  DEF IInv, TypeOK, OwnerIsAtCommitted, Busy, Source, ReadPending, Goto,
      Actor, kafkaVars, topicVars, storeVars, localVars
<1>8. OutboxMatchesStore' /\ OnlyStoredIsAnnounced' /\
      MarkedOnlyAfterDelivery' /\ ConsumedOnlyWhenSettled'
  BY DEF IInv, OutboxMatchesStore, OnlyStoredIsAnnounced,
         MarkedOnlyAfterDelivery, ConsumedOnlyWhenSettled, ReadPending,
         RecordOf, Busy, IsNext, kafkaVars, topicVars, storeVars, localVars
<1>. QED
  BY <1>1, <1>2, <1>3, <1>4, <1>5, <1>6, <1>7, <1>8 DEF IInv

\* An exhausted list means that every row is published.
LEMMA AllPublishedStep ==
  ASSUME IInv, NEW a \in Actor, AllPublished(a)
  PROVE  IInv'
<1>1. TypeOK'
  BY ActorAssumption
  DEF IInv, TypeOK, Labels, AllPublished, Goto, HandFitsStep, Source, Actor,
      kafkaVars, topicVars, storeVars, localVars
<1>2. HandFitsStep'
  BY ActorAssumption
  DEF IInv, TypeOK, HandFitsStep, Busy, AllPublished, Goto, Actor, kafkaVars,
      topicVars, storeVars, localVars
<1>3. OutcomeIsStored'
  BY ActorAssumption
  DEF IInv, TypeOK, OutcomeIsStored, AllPublished, Goto, Actor, kafkaVars,
      topicVars, storeVars, localVars
<1>4. AnswerIsStored'
  BY ActorAssumption
  DEF IInv, TypeOK, AnswerIsStored, AllPublished, Goto, Actor, kafkaVars,
      topicVars, storeVars, localVars
<1>5. ConflictFindsDecision'
  BY ActorAssumption
  DEF IInv, TypeOK, ConflictFindsDecision, AllPublished, Goto, Actor,
      kafkaVars, topicVars, storeVars, localVars
<1>6. TodoCoversUnpublished'
  BY ActorAssumption
  DEF IInv, TypeOK, TodoCoversUnpublished, RecordOf, AllPublished, Goto,
      Actor, kafkaVars, topicVars, storeVars, localVars
<1>7. OwnerIsAtCommitted'
  BY ActorAssumption
  DEF IInv, TypeOK, OwnerIsAtCommitted, Busy, Source, AllPublished, Goto,
      Actor, kafkaVars, topicVars, storeVars, localVars
<1>8. OutboxMatchesStore' /\ OnlyStoredIsAnnounced' /\
      MarkedOnlyAfterDelivery' /\ ConsumedOnlyWhenSettled'
  BY DEF IInv, OutboxMatchesStore, OnlyStoredIsAnnounced,
         MarkedOnlyAfterDelivery, ConsumedOnlyWhenSettled, AllPublished,
         RecordOf, Busy, IsNext, kafkaVars, topicVars, storeVars, localVars
<1>. QED
  BY <1>1, <1>2, <1>3, <1>4, <1>5, <1>6, <1>7, <1>8 DEF IInv

\* A poll reads the record after the committed one.
LEMMA PollStep ==
  ASSUME IInv, NEW w \in Worker, Poll(w)
  PROVE  IInv'
<1>1. TypeOK'
  <2>1. PICK p \in Partition : Polled(w, p)
    BY PollStart
  <2>. QED
    BY <2>1, RecordPolled
    DEF Polled, IInv, TypeOK, Labels, Actor, topicVars, storeVars
<1>2. HandFitsStep'
  <2>1. PICK p \in Partition : Polled(w, p)
    BY PollStart
  <2>. QED
    BY <2>1, ActorAssumption, RecordPolled
    DEF Polled, IInv, TypeOK, HandFitsStep, Busy, Actor
<1>3. OutcomeIsStored'
  BY ActorAssumption
  DEF IInv, TypeOK, OutcomeIsStored, Poll, Goto, Actor, kafkaVars, topicVars,
      storeVars, localVars
<1>4. AnswerIsStored'
  BY ActorAssumption
  DEF IInv, TypeOK, AnswerIsStored, Poll, Goto, Actor, kafkaVars, topicVars,
      storeVars, localVars
<1>5. ConflictFindsDecision'
  BY ActorAssumption
  DEF IInv, TypeOK, ConflictFindsDecision, Poll, Goto, Actor, kafkaVars,
      topicVars, storeVars, localVars
<1>6. TodoCoversUnpublished'
  BY ActorAssumption
  DEF IInv, TypeOK, TodoCoversUnpublished, RecordOf, Poll, Goto, Actor,
      kafkaVars, topicVars, storeVars, localVars
<1>7. OwnerIsAtCommitted'
  BY ActorAssumption
  DEF IInv, TypeOK, OwnerIsAtCommitted, Busy, Source, Poll, Goto, Actor,
      kafkaVars, topicVars, storeVars, localVars
<1>8. OutboxMatchesStore' /\ OnlyStoredIsAnnounced' /\
      MarkedOnlyAfterDelivery' /\ ConsumedOnlyWhenSettled'
  BY DEF IInv, OutboxMatchesStore, OnlyStoredIsAnnounced,
         MarkedOnlyAfterDelivery, ConsumedOnlyWhenSettled, Poll, RecordOf,
         Busy, IsNext, kafkaVars, topicVars, storeVars, localVars
<1>. QED
  BY <1>1, <1>2, <1>3, <1>4, <1>5, <1>6, <1>7, <1>8 DEF IInv

\* A reply forgets the request.
LEMMA ReplyStep ==
  ASSUME IInv, NEW c \in Client, Reply(c)
  PROVE  IInv'
<1>1. TypeOK'
  BY ActorAssumption
  DEF IInv, TypeOK, Labels, Reply, Goto, Forget, HandFitsStep, Source, Actor,
      kafkaVars, topicVars, storeVars, localVars
<1>2. HandFitsStep'
  BY ActorAssumption
  DEF IInv, TypeOK, HandFitsStep, Busy, Reply, Goto, Forget, Actor, kafkaVars,
      topicVars, storeVars, localVars
<1>3. OutcomeIsStored'
  BY ActorAssumption
  DEF IInv, TypeOK, OutcomeIsStored, Reply, Goto, Forget, Actor, kafkaVars,
      topicVars, storeVars, localVars
<1>4. AnswerIsStored'
  BY ActorAssumption
  DEF IInv, TypeOK, AnswerIsStored, Reply, Goto, Forget, Actor, kafkaVars,
      topicVars, storeVars, localVars
<1>5. ConflictFindsDecision'
  BY ActorAssumption
  DEF IInv, TypeOK, ConflictFindsDecision, Reply, Goto, Forget, Actor,
      kafkaVars, topicVars, storeVars, localVars
<1>6. TodoCoversUnpublished'
  BY ActorAssumption
  DEF IInv, TypeOK, TodoCoversUnpublished, RecordOf, Reply, Goto, Forget,
      Actor, kafkaVars, topicVars, storeVars, localVars
<1>7. OwnerIsAtCommitted'
  BY ActorAssumption
  DEF IInv, TypeOK, OwnerIsAtCommitted, Busy, Source, Reply, Goto, Forget,
      Actor, kafkaVars, topicVars, storeVars, localVars
<1>8. OutboxMatchesStore' /\ OnlyStoredIsAnnounced' /\
      MarkedOnlyAfterDelivery' /\ ConsumedOnlyWhenSettled'
  BY DEF IInv, OutboxMatchesStore, OnlyStoredIsAnnounced,
         MarkedOnlyAfterDelivery, ConsumedOnlyWhenSettled, Reply, RecordOf,
         Busy, IsNext, kafkaVars, topicVars, storeVars, localVars
<1>. QED
  BY <1>1, <1>2, <1>3, <1>4, <1>5, <1>6, <1>7, <1>8 DEF IInv

\* An evicted member owns nothing; its locals stay.
LEMMA EvictStep ==
  ASSUME IInv, NEW w \in Worker, Evict(w)
  PROVE  IInv'
<1>1. TypeOK'
  BY ActorAssumption
  DEF IInv, TypeOK, Labels, Evict, Without, HandFitsStep, Source, Actor,
      kafkaVars, topicVars, storeVars, localVars
<1>2. OwnerIsAtCommitted'
  BY ActorAssumption
  DEF IInv, TypeOK, OwnerIsAtCommitted, Busy, Source, Evict, Without, Actor,
      kafkaVars, topicVars, storeVars, localVars
<1>3. HandFitsStep' /\ OutcomeIsStored' /\ AnswerIsStored' /\
      ConflictFindsDecision' /\ OutboxMatchesStore' /\ OnlyStoredIsAnnounced'
      /\ MarkedOnlyAfterDelivery' /\ TodoCoversUnpublished' /\
      ConsumedOnlyWhenSettled'
  BY DEF IInv, HandFitsStep, OutcomeIsStored, AnswerIsStored,
         ConflictFindsDecision, OutboxMatchesStore, OnlyStoredIsAnnounced,
         MarkedOnlyAfterDelivery, TodoCoversUnpublished,
         ConsumedOnlyWhenSettled, Evict, RecordOf, Busy, IsNext, kafkaVars,
         topicVars, storeVars, localVars
<1>. QED
  BY <1>1, <1>2, <1>3 DEF IInv

\* A restarted worker starts with empty hands.
LEMMA RestartStep ==
  ASSUME IInv, NEW w \in Worker, Restart(w)
  PROVE  IInv'
<1>1. TypeOK'
  BY ActorAssumption
  DEF IInv, TypeOK, Labels, Restart, Goto, HandFitsStep, Source, Actor,
      kafkaVars, topicVars, storeVars, localVars
<1>2. HandFitsStep'
  BY ActorAssumption
  DEF IInv, TypeOK, HandFitsStep, Busy, Restart, Goto, Actor, kafkaVars,
      topicVars, storeVars, localVars
<1>3. OutcomeIsStored'
  BY ActorAssumption
  DEF IInv, TypeOK, OutcomeIsStored, Restart, Goto, Actor, kafkaVars,
      topicVars, storeVars, localVars
<1>4. AnswerIsStored'
  BY ActorAssumption
  DEF IInv, TypeOK, AnswerIsStored, Restart, Goto, Actor, kafkaVars,
      topicVars, storeVars, localVars
<1>5. ConflictFindsDecision'
  BY ActorAssumption
  DEF IInv, TypeOK, ConflictFindsDecision, Restart, Goto, Actor, kafkaVars,
      topicVars, storeVars, localVars
<1>6. TodoCoversUnpublished'
  BY ActorAssumption
  DEF IInv, TypeOK, TodoCoversUnpublished, RecordOf, Restart, Goto, Actor,
      kafkaVars, topicVars, storeVars, localVars
<1>7. OwnerIsAtCommitted'
  BY ActorAssumption
  DEF IInv, TypeOK, OwnerIsAtCommitted, Busy, Source, Restart, Goto, Actor,
      kafkaVars, topicVars, storeVars, localVars
<1>8. OutboxMatchesStore' /\ OnlyStoredIsAnnounced' /\
      MarkedOnlyAfterDelivery' /\ ConsumedOnlyWhenSettled'
  BY DEF IInv, OutboxMatchesStore, OnlyStoredIsAnnounced,
         MarkedOnlyAfterDelivery, ConsumedOnlyWhenSettled, Restart, RecordOf,
         Busy, IsNext, kafkaVars, topicVars, storeVars, localVars
<1>. QED
  BY <1>1, <1>2, <1>3, <1>4, <1>5, <1>6, <1>7, <1>8 DEF IInv

\* Decision, outbox rows and alert are stored together.
LEMMA SaveDecisionStep ==
  ASSUME IInv, NEW a \in Actor, SaveDecision(a)
  PROVE  IInv'
<1>1. TypeOK'
  <2>1. DecisionRows(hand[a], existing[a]) \subseteq Row
    BY DecisionRowsTyped DEF IInv, HandFitsStep, SaveDecision
  <2>. QED
    BY <2>1
    DEF IInv, TypeOK, HandFitsStep, SaveDecision, Goto, Labels, kafkaVars,
        topicVars
<1>2. HandFitsStep'
  BY ActorAssumption
  DEF IInv, TypeOK, HandFitsStep, Busy, SaveDecision, Goto, Actor, kafkaVars,
      topicVars, storeVars, localVars
<1>3. OutcomeIsStored'
  BY ActorAssumption, NoDecisionAssumption
  DEF IInv, TypeOK, HandFitsStep, OutcomeIsStored, SaveDecision, Goto, Actor
<1>4. AnswerIsStored'
  BY ActorAssumption, NoDecisionAssumption
  DEF IInv, TypeOK, HandFitsStep, AnswerIsStored, SaveDecision, Goto, Actor
<1>5. ConflictFindsDecision'
  BY ActorAssumption
  DEF IInv, TypeOK, ConflictFindsDecision, SaveDecision, Goto, Actor,
      kafkaVars, topicVars, storeVars, localVars
<1>6. OutboxMatchesStore'
  <2> DEFINE e == hand[a]
             d == existing[a]
  <2>1. /\ e \in Event
        /\ d \in Decision
        /\ d # NoDecision
        /\ decision[e] = NoDecision
        /\ decision'[e] = d
        /\ \A x \in Event \ {e} : decision'[x] = decision[x]
    BY NoDecisionAssumption DEF IInv, TypeOK, HandFitsStep, SaveDecision
  <2>2. outbox' = outbox \cup DecisionRows(e, d) /\ UNCHANGED rejected
    BY DEF SaveDecision
  <2>3. \A m : m \in outbox' <=> m \in RowsFor(decision', rejected')
    BY <2>1, <2>2, RowsForMember DEF IInv, OutboxMatchesStore
  <2>4. \A x \in Event :
          x \in alerts'
            <=> \E m \in outbox' : m.rec = x /\ m.topic = "fraud.alerts"
    <3>1. /\ d.category \in Alerting <=> AlertRow(e, d) \in DecisionRows(e, d)
          /\ \A m \in DecisionRows(e, d) :
               m.rec = e /\ (m.topic = "fraud.alerts" => d.category \in Alerting)
          /\ AlertRow(e, d).rec = e /\ AlertRow(e, d).topic = "fraud.alerts"
      BY DecisionRowMember DEF ScoredRow, AlertRow
    <3>2. \A m \in outbox : m.rec # e
      BY <2>1, RowOfEvent DEF IInv, TypeOK, OutboxMatchesStore
    <3>3. alerts' = IF d.category \in Alerting THEN alerts \cup {e} ELSE alerts
      BY DEF SaveDecision
    <3>. QED
      BY <2>1, <2>2, <3>1, <3>2, <3>3 DEF IInv, OutboxMatchesStore
  <2>. QED
    BY <2>3, <2>4 DEF OutboxMatchesStore
<1>7. OnlyStoredIsAnnounced'
  BY ActorAssumption
  DEF IInv, TypeOK, OnlyStoredIsAnnounced, SaveDecision, Goto, Actor,
      kafkaVars, topicVars, storeVars, localVars
<1>8. TodoCoversUnpublished'
  <2>1. \A m \in outbox' \ outbox : m.rec = hand[a]
    BY DecisionRowMember DEF SaveDecision, ScoredRow, AlertRow
  <2>2. /\ hand[a] \in Event
        /\ decision[hand[a]] = NoDecision
        /\ outbox \subseteq outbox'
    BY DEF IInv, HandFitsStep, SaveDecision
  <2>3. \A b \in Actor : pc[b] \in {"publish", "mark", "done"}
                           => b # a /\ RecordOf(b) # hand[a]
    BY <2>2, NamesAssumption
    DEF IInv, TypeOK, OutcomeIsStored, RecordOf, SaveDecision
  <2>4. \A b \in Actor \ {a} : pc'[b] = pc[b]
    BY DEF IInv, TypeOK, SaveDecision, Goto
  <2>5. pc'[a] = "pending"
    BY DEF IInv, TypeOK, SaveDecision, Goto
  <2>. QED
    BY <2>1, <2>2, <2>3, <2>4, <2>5
    DEF IInv, TodoCoversUnpublished, RecordOf, SaveDecision, topicVars
<1>9. OwnerIsAtCommitted'
  BY ActorAssumption
  DEF IInv, TypeOK, OwnerIsAtCommitted, Busy, Source, SaveDecision, Goto,
      Actor, kafkaVars, topicVars, storeVars, localVars
<1>10. ConsumedOnlyWhenSettled'
  <2>1. \A x \in Event : decision[x] # NoDecision => decision'[x] = decision[x]
    BY DEF IInv, TypeOK, SaveDecision
  <2>. QED
    BY <2>1
    DEF IInv, ConsumedOnlyWhenSettled, Settled, SaveDecision, kafkaVars,
                topicVars
<1>11. MarkedOnlyAfterDelivery'
  BY DEF IInv, MarkedOnlyAfterDelivery, SaveDecision, RecordOf, Busy, IsNext,
         kafkaVars, topicVars, storeVars, localVars
<1>. QED
  BY <1>1, <1>2, <1>3, <1>4, <1>5, <1>6, <1>7, <1>8, <1>9, <1>10, <1>11
  DEF IInv

\* Rejection and dead letter are stored together.
LEMMA SaveRejectionStep ==
  ASSUME IInv, NEW w \in Worker, SaveRejection(w)
  PROVE  IInv'
<1>1. TypeOK'
  <2>1. at[w] \in Source /\ DeadLetterRow(at[w]) \in Row
    BY DEF IInv, HandFitsStep, Busy, Actor, SaveRejection, DeadLetterRow, Row
  <2>. QED
    BY <2>1
    DEF IInv, TypeOK, SaveRejection, Goto, Labels, kafkaVars, topicVars
<1>2. HandFitsStep'
  BY ActorAssumption
  DEF IInv, TypeOK, HandFitsStep, Busy, SaveRejection, Goto, Actor, kafkaVars,
      topicVars, storeVars, localVars
<1>3. OutcomeIsStored'
  BY ActorAssumption, NamesAssumption
  DEF IInv, TypeOK, HandFitsStep, OutcomeIsStored, SaveRejection, Goto, Actor
<1>4. AnswerIsStored'
  BY ActorAssumption, NamesAssumption
  DEF IInv, TypeOK, HandFitsStep, AnswerIsStored, SaveRejection, Goto, Actor
<1>5. ConflictFindsDecision'
  BY ActorAssumption
  DEF IInv, TypeOK, ConflictFindsDecision, SaveRejection, Goto, Actor,
      kafkaVars, topicVars, storeVars, localVars
<1>6. OutboxMatchesStore'
  <2>1. outbox' = outbox \cup {DeadLetterRow(at[w])}
    BY RowsForMember DEF IInv, OutboxMatchesStore, SaveRejection
  <2>2. rejected' = rejected \cup {at[w]} /\ UNCHANGED <<decision, alerts>>
    BY DEF SaveRejection
  <2>3. \A m : m \in outbox' <=> m \in RowsFor(decision', rejected')
    BY <2>1, <2>2, RowsForMember DEF IInv, OutboxMatchesStore
  <2>4. DeadLetterRow(at[w]).topic # "fraud.alerts"
    BY DEF DeadLetterRow
  <2>. QED
    BY <2>1, <2>2, <2>3, <2>4 DEF IInv, OutboxMatchesStore
<1>7. OnlyStoredIsAnnounced'
  BY ActorAssumption
  DEF IInv, TypeOK, OnlyStoredIsAnnounced, SaveRejection, Goto, Actor,
      kafkaVars, topicVars, storeVars, localVars
<1>8. TodoCoversUnpublished'
  <2>1. \/ outbox' = outbox
        \/ /\ at[w] \notin rejected
           /\ outbox' = outbox \cup {DeadLetterRow(at[w])}
    BY DEF SaveRejection
  <2>2. at[w] \in Source /\ DeadLetterRow(at[w]).rec = at[w]
    BY DEF IInv, HandFitsStep, Busy, Actor, SaveRejection, DeadLetterRow
  <2>3. \A b \in Actor : /\ pc[b] \in {"publish", "mark", "done"}
                           /\ at[w] \notin rejected
                           => RecordOf(b) # at[w]
    BY <2>2, NamesAssumption DEF IInv, TypeOK, OutcomeIsStored, RecordOf
  <2>4. \A b \in Actor \ {w} : pc'[b] = pc[b]
    BY DEF IInv, TypeOK, SaveRejection, Goto
  <2>5. pc'[w] = "pending"
    BY DEF IInv, TypeOK, SaveRejection, Goto, Actor
  <2>. QED
    BY <2>1, <2>2, <2>3, <2>4, <2>5
    DEF IInv, TodoCoversUnpublished, RecordOf, SaveRejection, topicVars, Actor
<1>9. OwnerIsAtCommitted'
  BY ActorAssumption
  DEF IInv, TypeOK, OwnerIsAtCommitted, Busy, Source, SaveRejection, Goto,
      Actor, kafkaVars, topicVars, storeVars, localVars
<1>10. ConsumedOnlyWhenSettled'
  BY DEF IInv, ConsumedOnlyWhenSettled, Settled, SaveRejection, kafkaVars,
         topicVars
<1>11. MarkedOnlyAfterDelivery'
  BY DEF IInv, MarkedOnlyAfterDelivery, SaveRejection, RecordOf, Busy, IsNext,
         kafkaVars, topicVars, storeVars, localVars
<1>. QED
  BY <1>1, <1>2, <1>3, <1>4, <1>5, <1>6, <1>7, <1>8, <1>9, <1>10, <1>11
  DEF IInv

\* The row that is acknowledged is the one to be marked.
LEMMA PublishStep ==
  ASSUME IInv, NEW a \in Actor, Publish(a)
  PROVE  IInv'
<1>1. TypeOK'
  BY ActorAssumption
  DEF IInv, TypeOK, Labels, Publish, Goto, HandFitsStep, Source, Actor,
      kafkaVars, topicVars, storeVars, localVars
<1>2. HandFitsStep'
  BY ActorAssumption
  DEF IInv, TypeOK, HandFitsStep, Busy, Publish, Goto, Actor, kafkaVars,
      topicVars, storeVars, localVars
<1>3. OutcomeIsStored'
  BY ActorAssumption
  DEF IInv, TypeOK, OutcomeIsStored, Publish, Goto, Actor, kafkaVars,
      topicVars, storeVars, localVars
<1>4. AnswerIsStored'
  BY ActorAssumption
  DEF IInv, TypeOK, AnswerIsStored, Publish, Goto, Actor, kafkaVars,
      topicVars, storeVars, localVars
<1>5. ConflictFindsDecision'
  BY ActorAssumption
  DEF IInv, TypeOK, ConflictFindsDecision, Publish, Goto, Actor, kafkaVars,
      topicVars, storeVars, localVars
<1>6. OnlyStoredIsAnnounced'
  BY
  DEF IInv, OnlyStoredIsAnnounced, TodoCoversUnpublished, Publish, storeVars
<1>7. MarkedOnlyAfterDelivery'
  BY ActorAssumption
  DEF IInv, TypeOK, MarkedOnlyAfterDelivery, Publish, Goto, Actor, kafkaVars,
      topicVars, storeVars, localVars
<1>8. TodoCoversUnpublished'
  <2>1. PICK m \in todo[a] :
          IsNext(m, todo[a]) /\ delivered' = delivered \cup {m}
    BY DEF Publish
  <2>2. todo[a] \subseteq {n \in outbox : n.rec = RecordOf(a)}
    BY DEF IInv, TodoCoversUnpublished, Publish
  <2>3. \A n \in todo[a] : IsNext(n, todo[a]) => n = m
    <3> SUFFICES ASSUME NEW n \in todo[a], IsNext(n, todo[a])
                 PROVE  n = m
      OBVIOUS
    <3>1. /\ m \in RowsFor(decision, rejected)
          /\ n \in RowsFor(decision, rejected)
          /\ m.rec = n.rec
          /\ rejected \subseteq Source
      BY <2>2 DEF IInv, TypeOK, OutboxMatchesStore
    <3>2. m.topic = n.topic
      <4>1. m.topic = "fraud.alerts" <=> n.topic = "fraud.alerts"
        BY <2>1 DEF IsNext
      <4>2. ASSUME m.topic # "fraud.alerts"
            PROVE  m.topic = n.topic
        BY <3>1, <4>1, <4>2, OtherTopicsAgree
      <4>. QED
        BY <4>1, <4>2
    <3>. QED
      BY <3>1, <3>2, OneRowPerTopic
  <2>4. \A b \in Actor \ {a} : pc'[b] = pc[b]
    BY DEF IInv, TypeOK, Publish, Goto
  <2>5. pc'[a] = "mark" /\ pc[a] = "publish"
    BY DEF IInv, TypeOK, Publish, Goto
  <2>. QED
    BY <2>1, <2>3, <2>4, <2>5
    DEF IInv, TodoCoversUnpublished, RecordOf, Publish, storeVars
<1>9. OwnerIsAtCommitted'
  BY ActorAssumption
  DEF IInv, TypeOK, OwnerIsAtCommitted, Busy, Source, Publish, Goto, Actor,
      kafkaVars, topicVars, storeVars, localVars
<1>10. ConsumedOnlyWhenSettled'
  BY DEF IInv, ConsumedOnlyWhenSettled, Settled, Publish, kafkaVars, storeVars
<1>11. OutboxMatchesStore'
  BY DEF IInv, OutboxMatchesStore, Publish, RecordOf, Busy, IsNext, kafkaVars,
         topicVars, storeVars, localVars
<1>. QED
  BY <1>1, <1>2, <1>3, <1>4, <1>5, <1>6, <1>7, <1>8, <1>9, <1>10, <1>11
  DEF IInv

\* Only the delivered row is marked.
LEMMA MarkPublishedStep ==
  ASSUME IInv, NEW a \in Actor, MarkPublished(a)
  PROVE  IInv'
<1>1. TypeOK'
  BY ActorAssumption
  DEF IInv, TypeOK, Labels, MarkPublished, Goto, HandFitsStep, Source, Actor,
      kafkaVars, topicVars, storeVars, localVars
<1>2. HandFitsStep'
  BY ActorAssumption
  DEF IInv, TypeOK, HandFitsStep, Busy, MarkPublished, Goto, Actor, kafkaVars,
      topicVars, storeVars, localVars
<1>3. OutcomeIsStored'
  BY ActorAssumption
  DEF IInv, TypeOK, OutcomeIsStored, MarkPublished, Goto, Actor, kafkaVars,
      topicVars, storeVars, localVars
<1>4. AnswerIsStored'
  BY ActorAssumption
  DEF IInv, TypeOK, AnswerIsStored, MarkPublished, Goto, Actor, kafkaVars,
      topicVars, storeVars, localVars
<1>5. ConflictFindsDecision'
  BY ActorAssumption
  DEF IInv, TypeOK, ConflictFindsDecision, MarkPublished, Goto, Actor,
      kafkaVars, topicVars, storeVars, localVars
<1>6. MarkedOnlyAfterDelivery'
  BY DEF IInv, MarkedOnlyAfterDelivery, TodoCoversUnpublished, MarkPublished,
         topicVars
<1>7. TodoCoversUnpublished'
  BY ActorAssumption
  DEF IInv, TypeOK, TodoCoversUnpublished, RecordOf, MarkPublished, Goto,
      Actor, kafkaVars, topicVars, storeVars, localVars
<1>8. OwnerIsAtCommitted'
  BY ActorAssumption
  DEF IInv, TypeOK, OwnerIsAtCommitted, Busy, Source, MarkPublished, Goto,
      Actor, kafkaVars, topicVars, storeVars, localVars
<1>9. OutboxMatchesStore' /\ OnlyStoredIsAnnounced' /\
      ConsumedOnlyWhenSettled'
  BY DEF IInv, OutboxMatchesStore, OnlyStoredIsAnnounced,
         ConsumedOnlyWhenSettled, MarkPublished, RecordOf, Busy, IsNext,
         kafkaVars, topicVars, storeVars, localVars
<1>. QED
  BY <1>1, <1>2, <1>3, <1>4, <1>5, <1>6, <1>7, <1>8, <1>9 DEF IInv

\* The committed record is settled, and was the next one.
LEMMA CommitStep ==
  ASSUME IInv, NEW w \in Worker, Commit(w)
  PROVE  IInv'
<1>1. TypeOK'
  BY InHand
  DEF IInv, TypeOK, Busy, Commit, Goto, Forget, Labels, topicVars, storeVars
<1>2. HandFitsStep'
  BY ActorAssumption
  DEF IInv, TypeOK, HandFitsStep, Busy, Commit, Goto, Forget, Actor,
      kafkaVars, topicVars, storeVars, localVars
<1>3. OutcomeIsStored'
  BY ActorAssumption
  DEF IInv, TypeOK, OutcomeIsStored, Commit, Goto, Forget, Actor, kafkaVars,
      topicVars, storeVars, localVars
<1>4. AnswerIsStored'
  BY ActorAssumption
  DEF IInv, TypeOK, AnswerIsStored, Commit, Goto, Forget, Actor, kafkaVars,
      topicVars, storeVars, localVars
<1>5. ConflictFindsDecision'
  BY ActorAssumption
  DEF IInv, TypeOK, ConflictFindsDecision, Commit, Goto, Forget, Actor,
      kafkaVars, topicVars, storeVars, localVars
<1>6. TodoCoversUnpublished'
  BY ActorAssumption
  DEF IInv, TypeOK, TodoCoversUnpublished, RecordOf, Commit, Goto, Forget,
      Actor, kafkaVars, topicVars, storeVars, localVars
<1>7. OwnerIsAtCommitted'
  <2> DEFINE p == at[w][1]
  <2>1. /\ p \in Partition
        /\ owner[p] = w
        /\ at[w][2] \in 1 .. Len(Log[p])
        /\ w # Nobody
    BY InHand, ActorAssumption DEF Busy, Commit, Actor
  <2>2. at[w][2] = committed[p] + 1 /\ position[p] = committed[p] + 1
    BY <2>1 DEF IInv, OwnerIsAtCommitted, Busy, Commit
  <2>3. /\ committed' = [committed EXCEPT ![p] = at[w][2]]
        /\ UNCHANGED <<owner, position>>
        /\ pc'[w] = "poll"
        /\ pc[w] = "done"
        /\ \A b \in Actor \ {w} : pc'[b] = pc[b] /\ at'[b] = at[b]
    BY DEF Commit, Goto, Forget, IInv, TypeOK, Actor
  <2>4. \A q \in Partition : owner[q] \in Actor \cup {Nobody}
    BY DEF IInv, TypeOK, Actor
  <2>5. committed'[p] = position[p] /\ committed'[p] <= Len(Log[p])
    BY <2>1, <2>2, <2>3 DEF IInv, TypeOK
  <2>6. ASSUME NEW q \in Partition \ {p}, owner[q] # Nobody
        PROVE  Busy(owner[q])' /\ at'[owner[q]][1] = q
                 <=> Busy(owner[q]) /\ at[owner[q]][1] = q
    <3>1. CASE owner[q] = w
      BY <2>3, <2>6, <3>1 DEF Busy
    <3>2. CASE owner[q] # w
      BY <2>3, <2>4, <2>6, <3>2 DEF Busy
    <3>. QED
      BY <3>1, <3>2
  <2>7. \A q \in Partition \ {p} : committed'[q] = committed[q]
    BY <2>3 DEF IInv, TypeOK
  <2>8. \A q \in Partition : owner[q] # Nobody => pc'[owner[q]] # "stopped"
    BY <2>3, <2>4 DEF IInv, OwnerIsAtCommitted
  <2>9. ASSUME NEW q \in Partition \ {p}
        PROVE  /\ committed'[q] <= Len(Log[q])
               /\ owner'[q] # Nobody =>
                    IF Busy(owner[q])' /\ at'[owner[q]][1] = q
                    THEN /\ at'[owner[q]][2] = committed'[q] + 1
                         /\ position'[q] = committed'[q] + 1
                    ELSE position'[q] = committed'[q]
    <3>1. CASE owner[q] = w
      BY <2>3, <2>6, <2>7, <3>1 DEF IInv, OwnerIsAtCommitted, Busy
    <3>2. CASE owner[q] # w
      BY <2>3, <2>4, <2>6, <2>7, <3>2 DEF IInv, OwnerIsAtCommitted
    <3>. QED
      BY <3>1, <3>2
  <2>. QED
    BY <2>1, <2>3, <2>5, <2>8, <2>9 DEF OwnerIsAtCommitted, Busy
<1>8. ConsumedOnlyWhenSettled'
  <2> DEFINE p == at[w][1]
             n == at[w][2]
  <2>1. /\ p \in Partition
        /\ n = committed[p] + 1
        /\ hand[w] = Log[p][n]
        /\ at[w] = <<p, n>>
        /\ at[w] \in Source
    BY InHand, ActorAssumption
    DEF IInv, OwnerIsAtCommitted, Busy, Commit, Actor, Source
  <2>2. Settled(p, n, decision, rejected, delivered)
    BY <2>1, DoneIsSettled DEF Commit
  <2>3. committed' = [committed EXCEPT ![p] = n]
    BY DEF Commit
  <2>4. UNCHANGED <<decision, rejected, delivered>>
    BY DEF Commit, storeVars, topicVars
  <2>. QED
    BY <2>1, <2>2, <2>3, <2>4 DEF IInv, TypeOK, ConsumedOnlyWhenSettled
<1>9. OutboxMatchesStore' /\ OnlyStoredIsAnnounced' /\
      MarkedOnlyAfterDelivery'
  BY DEF IInv, OutboxMatchesStore, OnlyStoredIsAnnounced,
         MarkedOnlyAfterDelivery, Commit, RecordOf, Busy, IsNext, kafkaVars,
         topicVars, storeVars, localVars
<1>. QED
  BY <1>1, <1>2, <1>3, <1>4, <1>5, <1>6, <1>7, <1>8, <1>9 DEF IInv

------------------------------------------------------------------------------
(* Steps that fail, and steps of the environment *)

\* An abort leaves the store alone.  What is in flight stays stored.
LEMMA AbortStep ==
  ASSUME IInv, NEW a \in Actor, Abort(a), UNCHANGED <<storeVars, delivered>>,
         unresolved' \subseteq outbox
  PROVE  IInv'
<1>1. TypeOK'
  <2>1. unresolved' \subseteq Row
    BY DEF IInv, TypeOK
  <2>. QED
    BY <2>1
    DEF IInv, TypeOK, Abort, Goto, Forget, Without, Labels, Actor, storeVars
<1>2. /\ pc'[a] = IF a \in Worker THEN "stopped" ELSE "idle"
      /\ \A b \in Actor \ {a} : /\ pc'[b] = pc[b]
                                /\ hand'[b] = hand[b]
                                /\ at'[b] = at[b]
                                /\ existing'[b] = existing[b]
                                /\ todo'[b] = todo[b]
  BY DEF IInv, TypeOK, Abort, Goto, Forget
<1>3. HandFitsStep'
  BY <1>2, ActorAssumption DEF IInv, HandFitsStep, Busy, Actor
<1>4. OutcomeIsStored' /\ AnswerIsStored' /\ ConflictFindsDecision'
  BY <1>2
  DEF IInv, OutcomeIsStored, AnswerIsStored, ConflictFindsDecision, storeVars
<1>5. TodoCoversUnpublished'
  BY <1>2 DEF IInv, TodoCoversUnpublished, RecordOf, storeVars
<1>6. OwnerIsAtCommitted'
  <2>1. \A p \in Partition : owner'[p] # Nobody =>
          /\ owner'[p] = owner[p]
          /\ owner[p] \in Actor \ {a}
    BY DEF IInv, TypeOK, Abort, Without, Actor
  <2>. QED
    BY <1>2, <2>1 DEF IInv, OwnerIsAtCommitted, Busy, Abort
<1>7. /\ OutboxMatchesStore'
      /\ MarkedOnlyAfterDelivery'
      /\ ConsumedOnlyWhenSettled'
  BY DEF IInv, OutboxMatchesStore, MarkedOnlyAfterDelivery,
         ConsumedOnlyWhenSettled, Abort, storeVars
<1>8. OnlyStoredIsAnnounced'
  BY DEF IInv, OnlyStoredIsAnnounced, storeVars
<1>. QED
  BY <1>1, <1>3, <1>4, <1>5, <1>6, <1>7, <1>8 DEF IInv

\* A row of unknown fate is a stored row.
LEMMA PublishUnknownStep ==
  ASSUME IInv, NEW a \in Actor, PublishUnknown(a)
  PROVE  IInv'
<1>1. unresolved' \subseteq outbox
  BY DEF IInv, OnlyStoredIsAnnounced, TodoCoversUnpublished, PublishUnknown
<1>. QED
  BY <1>1, AbortStep DEF PublishUnknown

\* An exception gives the partitions back and keeps the store.
LEMMA CleanAbortStep ==
  ASSUME IInv, NEW a \in Actor, Abort(a), UNCHANGED <<topicVars, storeVars>>
  PROVE  IInv'
<1>1. unresolved' \subseteq outbox
  BY DEF IInv, OnlyStoredIsAnnounced, topicVars
<1>. QED
  BY <1>1, AbortStep DEF topicVars

\* A partition goes to a worker that polls, and is not processing anything.
LEMMA AssignStep ==
  ASSUME IInv, NEW p \in Partition, NEW w \in Worker, Assign(p, w)
  PROVE  IInv'
<1>1. TypeOK'
  BY DEF IInv, TypeOK, Assign, topicVars, storeVars, localVars
<1>2. OwnerIsAtCommitted'
  <2>1. \A q \in Partition \ {p} :
          owner'[q] = owner[q] /\ position'[q] = position[q]
    BY DEF IInv, TypeOK, Assign
  <2>2. /\ owner'[p] = w
        /\ position'[p] = committed[p]
        /\ pc[w] = "poll"
    BY DEF IInv, TypeOK, Assign
  <2>. QED
    BY <2>1, <2>2 DEF IInv, OwnerIsAtCommitted, Busy, Assign, localVars
<1>3. /\ HandFitsStep'
      /\ OutcomeIsStored'
      /\ AnswerIsStored'
      /\ ConflictFindsDecision'
  BY DEF IInv, HandFitsStep, OutcomeIsStored, AnswerIsStored, Busy,
         ConflictFindsDecision, Assign, storeVars, localVars
<1>4. /\ OutboxMatchesStore'
      /\ OnlyStoredIsAnnounced'
      /\ MarkedOnlyAfterDelivery'
  BY DEF IInv, OutboxMatchesStore, OnlyStoredIsAnnounced,
         MarkedOnlyAfterDelivery, Assign, storeVars, topicVars
<1>5. TodoCoversUnpublished' /\ ConsumedOnlyWhenSettled'
  BY DEF IInv, TodoCoversUnpublished, RecordOf, ConsumedOnlyWhenSettled,
         Assign, storeVars, topicVars, localVars
<1>. QED
  BY <1>1, <1>2, <1>3, <1>4, <1>5 DEF IInv

\* A delivery in flight ends, one way or the other.
LEMMA ResolveStep ==
  ASSUME IInv, NEW m \in unresolved, ArriveLate(m) \/ Lose(m)
  PROVE  IInv'
<1>1. /\ delivered \subseteq delivered'
      /\ delivered' \cup unresolved' \subseteq delivered \cup unresolved
      /\ UNCHANGED <<kafkaVars, storeVars, localVars>>
  BY DEF ArriveLate, Lose
<1>2. TypeOK'
  BY <1>1 DEF IInv, TypeOK, kafkaVars, storeVars, localVars
<1>3. /\ HandFitsStep'
      /\ OutcomeIsStored'
      /\ AnswerIsStored'
      /\ ConflictFindsDecision'
  BY <1>1 DEF IInv, HandFitsStep, OutcomeIsStored, AnswerIsStored, Busy,
              ConflictFindsDecision, storeVars, localVars
<1>4. /\ OutboxMatchesStore'
      /\ OnlyStoredIsAnnounced'
      /\ MarkedOnlyAfterDelivery'
  BY <1>1 DEF IInv, OutboxMatchesStore, OnlyStoredIsAnnounced,
              MarkedOnlyAfterDelivery, storeVars
<1>5. TodoCoversUnpublished' /\ OwnerIsAtCommitted'
  BY <1>1 DEF IInv, TodoCoversUnpublished, RecordOf, OwnerIsAtCommitted, Busy,
              kafkaVars, storeVars, localVars
<1>6. ConsumedOnlyWhenSettled'
  BY <1>1 DEF IInv, ConsumedOnlyWhenSettled, Settled, kafkaVars, storeVars
<1>. QED
  BY <1>2, <1>3, <1>4, <1>5, <1>6 DEF IInv

\* A stuttering step preserves the invariant.
LEMMA StutteringStep ==
  ASSUME IInv, UNCHANGED vars
  PROVE  IInv'
<1>1. /\ UNCHANGED <<committed, owner, position, delivered, unresolved>>
      /\ UNCHANGED <<decision, alerts, rejected, outbox, published>>
      /\ UNCHANGED <<pc, hand, at, existing, todo>>
  BY DEF vars, kafkaVars, topicVars, storeVars, localVars
<1>2. TypeOK'
  BY <1>1 DEF IInv, TypeOK
<1>3. /\ HandFitsStep'
      /\ OutcomeIsStored'
      /\ AnswerIsStored'
      /\ ConflictFindsDecision'
  BY <1>1 DEF IInv, HandFitsStep, OutcomeIsStored, AnswerIsStored, Busy,
              ConflictFindsDecision
<1>4. /\ OutboxMatchesStore'
      /\ OnlyStoredIsAnnounced'
      /\ MarkedOnlyAfterDelivery'
  BY <1>1 DEF IInv, OutboxMatchesStore, OnlyStoredIsAnnounced,
              MarkedOnlyAfterDelivery
<1>5. /\ TodoCoversUnpublished'
      /\ OwnerIsAtCommitted'
      /\ ConsumedOnlyWhenSettled'
  BY <1>1 DEF IInv, TodoCoversUnpublished, RecordOf, OwnerIsAtCommitted, Busy,
              ConsumedOnlyWhenSettled
<1>. QED
  BY <1>2, <1>3, <1>4, <1>5 DEF IInv

------------------------------------------------------------------------------
(* The inductive invariant *)

\* Nothing is stored, announced or consumed at first.
LEMMA InitInvariant == Init => IInv
<1> SUFFICES ASSUME Init PROVE IInv
  OBVIOUS
<1>1. TypeOK
  BY DEF Init, TypeOK, Idle, Labels, Actor
<1>2. HandFitsStep
  BY ActorAssumption DEF Init, HandFitsStep, Idle, Busy, Actor
<1>3. OutcomeIsStored /\ AnswerIsStored /\ ConflictFindsDecision
  BY DEF Init, OutcomeIsStored, AnswerIsStored, ConflictFindsDecision, Idle
<1>4. OutboxMatchesStore
  BY RowsForMember DEF Init, OutboxMatchesStore
<1>5. OnlyStoredIsAnnounced /\ MarkedOnlyAfterDelivery
  BY DEF Init, OnlyStoredIsAnnounced, MarkedOnlyAfterDelivery
<1>6. TodoCoversUnpublished
  BY DEF Init, TodoCoversUnpublished, Idle
<1>7. OwnerIsAtCommitted
  <2> SUFFICES ASSUME NEW p \in Partition
               PROVE  committed[p] <= Len(Log[p]) /\ owner[p] = Nobody
    BY DEF OwnerIsAtCommitted
  <2>1. Len(Log[p]) \in Nat
    BY DataAssumption
  <2>. QED
    BY <2>1 DEF Init
<1>8. ConsumedOnlyWhenSettled
  BY DEF Init, ConsumedOnlyWhenSettled
<1>. QED
  BY <1>1, <1>2, <1>3, <1>4, <1>5, <1>6, <1>7, <1>8 DEF IInv

\* Every step of process preserves the invariant.
LEMMA ProcessStep ==
  ASSUME IInv, NEW a \in Actor, Process(a)
  PROVE  IInv'
<1>1. CASE GetDecision(a)
  BY <1>1, GetDecisionStep
<1>2. CASE Score(a)
  BY <1>2, ScoreStep
<1>3. CASE SaveDecision(a)
  BY <1>3, SaveDecisionStep
<1>4. CASE SaveConflict(a)
  BY <1>4, SaveConflictStep
<1>5. CASE SaveRaises(a)
  BY <1>5, CleanAbortStep DEF SaveRaises
<1>6. CASE GetAfterConflict(a)
  BY <1>6, GetAfterConflictStep
<1>7. CASE ReadPending(a)
  BY <1>7, ReadPendingStep
<1>8. CASE Publish(a)
  BY <1>8, PublishStep
<1>9. CASE MarkPublished(a)
  BY <1>9, MarkPublishedStep
<1>10. CASE AllPublished(a)
  BY <1>10, AllPublishedStep
<1>. QED
  BY <1>1, <1>2, <1>3, <1>4, <1>5, <1>6, <1>7, <1>8, <1>9, <1>10 DEF Process

\* One step per action: every step of every actor, and every failure, keeps
\* the invariant.
LEMMA NextInvariant == IInv /\ [Next]_vars => IInv'
<1> SUFFICES ASSUME IInv, [Next]_vars PROVE IInv'
  OBVIOUS
<1>1. CASE UNCHANGED vars
  BY <1>1, StutteringStep
<1>2. ASSUME NEW w \in Worker, WorkerStep(w) PROVE IInv'
  <2>1. CASE Poll(w)
    BY <2>1, PollStep
  <2>2. CASE Process(w)
    BY <2>2, ProcessStep DEF Actor
  <2>3. CASE SaveRejection(w)
    BY <2>3, SaveRejectionStep
  <2>4. CASE RejectionRaises(w)
    BY <2>4, CleanAbortStep DEF RejectionRaises, Actor
  <2>5. CASE Commit(w)
    BY <2>5, CommitStep
  <2>6. CASE CommitFenced(w)
    BY <2>6, CleanAbortStep DEF CommitFenced, Actor
  <2>. QED
    BY <1>2, <2>1, <2>2, <2>3, <2>4, <2>5, <2>6 DEF WorkerStep
<1>3. ASSUME NEW c \in Client, ClientStep(c) PROVE IInv'
  BY <1>3, ProcessStep, ReplyStep DEF ClientStep, Actor
<1>4. ASSUME NEW c \in Client, Request(c) PROVE IInv'
  BY <1>4, RequestStep
<1>5. ASSUME NEW w \in Worker, Restart(w) PROVE IInv'
  BY <1>5, RestartStep
<1>6. ASSUME NEW p \in Partition, NEW w \in Worker, Assign(p, w) PROVE IInv'
  BY <1>6, AssignStep
<1>7. ASSUME NEW m \in unresolved, ArriveLate(m) \/ Lose(m) PROVE IInv'
  BY <1>7, ResolveStep
<1>8. ASSUME NEW a \in Actor, Fail(a) PROVE IInv'
  BY <1>8, CleanAbortStep DEF Fail
<1>9. ASSUME NEW a \in Actor, PublishUnknown(a) PROVE IInv'
  BY <1>9, PublishUnknownStep
<1>10. ASSUME NEW w \in Worker, Evict(w) PROVE IInv'
  BY <1>10, EvictStep
<1>. QED
  BY <1>1, <1>2, <1>3, <1>4, <1>5, <1>6, <1>7, <1>8, <1>9, <1>10
  DEF Next, Progress, Fault

\* The inductive invariant holds in every reachable state.
THEOREM Invariant == Spec => []IInv
BY InitInvariant, NextInvariant, PTL DEF Spec

------------------------------------------------------------------------------
(* The safety properties *)

\* Every variable always has its type.
THEOREM TypeCorrect == Spec => []TypeOK
<1>1. IInv => TypeOK
  BY DEF IInv
<1>. QED
  BY <1>1, Invariant, PTL

\* FraudScoringWorker commits an offset only when every record up to it has a
\* stored outcome whose announcements are on their topics: no evicted,
\* crashed or restarted worker loses a transaction.
THEOREM NothingIsLost == Spec => []ConsumedOnlyWhenSettled
<1>1. IInv => ConsumedOnlyWhenSettled
  BY DEF IInv
<1>. QED
  BY <1>1, Invariant, PTL

\* save_decision_if_absent and save_rejection_if_absent keep the outbox and
\* the alerts in step with the decisions and rejections.
THEOREM StoreIsConsistent == Spec => []OutboxMatchesStore
<1>1. IInv => OutboxMatchesStore
  BY DEF IInv
<1>. QED
  BY <1>1, Invariant, PTL

\* Whatever publish_pending sends, once or again, is what the store holds.
THEOREM AnnouncementsAreStored == Spec => []OnlyStoredIsAnnounced
<1>1. IInv => OnlyStoredIsAnnounced
  BY DEF IInv
<1>. QED
  BY <1>1, Invariant, PTL

\* mark_outbox_published never runs ahead of the broker.
THEOREM MarksAreSafe == Spec => []MarkedOnlyAfterDelivery
<1>1. IInv => MarkedOnlyAfterDelivery
  BY DEF IInv
<1>. QED
  BY <1>1, Invariant, PTL

\* process returns the stored decision, to the winner and to the loser of a
\* race alike.
THEOREM AnswersAgree == Spec => []AnswerIsStored
<1>1. IInv => AnswerIsStored
  BY DEF IInv
<1>. QED
  BY <1>1, Invariant, PTL

\* get_decision_after_conflict always finds the decision.
THEOREM ConflictsResolve == Spec => []ConflictFindsDecision
<1>1. IInv => ConflictFindsDecision
  BY DEF IInv
<1>. QED
  BY <1>1, Invariant, PTL

------------------------------------------------------------------------------
(* What happens to a stored decision *)

\* The only step that touches risk_decisions is the save of a new decision,
\* by an actor that holds the event and computed the decision.
LEMMA DecisionSteps ==
  ASSUME IInv, [Next]_vars
  PROVE  \/ UNCHANGED decision
         \/ \E a \in Actor : SaveDecision(a)
<1>1. CASE UNCHANGED vars
  BY <1>1 DEF vars, storeVars
<1>2. ASSUME NEW a \in Actor, Process(a), ~SaveDecision(a)
      PROVE  UNCHANGED decision
  BY <1>2
  DEF Process, GetDecision, Score, SaveConflict, SaveRaises, GetAfterConflict,
      ReadPending, Publish, MarkPublished, AllPublished, storeVars
<1>3. ASSUME NEW w \in Worker, WorkerStep(w), ~Process(w)
      PROVE  UNCHANGED decision
  BY <1>3
  DEF WorkerStep, Poll, SaveRejection, RejectionRaises, Commit, CommitFenced,
      storeVars
<1>4. ASSUME \/ \E c \in Client : Request(c) \/ Reply(c)
             \/ \E w \in Worker : Restart(w) \/ Evict(w)
             \/ \E p \in Partition, w \in Worker : Assign(p, w)
             \/ \E m \in unresolved : ArriveLate(m) \/ Lose(m)
             \/ \E a \in Actor : Fail(a) \/ PublishUnknown(a)
      PROVE  UNCHANGED decision
  BY <1>4
  DEF Request, Reply, Restart, Evict, Assign, ArriveLate, Lose, Fail,
      PublishUnknown, storeVars
<1>. QED
  BY <1>1, <1>2, <1>3, <1>4
  DEF Next, Progress, Fault, WorkerStep, ClientStep, Actor

\* INSERT ... ON CONFLICT DO NOTHING: a stored decision is final.
THEOREM DecisionsAreFinal == Spec => DecisionIsFinal
<1>1. ASSUME IInv, [Next]_vars, NEW e \in Event, decision[e] # NoDecision
      PROVE  decision'[e] = decision[e]
  BY <1>1, DecisionSteps DEF IInv, TypeOK, SaveDecision
<1>2. IInv /\ [Next]_vars
        => [\A e \in Event :
              decision[e] # NoDecision => decision'[e] = decision[e]]_vars
  BY <1>1
<1>. QED
  BY <1>2, Invariant, PTL DEF Spec, DecisionIsFinal

\* transaction_history.transaction_id is unique: at most one event of a
\* transaction is decided.
THEOREM TransactionsAreDecidedOnce == Spec => []OneDecisionPerTransaction
<1>1. Init => OneDecisionPerTransaction
  BY DEF Init, OneDecisionPerTransaction
<1>2. ASSUME IInv, OneDecisionPerTransaction, [Next]_vars
      PROVE  OneDecisionPerTransaction'
  <2>1. CASE UNCHANGED decision
    BY <1>2, <2>1 DEF OneDecisionPerTransaction
  <2>2. ASSUME NEW a \in Actor, SaveDecision(a)
        PROVE  OneDecisionPerTransaction'
    BY <1>2, <2>2
    DEF IInv, TypeOK, SaveDecision, TransactionTaken,
        OneDecisionPerTransaction
  <2>. QED
    BY <1>2, <2>1, <2>2, DecisionSteps
<1>. QED
  BY <1>1, <1>2, Invariant, PTL DEF Spec

------------------------------------------------------------------------------
(* What a decision from the raw topic has seen *)

\* The work of b goes on: it keeps its record, and a candidate that is ready
\* to be saved was so before, or was just scored.
GoesOn(b) ==
  /\ Busy(b)
  /\ hand'[b] = hand[b]
  /\ at'[b] = at[b]
  /\ pc'[b] = "save" => \/ Score(b)
                        \/ pc[b] = "save" /\ existing'[b] = existing[b]

\* A step of process: the actor goes on or is out of work.
LEMMA ProcessGoesOn ==
  ASSUME IInv, NEW a \in Actor, Process(a)
  PROVE  Busy(a)' => GoesOn(a)
<1>. USE DEF IInv, TypeOK, Busy, GoesOn, Goto
<1>1. CASE GetDecision(a)
  BY <1>1 DEF GetDecision
<1>2. CASE Score(a)
  BY <1>2 DEF Score
<1>3. CASE SaveDecision(a) \/ SaveConflict(a)
  BY <1>3 DEF SaveDecision, SaveConflict
<1>4. CASE SaveRaises(a)
  BY <1>4 DEF SaveRaises, Abort
<1>5. CASE GetAfterConflict(a) \/ ReadPending(a)
  BY <1>5 DEF GetAfterConflict, ReadPending
<1>6. CASE Publish(a) \/ MarkPublished(a) \/ AllPublished(a)
  BY <1>6 DEF Publish, MarkPublished, AllPublished
<1>. QED
  BY <1>1, <1>2, <1>3, <1>4, <1>5, <1>6 DEF Process

\* A step of one actor leaves the locals of the others alone.
LEMMA ProcessIsLocal ==
  ASSUME IInv, NEW a \in Actor, Process(a), NEW b \in Actor, b # a
  PROVE  /\ pc'[b] = pc[b]
         /\ hand'[b] = hand[b]
         /\ at'[b] = at[b]
         /\ existing'[b] = existing[b]
<1>. USE DEF IInv, TypeOK, Goto
<1>1. CASE GetDecision(a) \/ Score(a)
  BY <1>1 DEF GetDecision, Score
<1>2. CASE SaveDecision(a) \/ SaveConflict(a)
  BY <1>2 DEF SaveDecision, SaveConflict
<1>3. CASE SaveRaises(a)
  BY <1>3 DEF SaveRaises, Abort, Forget
<1>4. CASE GetAfterConflict(a) \/ ReadPending(a)
  BY <1>4 DEF GetAfterConflict, ReadPending
<1>5. CASE Publish(a) \/ MarkPublished(a) \/ AllPublished(a)
  BY <1>5 DEF Publish, MarkPublished, AllPublished
<1>. QED
  BY <1>1, <1>2, <1>3, <1>4, <1>5 DEF Process

\* An actor that is busy after a step goes on with its work, or has just
\* taken some: a worker from a partition, a request thread from its client.
LEMMA BusySteps ==
  ASSUME IInv, [Next]_vars, NEW b \in Actor, Busy(b)'
  PROVE  \/ GoesOn(b)
         \/ b \in Worker /\ \E p \in Partition : Polled(b, p)
         \/ b \in Client /\ Request(b)
<1> DEFINE Kept == /\ pc'[b] = pc[b]
                   /\ hand'[b] = hand[b]
                   /\ at'[b] = at[b]
                   /\ existing'[b] = existing[b]
<1>0. Kept => GoesOn(b)
  BY DEF GoesOn, Busy
<1>. USE DEF IInv, TypeOK, Busy, Goto
<1>1. CASE UNCHANGED vars
  BY <1>0, <1>1 DEF vars, localVars
<1>2. ASSUME NEW a \in Actor, Process(a) PROVE GoesOn(b)
  BY <1>0, <1>2, ProcessGoesOn, ProcessIsLocal
<1>3. ASSUME NEW w \in Worker, Poll(w)
      PROVE  GoesOn(b) \/ (b \in Worker /\ \E p \in Partition : Polled(b, p))
  <2>1. CASE b = w
    BY <1>3, <2>1, PollStart
  <2>2. CASE b # w
    BY <1>0, <1>3, <2>2 DEF Poll, Actor
  <2>. QED
    BY <2>1, <2>2
<1>4. ASSUME NEW c \in Client, Request(c)
      PROVE  GoesOn(b) \/ (b \in Client /\ Request(b))
  BY <1>0, <1>4 DEF Request, Actor
<1>5. ASSUME NEW w \in Worker, SaveRejection(w) PROVE GoesOn(b)
  <2>1. CASE b = w
    BY <1>5, <2>1 DEF SaveRejection, GoesOn, Actor
  <2>2. CASE b # w
    BY <1>0, <1>5, <2>2 DEF SaveRejection, Actor
  <2>. QED
    BY <2>1, <2>2
<1>6. ASSUME NEW a \in Actor,
             \/ RejectionRaises(a) \/ CommitFenced(a) \/ Fail(a)
             \/ PublishUnknown(a)
      PROVE  GoesOn(b)
  BY <1>0, <1>6 DEF RejectionRaises, CommitFenced, Fail, PublishUnknown, Abort,
                    Forget
<1>7. ASSUME NEW w \in Worker, Commit(w) PROVE GoesOn(b)
  BY <1>0, <1>7 DEF Commit, Forget, Actor
<1>8. ASSUME NEW c \in Client, Reply(c) PROVE GoesOn(b)
  BY <1>0, <1>8 DEF Reply, Forget, Actor
<1>9. ASSUME NEW w \in Worker, Restart(w) PROVE GoesOn(b)
  BY <1>0, <1>9 DEF Restart, Actor
<1>10. ASSUME \/ \E w \in Worker : Evict(w)
              \/ \E p \in Partition, w \in Worker : Assign(p, w)
              \/ \E m \in unresolved : ArriveLate(m) \/ Lose(m)
       PROVE  GoesOn(b)
  BY <1>0, <1>10 DEF Evict, Assign, ArriveLate, Lose, localVars
<1>. QED
  BY <1>1, <1>2, <1>3, <1>4, <1>5, <1>6, <1>7, <1>8, <1>9, <1>10
  DEF Next, Progress, Fault, WorkerStep, ClientStep, Actor

\* A decided event stays decided.
LEMMA DecidedStays ==
  ASSUME IInv, [Next]_vars, NEW e \in Event, decision[e] # NoDecision
  PROVE  decision'[e] # NoDecision
BY DecisionSteps DEF IInv, TypeOK, SaveDecision

\* What a client has in hand was submitted by it.
LEMMA RequestsStep ==
  ASSUME IInv, RequestsAreSubmitted, [Next]_vars
  PROVE  RequestsAreSubmitted'
<1> SUFFICES ASSUME NEW c \in Client, Busy(c)'
             PROVE  hand'[c] \in ApiEvent
  BY DEF RequestsAreSubmitted
<1>1. c \in Actor /\ c \notin Worker
  BY ActorAssumption DEF Actor
<1>2. CASE GoesOn(c)
  BY <1>2 DEF RequestsAreSubmitted, GoesOn
<1>3. CASE Request(c)
  BY <1>1, <1>3 DEF Request, IInv, TypeOK
<1>. QED
  BY <1>1, <1>2, <1>3, BusySteps

\* A worker polls right after the committed position, where all is settled.
LEMMA EarlierStep ==
  ASSUME IInv, EarlierAreDecided, [Next]_vars
  PROVE  EarlierAreDecided'
<1> SUFFICES ASSUME NEW w \in Worker, Busy(w)', NEW i \in 1 .. at'[w][2] - 1,
                    Log[at'[w][1]][i] \in Event
             PROVE  decision'[Log[at'[w][1]][i]] # NoDecision
  BY DEF EarlierAreDecided
<1>1. w \in Actor /\ w \notin Client
  BY ActorAssumption DEF Actor
<1>2. CASE GoesOn(w)
  BY <1>2, DecidedStays DEF EarlierAreDecided, GoesOn
<1>3. ASSUME NEW p \in Partition, Polled(w, p)
      PROVE  decision'[Log[at'[w][1]][i]] # NoDecision
  <2>1. at'[w] = <<p, position[p] + 1>>
    BY <1>1, <1>3 DEF Polled, IInv, TypeOK
  <2>2. owner[p] # Nobody /\ owner[p] = w /\ ~Busy(w)
    BY <1>1, <1>3, ActorAssumption DEF Polled, Busy
  <2>3. position[p] = committed[p]
    BY <2>2 DEF IInv, OwnerIsAtCommitted
  <2>4. i \in 1 .. committed[p]
    BY <2>1, <2>3 DEF IInv, TypeOK
  <2>5. Settled(p, i, decision, rejected, delivered)
    BY <2>4 DEF IInv, ConsumedOnlyWhenSettled
  <2>6. decision[Log[p][i]] # NoDecision
    BY <2>1, <2>5 DEF Settled
  <2>. QED
    BY <2>1, <2>6, DecidedStays
<1>. QED
  BY <1>1, <1>2, <1>3, BusySteps

\* The history query of a score sees what is decided before the record.
LEMMA CandidateStep ==
  ASSUME IInv, EarlierAreDecided, CandidateIsComplete, [Next]_vars
  PROVE  CandidateIsComplete'
<1> SUFFICES ASSUME NEW w \in Worker, pc'[w] = "save",
                    NEW i \in 1 .. at'[w][2] - 1,
                    Log[at'[w][1]][i] \in Event,
                    CustomerOf[Log[at'[w][1]][i]] = CustomerOf[hand'[w]],
                    TimeOf[Log[at'[w][1]][i]] < TimeOf[hand'[w]]
             PROVE  Log[at'[w][1]][i] \in existing'[w].prior
  BY DEF CandidateIsComplete
<1>1. w \in Actor /\ w \notin Client /\ Busy(w)'
  BY ActorAssumption DEF Actor, Busy
<1>2. ~\E p \in Partition : Polled(w, p)
  BY <1>1 DEF Polled, IInv, TypeOK
<1>3. GoesOn(w)
  BY <1>1, <1>2, BusySteps
<1>4. CASE Score(w)
  <2>1. decision[Log[at[w][1]][i]] # NoDecision
    BY <1>3 DEF EarlierAreDecided, GoesOn
  <2>2. Log[at[w][1]][i] \in History(hand[w])
    BY <1>3, <2>1 DEF History, GoesOn
  <2>3. existing'[w].prior = History(hand[w])
    BY <1>1, <1>4 DEF Score, IInv, TypeOK
  <2>. QED
    BY <1>3, <2>2, <2>3 DEF GoesOn
<1>5. CASE pc[w] = "save" /\ existing'[w] = existing[w]
  BY <1>3, <1>5 DEF CandidateIsComplete, GoesOn
<1>. QED
  BY <1>3, <1>4, <1>5 DEF GoesOn

\* The decision that is stored is the candidate of a worker, whose record is
\* the first of its event in the partition that has the customer's earlier
\* transactions before it.
LEMMA HistoryStep ==
  ASSUME IInv, HistoryInv, [Next]_vars
  PROVE  HistoryIsComplete'
<1> SUFFICES ASSUME NEW p \in Partition,
                    NEW i \in 1 .. Len(Log[p]), NEW j \in 1 .. Len(Log[p]),
                    i < j,
                    Log[p][i] \in Event, Log[p][j] \in Event \ ApiEvent,
                    CustomerOf[Log[p][i]] = CustomerOf[Log[p][j]],
                    TimeOf[Log[p][i]] < TimeOf[Log[p][j]],
                    \A k \in 1 .. i : Log[p][k] # Log[p][j],
                    decision'[Log[p][j]] # NoDecision
             PROVE  Log[p][i] \in decision'[Log[p][j]].prior
  BY DEF HistoryIsComplete
<1> DEFINE f == Log[p][j]
<1>1. CASE decision[f] = decision'[f]
  BY <1>1 DEF HistoryInv, HistoryIsComplete
<1>2. CASE decision[f] # decision'[f]
  <2>1. PICK a \in Actor : SaveDecision(a)
    BY <1>2, DecisionSteps
  <2>2. hand[a] = f /\ pc[a] = "save" /\ decision'[f] = existing[a]
    BY <1>2, <2>1 DEF SaveDecision, IInv, TypeOK
  <2>3. a \in Worker
    BY <2>2 DEF Actor, Busy, HistoryInv, RequestsAreSubmitted
  <2>4. /\ at[a][1] \in Partition
        /\ at[a][2] \in 1 .. Len(Log[at[a][1]])
        /\ at[a][2] \in Nat
        /\ Log[at[a][1]][at[a][2]] = f
    BY <2>2, <2>3, InHand DEF Busy
  <2>5. at[a][1] = p
    BY <2>4, KeyAssumption
  <2>6. i \in 1 .. at[a][2] - 1
    BY <2>4, <2>5
  <2>. QED
    BY <2>2, <2>3, <2>5, <2>6 DEF HistoryInv, CandidateIsComplete
<1>. QED
  BY <1>1, <1>2

\* pipeline.score of a worker reads the customer's rows when everything
\* before its record is consumed: evictions, retries and repeated records
\* included, the stored decision has seen the earlier transactions.
THEOREM HistoriesAreComplete == Spec => []HistoryIsComplete
<1>1. Init => HistoryInv
  BY DEF Init, HistoryInv, RequestsAreSubmitted, EarlierAreDecided,
         CandidateIsComplete, HistoryIsComplete, Busy, Idle, Actor
<1>2. IInv /\ HistoryInv /\ [Next]_vars => HistoryInv'
  BY RequestsStep, EarlierStep, CandidateStep, HistoryStep DEF HistoryInv
<1>3. HistoryInv => HistoryIsComplete
  BY DEF HistoryInv
<1>. QED
  BY <1>1, <1>2, <1>3, Invariant, PTL DEF Spec

------------------------------------------------------------------------------
(* The workers and the API implement the ledger *)

\* The initial states map to initial states of the ledger.
LEMMA InitRefines == Init => Ledger!Init
BY DEF Init, Ledger!Init

\* The ledger speaks of the same data.
LEMMA SameData ==
  ASSUME NEW dec, NEW rej, NEW ann, NEW p, NEW n
  PROVE  /\ Ledger!Decision = Decision
         /\ Ledger!RowsFor(dec, rej) = RowsFor(dec, rej)
         /\ Ledger!Settled(p, n, dec, rej, ann) = Settled(p, n, dec, rej, ann)
<1>1. /\ \A e, d : Ledger!DecisionRows(e, d) = DecisionRows(e, d)
      /\ \A s : Ledger!DeadLetterRow(s) = DeadLetterRow(s)
  BY DEF DecisionRows, ScoredRow, AlertRow, DeadLetterRow,
         Ledger!DecisionRows, Ledger!ScoredRow, Ledger!AlertRow,
         Ledger!DeadLetterRow
<1>. QED
  BY <1>1
  DEF Decision, RowsFor, Settled, Ledger!Decision, Ledger!RowsFor,
      Ledger!Settled

\* The save of a decision is the ledger's Decide.
LEMMA SaveDecisionRefines ==
  ASSUME IInv, NEW a \in Actor, SaveDecision(a)
  PROVE  \E e \in Event, d \in Ledger!Decision : Ledger!Decide(e, d)
<1>1. hand[a] \in Event /\ existing[a] \in Ledger!Decision
  BY SameData DEF IInv, HandFitsStep, SaveDecision
<1>2. Ledger!Decide(hand[a], existing[a])
  BY DEF SaveDecision, TransactionTaken, Ledger!Decide, topicVars, kafkaVars
<1>. QED
  BY <1>1, <1>2

\* The save of a rejection is Refuse, or changes nothing the ledger sees.
LEMMA SaveRejectionRefines ==
  ASSUME IInv, NEW w \in Worker, SaveRejection(w)
  PROVE  [Ledger!Next]_(Ledger!ledgerVars)
<1>1. CASE at[w] \in rejected
  BY <1>1 DEF SaveRejection, Ledger!ledgerVars, topicVars, kafkaVars
<1>2. CASE at[w] \notin rejected
  <2> DEFINE p == at[w][1]
             n == at[w][2]
  <2>1. /\ p \in Partition
        /\ n \in 1 .. Len(Log[p])
        /\ Log[p][n] \in Malformed
        /\ at[w] = <<p, n>>
    BY InHand DEF IInv, HandFitsStep, Busy, SaveRejection, Actor, Source
  <2>2. Ledger!Refuse(at[w])
    BY <1>2 DEF SaveRejection, Ledger!Refuse, topicVars, kafkaVars
  <2>. QED
    BY <2>1, <2>2 DEF Ledger!Next
<1>. QED
  BY <1>1, <1>2

\* A delivery, in time or late, is Announce.
LEMMA DeliveryRefines ==
  ASSUME IInv, NEW m \in outbox, delivered' = delivered \cup {m},
         UNCHANGED <<decision, rejected, committed>>
  PROVE  Ledger!Next
<1>1. m \in Ledger!RowsFor(decision, rejected)
  BY SameData DEF IInv, OutboxMatchesStore
<1>. QED
  BY <1>1 DEF Ledger!Next, Ledger!Announce

\* A commit is Consume.
LEMMA CommitRefines ==
  ASSUME IInv, NEW w \in Worker, Commit(w)
  PROVE  \E p \in Partition : Ledger!Consume(p)
<1> DEFINE p == at[w][1]
           n == at[w][2]
<1>1. /\ p \in Partition
      /\ n = committed[p] + 1
      /\ n \in 1 .. Len(Log[p])
  BY InHand, ActorAssumption DEF IInv, OwnerIsAtCommitted, Busy, Commit, Actor
<1>2. Ledger!Settled(p, committed[p] + 1, decision, rejected, delivered)
  BY <1>1, DoneIsSettled, SameData DEF Commit
<1>3. committed' = [committed EXCEPT ![p] = committed[p] + 1]
  BY <1>1 DEF Commit
<1>4. committed[p] < Len(Log[p])
  BY <1>1 DEF IInv, TypeOK
<1>5. Ledger!Consume(p)
  BY <1>2, <1>3, <1>4 DEF Commit, Ledger!Consume, topicVars, storeVars
<1>. QED
  BY <1>1, <1>5

\* Every step of a worker, a request thread or the environment is a step of
\* the ledger, or invisible to it.
LEMMA NextRefines ==
  ASSUME IInv, [Next]_vars
  PROVE  [Ledger!Next]_(Ledger!ledgerVars)
<1>1. CASE UNCHANGED vars
  BY <1>1 DEF vars, kafkaVars, topicVars, storeVars, Ledger!ledgerVars
<1>2. ASSUME NEW a \in Actor, SaveDecision(a)
      PROVE  Ledger!Next
  BY <1>2, SaveDecisionRefines DEF Ledger!Next
<1>3. ASSUME NEW a \in Actor, Publish(a)
      PROVE  Ledger!Next
  <2>1. PICK m \in todo[a] : delivered' = delivered \cup {m}
    BY <1>3 DEF Publish
  <2>2. m \in outbox
    BY <1>3 DEF IInv, TodoCoversUnpublished, Publish
  <2>. QED
    BY <1>3, <2>1, <2>2, DeliveryRefines DEF Publish, storeVars, kafkaVars
<1>4. ASSUME NEW a \in Actor, Process(a), ~SaveDecision(a), ~Publish(a)
      PROVE  UNCHANGED Ledger!ledgerVars
  BY <1>4
  DEF Process, GetDecision, Score, SaveConflict, SaveRaises, GetAfterConflict,
      ReadPending, MarkPublished, AllPublished, Abort, storeVars, topicVars,
      kafkaVars, Ledger!ledgerVars
<1>5. ASSUME NEW w \in Worker, Commit(w)
      PROVE  Ledger!Next
  BY <1>5, CommitRefines DEF Ledger!Next
<1>6. ASSUME NEW w \in Worker, WorkerStep(w), ~Process(w), ~Commit(w),
             ~SaveRejection(w)
      PROVE  UNCHANGED Ledger!ledgerVars
  BY <1>6
  DEF WorkerStep, Poll, RejectionRaises, CommitFenced, Abort, storeVars,
      topicVars, kafkaVars, Ledger!ledgerVars
<1>7. ASSUME NEW m \in unresolved, ArriveLate(m)
      PROVE  Ledger!Next
  BY <1>7, DeliveryRefines
  DEF IInv, OnlyStoredIsAnnounced, ArriveLate, storeVars, kafkaVars
<1>8. ASSUME \/ \E c \in Client : Request(c) \/ Reply(c)
             \/ \E w \in Worker : Restart(w) \/ Evict(w)
             \/ \E p \in Partition, w \in Worker : Assign(p, w)
             \/ \E m \in unresolved : Lose(m)
             \/ \E a \in Actor : Fail(a) \/ PublishUnknown(a)
      PROVE  UNCHANGED Ledger!ledgerVars
  BY <1>8
  DEF Request, Reply, Restart, Evict, Assign, Lose, Fail, PublishUnknown,
      Abort, storeVars, topicVars, kafkaVars, Ledger!ledgerVars
<1>. QED
  BY <1>1, <1>2, <1>3, <1>4, <1>5, <1>6, <1>7, <1>8, SaveRejectionRefines
  DEF Next, Progress, Fault, WorkerStep, ClientStep, Actor

\* Workers that crash, race and are replaced, request threads that time out
\* and a broker that acknowledges late do together what DecisionLedger says.
THEOREM Refinement == Spec => LedgerSpec
<1>. QED
  BY InitRefines, NextRefines, Invariant, PTL
  DEF Spec, LedgerSpec, Ledger!Spec

==============================================================================
