# FraudFlex in TLA+

TLA+ modules, TLC configurations and TLAPS proofs for FraudFlex, the
transaction fraud scoring service of this repository. Paths below are relative
to the root of the repository (`src/`); `PROJECT.json` maps every definition to
the lines it models.

FraudFlex reads transactions from Kafka (or from a synchronous API), builds
features from the customer's history, evaluates rules and an anomaly model,
combines both to a score from 0 to 100, decides, stores the decision in
PostgreSQL with its outbox rows, publishes these rows, and lets analysts review
the alerts. The code has little shared memory and much shared storage: its hard
part is what several processes do to one database and one broker when any of
them can fail between two calls.

## 1. Inventory

| Component | State | Operations | Talks to |
|---|---|---|---|
| Scoring worker (`fraudflux_worker/worker.py`, `scoring.py`, `outputs.py`) | locals of one message | `run_once`, `process_message`, `process`, `publish_pending`, `_reject_invalid`, `_commit` | consumer, store, pipeline, publisher |
| Consumer and publisher (`fraudflux_worker/kafka.py`) | group membership, positions | poll, commit, publish | Kafka |
| Processing store (`fraudflux_storage/postgres.py:71-236`, `infra/postgres`) | decisions, transactions, rejections, alerts, outbox | `get_decision`, `save_decision_if_absent`, `save_rejection_if_absent`, `pending_outbox`, `mark_outbox_published` | PostgreSQL |
| Scoring API (`fraudflux_api/application.py:129-148`) | none of its own | `POST /transactions/score` | the same `DecisionProcessor` |
| Alert repository (`fraudflux_storage/postgres.py:412-547`) | alerts, reviews, audit | `review`, `assign`, `get` | PostgreSQL, review endpoint |
| Rules engine (`fraudflux_rules`) | ruleset, loop locals | `evaluate` | pipeline |
| Anomaly model (`fraudflux_anomaly/model.py`, `normalization.py`) | calibration | `evaluate` | pipeline |
| Combiner, decision engine, event contracts (`fraudflux_risk`, `fraudflux_decision`, `fraudflux_events`) | none | `combine`, `decide`, validation | pipeline |
| Feature calculator, history provider, cache (`fraudflux_features`) | cache entries | `calculate`, `load`, `invalidate` | PostgreSQL, pipeline |
| Kafka producer (`fraudflux_kafka/producer.py`) | local queue, callbacks, deadline | `publish_transaction`, `publish_event`, `publish_serialized`, `close` | Kafka |
| Validation, dead letters (`fraudflux_validation`) | none | `validate_transaction_event`, `build_dead_letter_event` | worker |
| Queries, event stream, dashboard (`fraudflux_storage/postgres.py:550-680`, `dashboard/`) | what the browser shows | lists, details, summary | API |
| Monitoring, simulator, evaluation, training, CLIs | counters, files | tools | - |

Which behaviours are hard, and what makes each part correct:

- **Worker, store, API.** Two actors score one event at the same time; a
  process ends between storing, publishing, marking and committing; a member is
  evicted and goes on; a delivery is confirmed too late. Correct means: nothing
  is consumed before its outcome is stored and announced; one decision per
  event and per transaction, never changed; only stored rows are announced; the
  answer of a request is the stored decision; everything is consumed at last.
- **Pipeline.** Ties and groups of rules, caps, overrides, rounding at
  percentile borders, and the same bands written down four times. Correct
  means: the winners are the strongest rules, no check of one part rejects what
  another computed, approval means that nothing objected, and a more unusual
  transaction never scores less.
- **Alerts.** Two sessions review or assign one alert, a review id is sent
  twice, statements fail between each other. Correct means: one final review,
  an audit trail without gaps, and every call as if it happened at once.
- **Storage.** A decision is four inserts, an upsert and an audit entry in one
  transaction, next to sessions that store another payload of the event, the
  same transaction under another event, or a profile of the customer. Correct
  means: all of it or nothing, one payload per event, no circle of waiting, and
  to its callers a single step.
- **Cache.** Loads race invalidations, expiry and eviction. Correct means: a
  history is never older than its time to live, the snapshot of one event never
  hides later rows from another, and the bound drives out what was used least
  recently.
- **Producer.** A full queue, one client shared by threads whose polls serve
  each other's callbacks, a deadline beside the client's own. Correct means: a
  receipt is for one's own message, what was refused never arrives, nobody gives
  up before the client does, every call ends.
- **Features.** Four queries with four snapshots, a limit on rows, redelivery
  and replay, and denominators that vanish. Correct means: the queries of one
  load fit together, nothing recent is cut off, a replay scores as before, and a
  customer without history is not scored against defaults.
- **Evaluation.** Two sources of labels, repeated and missing records, rates
  without a denominator, ranks. Correct means: each labelled transaction counts
  once, the rates are those of the counts, and a report that would be biased is
  refused.
- **Dashboard.** Answers of overlapping requests arrive in any order. Not
  modelled.

`PROJECT.json` lists every hazard at its line, with the properties that cover
it or the reason why none does.

## 2. Modules

```
DecisionOutputs            rows, decisions, Settled: shared vocabulary
  DecisionLedger           what scoring promises        (abstract)
  DecisionWorker           workers, API threads, store, Kafka
    DecisionWorkerLiveness   scheduling and fairness
    DecisionWorkerProofs     invariant, safety, histories,
                             DecisionWorker => DecisionLedger
HistoryCache               load and invalidate by threads
  HistoryCacheProofs       invariant, staleness, order of use
MessageDelivery            what publishing promises      (abstract)
  KafkaProducer            publish and close by threads, the client, the broker
    KafkaProducerProofs      invariant, safety, KafkaProducer => MessageDelivery
DecisionStore              what the store promises       (abstract)
  DecisionStorage          its statements, next to profile maintenance
    DecisionStorageProofs    invariant, safety, DecisionStorage => DecisionStore
CustomerFeatures           the queries of a load and the features made of them
  CustomerFeaturesProofs   invariant, agreement, replay, cold start
FeedbackEvaluation         fraudflux-evaluate, over exact fractions
  FeedbackEvaluationProofs sums, invariant, counts, rates and ranks
AnomalyCalibration         scores of the model as integers
  RiskScoring              the pipeline from rules to events
    RiskScoringProofs        sums, invariant and properties
AlertLifecycle             what the alert repository promises (abstract)
  AlertReview              review and assign, statement by statement
    AlertReviewProofs        invariant, safety, AlertReview => AlertLifecycle
MC*                        instances for TLC
```

The modules meet where the code calls from one part to another. `DecisionWorker`
takes each call of the store as one step: `DecisionStorage` shows that the
statements behind `get_decision` and `save_decision_if_absent` may be taken so
(`StoreSpec`). It takes a publication as one step with three outcomes:
`KafkaProducer` shows that its callers can rely on these and on no more
(`DeliverySpec`). `CustomerFeatures` is what `Score` abstracts from: there the
rows that a score sees are queried one statement at a time. `RiskScoring`
establishes that the pipeline ends without a refused value in some category;
`DecisionWorker` takes any category (`Score`). `DecisionWorker` adds an event to
`alerts` when it stores an alerting decision, and that is `OpenAlert` of
`AlertReview`.

### DecisionWorker

A step is one database transaction, one Kafka call or the computation between
them. `pc[a]` of an actor follows `DecisionProcessor.process`:

| pc | Code | Actions |
|---|---|---|
| `poll` / `idle` | `run_once`, a request | `Poll`, `Request` |
| `get` | `store.get_decision` | `GetDecision` |
| `score` | `pipeline.score`, `output_factory.build` | `Score` |
| `save` | `save_decision_if_absent` | `SaveDecision`, `SaveConflict`, `SaveRaises` |
| `reget` | `get_decision_after_conflict` | `GetAfterConflict` |
| `reject` | `save_rejection_if_absent` | `SaveRejection`, `RejectionRaises` |
| `pending` | `pending_outbox` | `ReadPending` |
| `publish`, `mark` | the loop of `publish_pending` | `Publish`, `PublishUnknown`, `MarkPublished`, `AllPublished` |
| `done` | `_commit`, the response | `Commit`, `CommitFenced`, `Reply` |
| `stopped` | `run_forever` has ended | `Restart` |

An exception at any step is `Fail`: the step has no effect and the actor is
gone, since `run_forever` closes the consumer and raises. A call whose effect
happened although its caller failed is the step followed by `Fail`. `Evict`
takes a member's partitions while it goes on working; `Assign` starts a member
at the committed offset; the commit of a member that lost its partition is
refused (`CommitFenced`). `PublishUnknown` sends a row whose report never
comes; `ArriveLate` and `Lose` decide its fate at any later time.

The raw topic is a constant `Log`: the producer is not part of the component,
and a record that is delivered twice is written into the log twice. What the
worker may rely on is the key: `publish_validated` keys a record by its customer
(`fraudflux_kafka/producer.py:165`), so one customer's events are in one
partition (`KeyAssumption`). Rows that `_validate_outbox` does not accept would
raise, as in `Fail`; `OutboxAccepted` is its test. A decision is the category
and the set of earlier transactions the score was based on (`prior`), which is
what the properties can tell apart.

### RiskScoring

One run of `SharedScoringPipeline.score`, from the loop over the rules to the
construction of the events, with each check of each value class as the
condition under which the step does not raise (`pc = "raised"`). Whether a
condition of a rule matches is a free choice at every rule. The calibration is
integer, which keeps its rounding exact: `RoundHalfEven` is `round` of Python
on a ratio. (The floats of the code can deviate from the ratio in the last
place; that is abstracted.) `failed` is an exception outside the arithmetic.

### AlertReview

A step is one statement of `review` or `assign`. Writes show at the commit.
Locks are read off `pc`: a session at `insert`, `transition`, `commit` or
`audit` has the row lock of its alert, one past its insertion has the review id;
the others wait (`LockAlert`, `UpdateAssigned`, `InsertReview`).
`SELECT ... FOR UPDATE` and `UPDATE` evaluate the row again once they have the
lock (READ COMMITTED, the default of psycopg). `at` is `reviewed_at`, that is
`CURRENT_TIMESTAMP`, taken when the transaction starts. An exception, a
`KeyError` included, is `Rollback`.

### HistoryCache

A step is a critical section of `load` or `invalidate`, or the query between two
of them: `Begin` reads the clock, `Hit` and `Miss` are the first section,
`LoadHistory` the query, `Store` the second section with its eviction,
`Invalidate` removes the entries of customers. A history is the number of the
customer's rows that it contains, since rows are only added (`WriteRow`).
`order` is the order of the `OrderedDict` as a relation: `<<k, j>>` is in it
when `k` comes before `j`. Ghosts: `used` is the same relation for the last
uses, of keys that were evicted too, `floor` the rows there were at the last
invalidation, `overtaken` whether a load was on its way then.

### KafkaProducer

`pc[t]` of a thread follows `publish_serialized`: `produce` and `make room`,
`sleep` (`_enqueue_with_retry`), `enqueued`, `check`, `poll`
(`_wait_for_delivery`); `flush` is `close`. The client is a set of slots, each
with a message until its report is served, by whichever thread polls (`Serve`).
The broker appends and confirms; the client gives a message up at its timeout
or on an error (`ClientGivesUp`), and a message whose timeout is over may still
arrive (`ArrivesLate`). Clocks count down, and `Tick` lets a unit pass.

### DecisionStorage

A step is a statement or a commit. Writes are collected in `call` and shown at
the commit; which row or unique key a transaction holds is read off `pc`, and
who needs it waits (`CustomerFree`, `EventFree`, `TransactionFree`,
`DecisionFree`). The order is that of `save_decision_if_absent`:

| pc | Statement |
|---|---|
| `shell` | `_UPSERT_CUSTOMER_SHELL`: locks the customer's row |
| `event`, `transaction` | `_INSERT_TRANSACTION`: the conflict on `event_id` does nothing, the one on `transaction_id` raises |
| `decision` | `_INSERT_DECISION`, `ON CONFLICT (event_id) DO NOTHING` |
| `commit` | outbox, alert, audit entry, commit |
| `conflict`, `reread` | `return False` commits the shell; the caller reads the stored decision |
| `edit`, `edited` | `upsert` of a customer profile |

`Raise` ends a transaction without effect at any statement.

### CustomerFeatures

`pc[s]` goes through the four queries of `PostgresHistoryProvider.load`, each
of which sees what is committed at that moment, then through the calculation to
`Save`. A query that is cut off by its limit among rows of one time returns any
of them; the previous transaction is any of the latest. The feature groups are
operators on the rows: quotients are pairs, the z-score is kept squared, the
median doubled. `Matched` gives the packaged rules that match.

### FeedbackEvaluation

The program runs once over its files: `IndexDecisions`, `BuildSimulatorCases`,
`BuildAnalystCases`, `MergeCases`, `Evaluate`, each of which may refuse
(`Fail`). Files are sequences of records and may repeat a transaction; the cases
of a source stand under the positions of their records, merged cases under the
transaction, as in the dictionary of the code. Rates are pairs, so that nothing
is rounded; the average precision is summed over the common denominator `Scale`,
which every rank divides (`ScaleAssumption`). Transactions are numbers, ordered
as their identifiers are.

### Defects

Sections headed *Defects* hold actions the program does not have, each named
after the action it replaces. Every property of a passing run is violated when
one of them is put in (`mutants` in `PROJECT.json`). No specification uses them.

## 3. Runs

Passing runs:

| Run | Instance | Distinct states | Shows |
|---|---|---|---|
| `recovery` | 2 workers; log `e1, bad, e2, e1, long` | 155 000 | nothing is lost or marked early, histories are complete |
| `worker_and_api` | 1 worker, 2 request threads; `e2` by both, `e3` of the same transaction | 83 000 | one decision is stored, answered and announced; the ledger is implemented |
| `worker_liveness` | 2 workers; log `bad, e1` | 42 000 | everything is consumed and announced |
| `risk_scoring` | 2 592 rulesets of 3 rules in 2 groups; 400 calibrations, 22 raw scores | 2 006 000 | sums, checks and overrides fit together, points are monotone |
| `alert_review` | 2 sessions, 2 alerts, 2 review ids, 4 transactions | 381 000 | the alert lifecycle is implemented, no call waits for ever |
| `history_cache` | 2 threads, 3 events of a customer, room for 2, a row, 2 ticks | 2 148 000 | staleness is bounded, the least recently used entry goes |
| `kafka_producer` | 2 threads, 2 messages, 1 slot, 2 retries | 175 000 | delivery is implemented, nobody gives up first, every call ends |
| `decision_storage` | 3 sessions, 3 payloads that share an event or a transaction, 4 calls | 107 000 | the one-step store is implemented, nobody waits in a circle |
| `customer_features` | 2 scorers, 3 transactions, a row per query, one change by an operator | 15 000 | queries agree, replays are stable, cold starts are neutral |
| `feedback_evaluation` | 43 scored files, 25 truth files, 28 label files, each with each | 155 000 | cases are counted once, rates and ranks are right, bias is refused |

Runs that TLC refutes, each against a sentence of `ARCHITECTURE.md`:

| Run | What happens |
|---|---|
| `republished_transaction` | A transaction id under a second event id violates the unique key of `transaction_history` at every attempt; the record is neither decided nor set aside. `transactions.dead-letter` is for "Invalid or unprocessable events" (216). |
| `api_unannounced` | An API request stores its decision and fails to publish it; nothing but the same event sent again looks at its outbox rows. "All completed decisions are published to `transactions.scored`" (649). |

The type invariants and the inductive invariants (`TypeOK`, `IInv`) were checked
by TLC on these instances before they were proved. As theorems they are not
part of the runs any more, nor are the properties that follow from them
without saying more about the instance (`AtMostOnce`, `RefusedNeverArrives`,
`OnceSeenNeverNew`, `TransactionsAreUnique`, `ColumnsAreKept`,
`WinnersAreStrongest`, `LevelFollowsPercentile`, `TransitionFindsAlert`,
`DecisionIsFinal`, `OneDecisionPerTransaction`).

### Divergences met while modelling

Besides the two refuted runs, code and text part at these places, which have no
run of their own:

- *Oversized key.* The dead letter of a malformed record takes the payload's
  `event_id` as its key (`worker.py:166`), and `outbox_events.message_key` holds
  300 characters: saving the rejection of a longer one raises after every
  restart (`RejectionRaises`; `long` in the log of `recovery` is such a record).
  "Invalid Kafka events are recorded and published to `transactions.dead-letter`
  so one malformed event cannot stop the consumer" (`ARCHITECTURE.md:148-150`).
- *Timeline.* `reviewed_at` is the start of the transaction. A final review that
  starts, waits for the lock while a later interim review commits, and then
  resolves the alert is shown before the interim one, which is the "latest
  review" of the details (`ARCHITECTURE.md:793-797`).
- *Overtaken loads.* A load that began before an invalidation stores its history
  after it, and it is served until its ttl ends; `cache.py:27` says "without
  reusing stale customer history". `OnlyOvertakenLoadsAreStale` is what holds.
- *Rows of one instant.* The history is ordered by `transaction_time` alone
  (`fraudflux_features/postgres.py:168`): which of several rows of one instant
  is the previous transaction, and so distance and speed, is up to PostgreSQL.
  `calculator.py:1` says "Deterministic".
- *Later listings.* The device query compares `expires_at`, and never
  `added_at`, with the transaction's time
  (`fraudflux_features/postgres.py:177`), so a replay sees a listing that is
  younger than the transaction; line 51 says "Load only records that existed
  before the transaction being scored." Rates and profiles are read as they are
  now, too. `ReplayIsStable` names these exceptions.
- *Tied scores.* `_average_precision` ranks equal scores by identifier, one step
  each (`evaluator.py:97`), so a fraud that ties with a legitimate transaction
  counts 1 or 1/2; "step-wise area under the precision-recall curve" (91) makes
  equal scores one threshold. `RankingIsRewarded` compares with that area when
  no two scores are equal.
- *Redelivered scores.* The evaluation refuses a file that has a scored event
  twice (`BiasIsRefused`), and topics deliver at least once
  (`ARCHITECTURE.md:301`): a dump of the topic has to be made unique first.
- *Last activity.* `last_activity_at` also covers a transaction whose event lost
  the race and is not stored, since `return False` commits the shell
  (`postgres.py:116`). `LastActivityCovers` says "no earlier", not "equal".

### Bounds

- *Recovery.* The interesting orders need two members (a zombie and its
  successor), two events of one customer for histories, a repeated record, a
  malformed record between events, and one that raises. Partitions share
  nothing but the store, so one partition with repeats stands for records in
  two. Crashes, evictions and restarts are not counted and so not bounded.
- *Worker and API.* Three actors cover a winner and two losers; two events of
  one transaction cover the second unique key.
- *Liveness.* Short logs: each record repeats the same steps.
- *Scoring.* Points 10, 29, 40 with contributions 0, 1, 29, 30 meet 39, 40, 69,
  70, the cap and 100; a tying and a disabled third rule. Calibrations up to 4
  apart include every pattern of empty segments and ties of rounding. Rules and
  calibrations do not read each other, so `MCInit` varies one at a time.
- *Alerts.* `MaxTime` bounds the number of transactions that are started; with
  it trails are finite. Four allow assign, interim, final and one more that
  overlaps all of them.
- *Cache.* Three events with room for two evict; all of one customer, so that
  an invalidation meets entries, loads and evictions at once. `MaxTime` = 2 is
  past one `Ttl`; `MaxWrites` = 1: a history lacks the row or has it.
- *Producer.* Two threads are a poller and a waiter; one slot makes the queue
  full for the second. `Allowance` = 1 and `DeliveryTimeout` = 2 keep the two
  deadlines apart. `RetryAttempts` = 2 reaches both backoffs.
- *Storage.* `MaxCalls` = 4 calls of three sessions: two that race, a third that
  waits for both, and one after them.
- *Features.* Transactions at 1, 5 and 6, with windows of 1, 2 and 4 and a
  lookback of 5: one is outside the hour of the last, one inside, and the limit
  of one row cuts. `OneChange` lets one table of the operators change, while a
  scorer is idle; every combination of unchanged and changed queries of the
  other is still met.
- *Evaluation.* Four transactions, enough for each cell of the confusion matrix
  to hold one or none, and for ties and reversals in the rank.

Symmetry is used for workers, request threads, sessions, scorers, cache threads
and events in runs without liveness properties; the resolving and the interim
outcome stand for the three.

Deadlock is not checked where the system stops by itself: `RiskScoring` and
`FeedbackEvaluation` end with a result, `AlertReview` stops at `MaxTime` and
`DecisionStorage` at `MaxCalls` (`RequestsEnd` and `NoDeadlock` say that nobody
is left waiting), and in `worker_liveness` everything may be consumed.

### Fairness

`LiveSpec` of `DecisionWorkerLiveness`: a process that can take a step takes it
(`WF` on each worker's and each request's steps), a stopped worker is restarted
(deployment under a supervisor, as `ARCHITECTURE.md` assumes), a free partition
is assigned to a live member (Kafka's group coordinator), and failures cease at
some time (`CalmDown`), without which nothing can be promised. Failures that
come from the data go on: `SaveRaises`, `RejectionRaises` and `CommitFenced` are
no faults. Nobody repeats a failed request of the API. `FairSpec` of
`AlertReview` is strong fairness of each session's steps: PostgreSQL serves the
waiters of a lock in their order. `FairSpec` of `KafkaProducer` says that
threads are scheduled and that time passes. It assumes nothing of the broker or
of the client: calls end because of their own deadlines, or not at all.

## 4. Proofs

All proofs are checked by TLAPS to the last leaf; they hold for any number of
workers, threads, partitions, events, rules, calibrations, sessions, alerts,
messages, slots, customers and payloads. They assume only the named `ASSUME`s of
the modules (names of different kinds are different, final outcomes are
outcomes, the calibrations and rulesets are those the constructors of the code
accept), which TLC evaluates in every run.

- **DecisionWorkerProofs.** `IInv` joins the safety properties to what they
  need: the locals fit the step (`HandFitsStep`), publishing starts from a
  stored outcome (`OutcomeIsStored`), the list read by `pending_outbox` goes
  stale in one direction only (`TodoCoversUnpublished`), and the owner of a
  partition is at most one record past the committed offset, exactly while it
  processes that record (`OwnerIsAtCommitted`). The last one is why a commit
  settles just the next record: `ConsumedOnlyWhenSettled` alone is not
  inductive, for a commit could skip. From `Spec => []IInv` follow the safety
  theorems, the action property `DecisionIsFinal`, and `Refinement`: each step
  is a step of `DecisionLedger` or stutters. `TransactionsAreDecidedOnce` is an
  invariant of its own beside `IInv`.

`HistoriesAreComplete` needs more than `IInv`, and `HistoryInv` adds it. A
worker, a zombie after an eviction included, holds a record all of whose
predecessors in the partition are decided (`EarlierAreDecided`: the owner starts
at the committed offset, and decisions stay); so the candidate it is about to
save has seen them (`CandidateIsComplete`). A redelivered record cannot spoil
this, since the first decision stays; a request of the API can only decide what
was submitted (`RequestsAreSubmitted`). `KeyAssumption` is what brings the
events of one customer to one partition: without it, the same event could be
read from a partition in which the earlier ones are not.
- **RiskScoringProofs.** `IInv` says of each local what the step that bound it
  computed, that the winners are the strongest of the rules seen so far, and
  that the points are those of the groups whose winner was added
  (`PointsAreOfGroups`). `PipelineNeverRaises` (no check of one part refuses
  what another computed), `ApprovalIsUnopposed`, `LevelsFollowPercentiles` and
  `PointsAreMonotone` rest on lemmas on rounding and segments;
  `StrongestMatchesCount` on those about sums, below.
- **AlertReviewProofs.** `IInv` says that locks exclude (`LocksAreExclusive`),
  that what a session has read under its lock is still so
  (`LockedRowIsCurrent`), and that an id it has inserted is nobody else's
  (`InsertedIdsAreNew`). `AtMostOneFinalReview` needs that a final review has
  resolved its alert; `TrailIsContinuous` needs that the entry appended starts
  from the locked status. `Refinement`: each call of `review` or `assign` is one
  step of `AlertLifecycle`, at its commit.
- **HistoryCacheProofs.** `IInv` carries the three promises from answers to what
  will answer: entries and loads on their way cover the rows from before they
  began (`EntriesCoverTheirStart`), lack rows from before an invalidation only
  when marked (`OvertakenAreMarked`), and nothing that could answer the first
  call for an event is older than that call (`FirstSeesLater`).
  `LeastRecentGoes` has an invariant of its own, `UseInv`: the mapping's order
  is total on the entries, its size is bounded, and what comes first in it was
  not used since what comes later (`OrderFollowsUse`).
- **KafkaProducerProofs.** `IInv` says that a message is in one place: not sent
  (`UnsentIsNowhere`), in one slot (`OneSlotEach`), on the wire or in the topic
  (`QueueFits`), and that a waiter has at least as much time as the client has
  left (`WaitOutlastsClient`), which is the whole reason for
  `delivery_wait_timeout_seconds`. `Refinement` maps every step to a step of
  `MessageDelivery`.
- **DecisionStorageProofs.** `IInv` says that locks exclude
  (`LocksAreExclusive`) and what a session relies on between two statements
  (`SessionInv`): the row it will write is the committed one with its own
  change, keys it holds are new, and a key it found known is committed with its
  decision. `AllOrNothing` follows at the commits. `NobodyWaitsInACircle` argues
  by the order in which locks are taken: a session at a later statement waits
  only for one further on. `Refinement`: each call of the store is one step of
  `DecisionStore`, at its commit or its reading.
- **CustomerFeaturesProofs.** `IInv` says that the rows a scorer has read are
  stored and miss a recent one only at the limit (`RowsFit`), and that the
  device query, which comes later, knows every device among them
  (`DeviceFits`). `ReplaysAreStable` needs no invariant: a step that adds no
  earlier row and leaves the three tables of the transaction alone leaves all
  four queries as they were. `ColdStartsAreNeutral` adds that a result is one of
  those the loaded rows give (`ResultsFit`), and works out the features of no
  rows, and of rows without an amount in the customer's currency.
- **FeedbackEvaluationProofs.** `IInv` says what each step has left behind and
  why one has failed. `BiasedInputIsRefused` follows at the last step.
  `LabelsAreCountedOnce`, `RatesAreRates` (every rate lies between zero and one,
  also of empty classes, and F1 between precision and recall) and
  `RankingCounts` (the average precision is the area of the steps when no scores
  are equal, and one for a perfect ranking only) rest on the sums, below.

Sums over a set are folds in the library, defined by a choice at each step. The
induction theorems of the library take an operator as a parameter, which the
provers cannot instantiate; the proofs state the predicate as a set of numbers
or of subsets, and get the induction from the well-foundedness of the order of
the naturals (`NaturalInduction`, `SubsetInduction`). From these follow that the
fold is a recursion (`RecursionExists`, `SumIsRecursive`), and what is used of a
sum: it does not depend on the order, unfolds by any element, stays within
bounds, and is kept by renaming and by leaving out zeros. The lemmas stand both
in `RiskScoringProofs` and in `FeedbackEvaluationProofs`.

All invariants of the passing runs are theorems, and so are the refinements and
the other properties of steps. Model-checked only:

- liveness (`EverythingConsumed`, `DecisionsAreAnnounced`, `RequestsEnd`,
  `CallsEnd`), which needs fairness and so `ENABLED`;
- the two refuted properties.

## 5. Not modelled

- The text of explanations, payload formats, masking, logging and metrics;
  `Monitoring` is counters under one lock that no decision depends on.
- The estimator, its training and its artifacts: `AnomalyCalibration` takes any
  raw score and any calibration that the loader accepts. Floats are fractions or
  integers; rounding to six places and the haversine formula are left out of the
  features (a table gives the distances).
- Loading and validating YAML rules, and the contract of an event field by
  field: a record is valid, malformed, or malformed with an oversized id.
- `get`, lists, details, summaries and the event stream only read. Registering a
  version is one insertion with its audit entry.
- The in-memory store and the simulator serve tests and demonstrations.
- The dashboard: one tab without promises. That an answer to an earlier click
  can replace a later one is listed as a hazard; no document says what should
  happen.
- Clients that repeat a review without an id, and requests that overtake the
  customer's queued transactions, are listed as hazards that the program cannot
  or does not mean to exclude.
- Topics and broker settings, runtime wiring: constants, and construction at
  start.

## 6. Plan

1 to 8 are done; what is left, in this order:

1. `DecisionWorker` with `DecisionLedger`, its runs and proofs: done.
2. `AnomalyCalibration`, `RiskScoring`: done.
3. `AlertReview` with `AlertLifecycle`: done.
4. `HistoryCache`: done.
5. `KafkaProducer` with `MessageDelivery`: done.
6. `CustomerFeatures`, `FeedbackEvaluation`: done.
7. `DecisionStorage` with `DecisionStore`: done.
8. Proofs of every invariant that a run checks, sums and orders included: done.
9. The arguments under the liveness properties as far as they are about single
   steps: a measure that each step of a process makes smaller (`WorkerStep` of
   `DecisionWorker`, the threads of `KafkaProducer`, the sessions of
   `AlertReview`), so that only the scheduling is left to TLC.
10. The events of `RiskScoring` over the features of `CustomerFeatures`, so that
   the packaged rules are matched by rows instead of by any choice; retrying
   review clients.
