-------------------------- MODULE FeedbackEvaluation --------------------------
(***************************************************************************)
(* fraudflux-evaluate: scored events are joined with the simulator's       *)
(* ground truth and the analysts' final labels, merged by transaction, and *)
(* reported as counts, rates and average precision.                        *)
(*                                                                         *)
(* A file is a sequence of records, the cases of a source are kept under   *)
(* the positions of their records, and merged cases under the transaction. *)
(* A rate is a pair of a numerator and a denominator, so nothing is        *)
(* rounded; Scale is what all ranks divide.  Transactions are numbers:     *)
(* their order is the order of their identifiers.                          *)
(***************************************************************************)
EXTENDS Integers, Sequences, FiniteSets, Functions

CONSTANTS
  ScoredFiles,  \* files of scored events: transaction and decision
  TruthFiles,   \* files of ground truth: transaction and fraud
  LabelFiles,   \* files of analyst labels: transaction and outcome
  Absent,       \* the file is not given on the command line
  AmountOf,     \* amount_minor of a transaction
  Positive,     \* EvaluationPolicy.positive_categories
  Scale         \* a common multiple of all ranks

Transaction == DOMAIN AmountOf

Decision ==
  [score : 0 .. 100,
   category : {"low", "medium", "high"},
   action : {"approve", "additional_verification", "hold_for_review"}]

ASSUME TransactionAssumption ==
  /\ IsFiniteSet(Transaction)
  /\ Transaction \subseteq Int
  /\ AmountOf \in [Transaction -> Nat \ {0}]

ASSUME FileAssumption ==
  /\ Absent \notin ScoredFiles
  /\ \A f \in ScoredFiles : f \in Seq([transaction : Transaction,
                                       decision : Decision])
  /\ \A f \in TruthFiles \ {Absent} : f \in Seq([transaction : Transaction,
                                                 fraud : BOOLEAN])
  /\ \A f \in LabelFiles \ {Absent} :
       f \in Seq([transaction : Transaction,
                  outcome : {"confirmed_fraud", "legitimate",
                             "needs_further_investigation"}])

ASSUME ScaleAssumption ==
  /\ Scale \in Nat \ {0}
  /\ \A rank \in 1 .. Cardinality(Transaction) : Scale % rank = 0

VARIABLES
  input,      \* the files: scored, truth and labels
  decisions,  \* the scored events by transaction
  simulator,  \* the cases labelled by the simulator
  analyst,    \* the cases labelled by analysts
  cases,      \* the merged cases by transaction
  report,     \* the report, or Absent
  pc          \* the next step, "done" or "failed"

vars == <<input, decisions, simulator, analyst, cases, report, pc>>

Init ==
  /\ input \in [scored : ScoredFiles, truth : TruthFiles, labels : LabelFiles]
  /\ input.truth # Absent \/ input.labels # Absent
  /\ decisions = <<>>
  /\ simulator = <<>>
  /\ analyst = <<>>
  /\ cases = <<>>
  /\ report = Absent
  /\ pc = "index"

------------------------------------------------------------------------------
(* Joining the files *)

Given(file) == IF file = Absent THEN <<>> ELSE file

TransactionsOf(file) == {file[n].transaction : n \in DOMAIN file}

\* Two records of the file are about one transaction.
Repeats(file) ==
  \E m, n \in DOMAIN file :
    m # n /\ file[m].transaction = file[n].transaction

\* The record about t.
RecordOf(file, t) == file[CHOOSE n \in DOMAIN file : file[n].transaction = t]

\* FINAL_ANALYST_OUTCOMES; needs_further_investigation is no label.
Final(record) == record.outcome \in {"confirmed_fraud", "legitimate"}

\* The positions of the final labels.
FinalLabels ==
  {n \in DOMAIN Given(input.labels) : Final(Given(input.labels)[n])}

DecisionsByTransaction ==
  [t \in TransactionsOf(input.scored) |-> RecordOf(input.scored, t).decision]

NewCase(t, fraud, source) ==
  [transaction |-> t, fraud |-> fraud, source |-> source,
   amount |-> AmountOf[t], decision |-> decisions[t]]

SimulatorCases ==
  LET file == Given(input.truth) IN
  [n \in DOMAIN file |->
     NewCase(file[n].transaction, file[n].fraud, "simulator_ground_truth")]

AnalystCases ==
  LET file == Given(input.labels) IN
  [n \in FinalLabels |->
     NewCase(file[n].transaction, file[n].outcome = "confirmed_fraud",
             "validated_analyst_label")]

\* A defect, for a mutation run: a simulator's case replaces an analyst's.
MergedSimulatorLast(s, a) ==
  [t \in TransactionsOf(s) \cup TransactionsOf(a) |->
     RecordOf(IF t \in TransactionsOf(s) THEN s ELSE a, t)]

\* One case per transaction, an analyst's before the simulator's.
Merged(s, a) ==
  [t \in TransactionsOf(s) \cup TransactionsOf(a) |->
     RecordOf(IF t \in TransactionsOf(a) THEN a ELSE s, t)]

------------------------------------------------------------------------------
(* The metrics *)

Predicted(case) == case.decision.category \in Positive

Frauds == {t \in DOMAIN cases : cases[t].fraud}
Positives == {t \in DOMAIN cases : Predicted(cases[t])}

Amount(S) == SumFunctionOnSet([t \in DOMAIN cases |-> cases[t].amount], S)

Rate(n, d) == IF d = 0 THEN <<0, 1>> ELSE <<n, d>>

\* A defect, for a mutation run: the mean is not doubled.
HarmonicMeanHalf(p, r) == Rate(p[1] * r[1], p[1] * r[2] + r[1] * p[2])

\* The harmonic mean of two rates
HarmonicMean(p, r) == Rate(2 * p[1] * r[1], p[1] * r[2] + r[1] * p[2])

Score(t) == cases[t].decision.score

\* A defect, for a mutation run: the lowest score comes first.
BeforeAscending(t, u) ==
  Score(t) < Score(u) \/ (Score(t) = Score(u) /\ t < u)

\* The ranking: by falling score, and in the order of the cases within one.
Before(t, u) == Score(t) > Score(u) \/ (Score(t) = Score(u) /\ t < u)

\* The cases that rank no lower than t
Upto(t) == {u \in DOMAIN cases : u = t \/ Before(u, t)}

\* The share of fraud among them, times Scale
Share(t) == Cardinality(Upto(t) \cap Frauds) * (Scale \div Cardinality(Upto(t)))

\* _average_precision: the mean of the shares of the fraudulent cases.
AveragePrecision ==
  Rate(SumFunctionOnSet([t \in Frauds |-> Share(t)], Frauds),
       Scale * Cardinality(Frauds))

Report ==
  LET tp == Cardinality(Frauds \cap Positives)
      fn == Cardinality(Frauds \ Positives)
      fp == Cardinality(Positives \ Frauds)
      tn == Cardinality(DOMAIN cases \ (Frauds \cup Positives))
      held == {t \in DOMAIN cases \ Frauds :
                 cases[t].decision.action = "hold_for_review"}
  IN [tp |-> tp, fn |-> fn, fp |-> fp, tn |-> tn,
      precision |-> Rate(tp, tp + fp),
      recall |-> Rate(tp, tp + fn),
      f1 |-> HarmonicMean(Rate(tp, tp + fp), Rate(tp, tp + fn)),
      fpr |-> Rate(fp, fp + tn),
      ap |-> AveragePrecision,
      detected |-> Amount(Frauds \cap Positives),
      held |-> Amount(held)]

------------------------------------------------------------------------------
(* Steps *)

Fail ==
  /\ pc' = "failed"
  /\ UNCHANGED <<decisions, simulator, analyst, cases, report>>

\* A defect, for a mutation run: the last event on a transaction wins.
IndexDecisionsLast ==
  /\ pc = "index"
  /\ decisions' = DecisionsByTransaction
  /\ pc' = "simulator"
  /\ UNCHANGED <<input, simulator, analyst, cases, report>>

\* _scored_by_transaction
IndexDecisions ==
  /\ pc = "index"
  /\ \/ /\ ~Repeats(input.scored)
        /\ decisions' = DecisionsByTransaction
        /\ pc' = "simulator"
        /\ UNCHANGED <<simulator, analyst, cases, report>>
     \/ Repeats(input.scored) /\ Fail
  /\ UNCHANGED input

\* build_simulator_cases
BuildSimulatorCases ==
  /\ pc = "simulator"
  /\ LET scored == TransactionsOf(Given(input.truth)) \subseteq DOMAIN decisions
     IN
     \/ /\ scored
        /\ simulator' = SimulatorCases
        /\ pc' = "analyst"
        /\ UNCHANGED <<decisions, analyst, cases, report>>
     \/ ~scored /\ Fail
  /\ UNCHANGED input

\* build_analyst_cases
BuildAnalystCases ==
  /\ pc = "analyst"
  /\ LET scored == \A n \in FinalLabels :
                     Given(input.labels)[n].transaction \in DOMAIN decisions
     IN
     \/ /\ scored
        /\ analyst' = AnalystCases
        /\ pc' = "merge"
        /\ UNCHANGED <<decisions, simulator, cases, report>>
     \/ ~scored /\ Fail
  /\ UNCHANGED input

\* merge_cases
MergeCases ==
  /\ pc = "merge"
  /\ \/ /\ ~Repeats(simulator) /\ ~Repeats(analyst)
        /\ cases' = Merged(simulator, analyst)
        /\ pc' = "evaluate"
        /\ UNCHANGED <<decisions, simulator, analyst, report>>
     \/ (Repeats(simulator) \/ Repeats(analyst)) /\ Fail
  /\ UNCHANGED input

\* FraudDecisionEvaluator.evaluate
Evaluate ==
  /\ pc = "evaluate"
  /\ report' = Report
  /\ pc' = "done"
  /\ UNCHANGED <<input, decisions, simulator, analyst, cases>>

Next ==
  \/ IndexDecisions
  \/ BuildSimulatorCases
  \/ BuildAnalystCases
  \/ MergeCases
  \/ Evaluate

Spec == Init /\ [][Next]_vars

------------------------------------------------------------------------------
(* Properties *)

\* The labels as the files state them, without the steps that join them.
Records(file) == {Given(file)[n] : n \in DOMAIN Given(file)}
Truths == Records(input.truth)
Finals == {r \in Records(input.labels) : Final(r)}

Labelled(t) ==
  \E r \in Truths \cup Finals : r.transaction = t

\* The label that counts: an analyst's, or else the simulator's.
IsFraud(t) ==
  IF \E r \in Finals : r.transaction = t
    THEN \E r \in Finals :
           r.transaction = t /\ r.outcome = "confirmed_fraud"
    ELSE \E r \in Truths : r.transaction = t /\ r.fraud

IsPositive(t) ==
  \E r \in Records(input.scored) :
    r.transaction = t /\ r.decision.category \in Positive

\* Every labelled transaction is counted once, under the label that takes
\* precedence, in whatever order and by whichever source it was labelled;
\* the amounts are those of the same transactions.
CountedOnceByLabel ==
  pc = "done" =>
    LET All == {t \in Transaction : Labelled(t)} IN
    /\ report.tp = Cardinality({t \in All : IsFraud(t) /\ IsPositive(t)})
    /\ report.fn = Cardinality({t \in All : IsFraud(t) /\ ~IsPositive(t)})
    /\ report.fp = Cardinality({t \in All : ~IsFraud(t) /\ IsPositive(t)})
    /\ report.tn = Cardinality({t \in All : ~IsFraud(t) /\ ~IsPositive(t)})
    /\ report.detected =
         SumFunctionOnSet(AmountOf, {t \in All : IsFraud(t) /\ IsPositive(t)})

Below(p, q) == p[1] * q[2] <= q[1] * p[2]
Same(p, q) == p[1] * q[2] = q[1] * p[2]

\* The rates are rates, also of empty classes, and F1 weighs both errors:
\* it is 2TP / (2TP + FP + FN), and lies between precision and recall.
RatesAgree ==
  pc = "done" =>
    LET r == report IN
    /\ \A q \in {r.precision, r.recall, r.f1, r.fpr, r.ap} :
         Below(<<0, 1>>, q) /\ Below(q, <<1, 1>>)
    /\ Same(r.f1, Rate(2 * r.tp, 2 * r.tp + r.fp + r.fn))
    /\ \/ Below(r.precision, r.f1) /\ Below(r.f1, r.recall)
       \/ Below(r.recall, r.f1) /\ Below(r.f1, r.precision)

\* The area under the precision-recall curve: each score is a threshold,
\* and a step as wide as the recall it gains.
Scores == {Score(t) : t \in DOMAIN cases}
Above(s) == {t \in DOMAIN cases : Score(t) >= s}
Step(s) ==
  Cardinality({t \in Frauds : Score(t) = s})
    * Cardinality(Above(s) \cap Frauds)
    * (Scale \div Cardinality(Above(s)))
StepArea ==
  Rate(SumFunctionOnSet([s \in Scores |-> Step(s)], Scores),
       Scale * Cardinality(Frauds))

ScoresDiffer ==
  \A t, u \in DOMAIN cases : Score(t) = Score(u) => t = u

\* When no two scores are equal, the average precision is the area of the
\* steps of the precision-recall curve, whatever the transactions are
\* called.  It is one when every fraud outranks every legitimate
\* transaction, and only if no fraud is outranked by one.
RankingIsRewarded ==
  pc = "done" =>
    LET Outranked(t, u) == Score(t) > Score(u)
        Legitimate == DOMAIN cases \ Frauds IN
    /\ ScoresDiffer => Same(report.ap, StepArea)
    /\ Frauds # {} /\ (\A t \in Frauds, u \in Legitimate : Outranked(t, u))
         => Same(report.ap, <<1, 1>>)
    /\ Same(report.ap, <<1, 1>>)
         => \A t \in Frauds, u \in Legitimate : ~Outranked(u, t)

\* Two final labels are about one transaction.
FinalsRepeat ==
  LET labels == Given(input.labels) IN
  \E m, n \in FinalLabels :
    m # n /\ labels[m].transaction = labels[n].transaction

\* A report is never biased in silence: there is one just when every
\* labelled transaction was scored, and neither scores nor labels of one
\* source repeat.
BiasIsRefused ==
  pc \in {"done", "failed"} =>
    (pc = "done" <=>
       /\ ~Repeats(input.scored)
       /\ ~Repeats(Given(input.truth))
       /\ ~FinalsRepeat
       /\ \A r \in Truths \cup Finals :
            r.transaction \in TransactionsOf(input.scored))

\* The steps in their order.
Stage(labels) == pc \in labels \cup {"done"}

\* The inductive invariant: what each step has left, and why one has failed.
IInv ==
  /\ input \in [scored : ScoredFiles, truth : TruthFiles, labels : LabelFiles]
  /\ Stage({"simulator", "analyst", "merge", "evaluate"}) =>
       ~Repeats(input.scored) /\ decisions = DecisionsByTransaction
  /\ Stage({"analyst", "merge", "evaluate"}) =>
       /\ TransactionsOf(Given(input.truth)) \subseteq DOMAIN decisions
       /\ simulator = SimulatorCases
  /\ Stage({"merge", "evaluate"}) =>
       /\ \A n \in FinalLabels :
            Given(input.labels)[n].transaction \in DOMAIN decisions
       /\ analyst = AnalystCases
  /\ Stage({"evaluate"}) =>
       /\ ~Repeats(simulator) /\ ~Repeats(analyst)
       /\ cases = Merged(simulator, analyst)
  /\ pc = "done" => report = Report
  /\ pc = "failed" =>
       \/ Repeats(input.scored)
       \/ Repeats(Given(input.truth))
       \/ FinalsRepeat
       \/ \E r \in Truths \cup Finals :
            r.transaction \notin TransactionsOf(input.scored)
=============================================================================
