------------------------ MODULE MCFeedbackEvaluation ------------------------
(* Four transactions with decisions of three scores, two of them equal for  *)
(* some; files with labels of one source, of both, interim ones, repeated   *)
(* and missing records, and records in another order.                       *)
EXTENDS FeedbackEvaluation

Transactions == 1 .. 4
Amounts == [t \in Transactions |-> 10 ^ (t - 1)]

Low == [score |-> 20, category |-> "low", action |-> "approve"]
Overridden == [score |-> 20, category |-> "high", action |-> "hold_for_review"]
Medium == [score |-> 50, category |-> "medium",
           action |-> "additional_verification"]
High == [score |-> 90, category |-> "high", action |-> "hold_for_review"]

Scored(t, d) == [transaction |-> t, decision |-> d]

\* Any decisions on all four; fewer, one twice, and another order for some.
MCScoredFiles ==
  {<<Scored(1, a), Scored(2, b), Scored(3, c), Scored(4, d)>> :
     a \in {Low, High}, b \in {Low, Medium, High},
     c \in {Overridden, Medium, High}, d \in {Low, Medium}}
  \cup {<<Scored(1, a), Scored(2, b)>> : a, b \in {Low, High}}
  \cup {<<Scored(3, High), Scored(1, a), Scored(2, Low), Scored(1, High)>> :
          a \in {Low, High}}
  \cup {<<Scored(4, Low), Scored(2, High), Scored(3, Medium), Scored(1, High)>>}

Truth(t, f) == [transaction |-> t, fraud |-> f]

MCTruthFiles ==
  {Absent}
  \cup {<<Truth(1, a), Truth(2, b), Truth(3, c), Truth(4, d)>> :
          a, b, c, d \in BOOLEAN}
  \cup {<<Truth(2, a), Truth(1, b)>> : a, b \in BOOLEAN}
  \cup {<<Truth(1, a), Truth(1, b)>> : a, b \in BOOLEAN}

Label(t, o) == [transaction |-> t, outcome |-> o]
Outcomes == {"confirmed_fraud", "legitimate", "needs_further_investigation"}

MCLabelFiles ==
  {Absent}
  \cup {<<Label(3, "needs_further_investigation"), Label(2, a), Label(1, b),
          Label(2, c)>> : a, b, c \in Outcomes}
==============================================================================
