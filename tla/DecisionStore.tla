---------------------------- MODULE DecisionStore ----------------------------
(***************************************************************************)
(* What the processing store promises to those who score, as if a call     *)
(* were one step: an event is decided once and a transaction once, each    *)
(* with everything that belongs to the decision, and whoever is told about *)
(* an event is told what is stored.                                        *)
(***************************************************************************)
CONSTANTS
  Session,       \* those who score: worker processes and request threads
  Event,         \* event_id
  Payload,       \* validated events
  EventOf,       \* event_id of a payload
  TransactionOf, \* transaction_id of a payload
  Category,      \* RiskCategory
  Nothing        \* no decision, no answer

VARIABLES
  decided,       \* decided[e]: the decision on event e, or Nothing
  told           \* told[s]: the answer that s got last, or Nothing

storeVars == <<decided, told>>

Candidate == [payload : Payload, category : Category]

Init ==
  /\ decided = [e \in Event |-> Nothing]
  /\ told = [s \in Session |-> Nothing]

Tell(s, c) == told' = [told EXCEPT ![s] = c]

\* No other event has a decision on the candidate's transaction.
Fresh(c) ==
  \A e \in Event :
    decided[e] # Nothing =>
      TransactionOf[decided[e].payload] # TransactionOf[c.payload]

\* A candidate is stored, and its author is told so or sees an error.
Save(s, c) ==
  /\ decided[EventOf[c.payload]] = Nothing
  /\ Fresh(c)
  /\ decided' = [decided EXCEPT ![EventOf[c.payload]] = c]
  /\ Tell(s, c) \/ Tell(s, Nothing)

\* The event is known: the answer is the decision that is there.
Find(s, e) ==
  /\ decided[e] # Nothing
  /\ Tell(s, decided[e])
  /\ UNCHANGED decided

\* An exception; nothing is stored.
Fail(s) ==
  /\ Tell(s, Nothing)
  /\ UNCHANGED decided

Next ==
  \E s \in Session :
    \/ \E c \in Candidate : Save(s, c)
    \/ \E e \in Event : Find(s, e)
    \/ Fail(s)

Spec == Init /\ [][Next]_storeVars
==============================================================================
