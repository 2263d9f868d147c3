---------------------------- MODULE MCDecisionData ----------------------------
(***************************************************************************)
(* The raw topics of the small instances of DecisionWorker.  Every name is *)
(* a model value and a source is a pair, so that no two namespaces meet.   *)
(***************************************************************************)
EXTENDS TLC

CONSTANTS p1, e1, e2, e3, bad, long, t1, t2, t3, ann, bob

\* e1 and e2 are transactions of one customer.
Customers == e1 :> ann @@ e2 :> ann @@ e3 :> bob

\* They happened in the order of their names.
Times == e1 :> 1 @@ e2 :> 2 @@ e3 :> 3

\* Every event is a transaction of its own.
OwnTransaction == e1 :> t1 @@ e2 :> t2 @@ e3 :> t3

\* e2 and e3 are two publications of one transaction: publish_transaction
\* gives each call a new event_id and keeps the caller's transaction_id.
RepublishedTransaction == e1 :> t1 @@ e2 :> t2 @@ e3 :> t2

\* A malformed record between two events of one customer, a second delivery
\* of the first event by the producer, and a record that cannot be rejected.
RepeatLog == p1 :> <<e1, bad, e2, e1, long>>

OneEvent == p1 :> <<e2>>

MixedLog == p1 :> <<bad, e1>>

RepublishedLog == p1 :> <<e2, e3>>
==============================================================================
