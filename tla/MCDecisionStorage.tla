-------------------------- MODULE MCDecisionStorage --------------------------
EXTENDS DecisionStorage, TLC

CONSTANTS e1, e2, t1, t2, c1, c2, p1, p2, p3

\* p2 repeats the event_id of p1 for another transaction and customer; p3
\* repeats the transaction_id of p1 under another event_id, and is an
\* earlier transaction of the customer of p2.
MCEventOf == p1 :> e1 @@ p2 :> e1 @@ p3 :> e2
MCTransactionOf == p1 :> t1 @@ p2 :> t2 @@ p3 :> t1
MCCustomerOf == p1 :> c1 @@ p2 :> c2 @@ p3 :> c2
MCTimeOf == p1 :> 1 @@ p2 :> 2 @@ p3 :> 1

Interchangeable == Permutations(Session)
==============================================================================
