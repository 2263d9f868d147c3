--------------------------- MODULE MCHistoryCache ---------------------------
(***************************************************************************)
(* An instance of HistoryCache: every event is one of the same customer.   *)
(***************************************************************************)
EXTENDS HistoryCache, TLC

CONSTANT ann

Owner == [e \in Event |-> ann]

Interchangeable == Permutations(Thread) \cup Permutations(Event)
==============================================================================
