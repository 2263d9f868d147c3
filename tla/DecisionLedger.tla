---------------------------- MODULE DecisionLedger ----------------------------
(***************************************************************************)
(* What scoring promises, whoever does it and however it fails: an event   *)
(* is decided at most once and a transaction at most once; only what is    *)
(* stored is announced; and a record of the raw topic is consumed, in      *)
(* order, only when it is settled.                                         *)
(***************************************************************************)
EXTENDS DecisionOutputs

VARIABLES
  decided,    \* decided[e]: the decision on e, or NoDecision
  refused,    \* the sources rejected as malformed
  announced,  \* the rows on the output topics
  consumed    \* consumed[p]: how many records of p are done

ledgerVars == <<decided, refused, announced, consumed>>

Init ==
  /\ decided = [e \in Event |-> NoDecision]
  /\ refused = {}
  /\ announced = {}
  /\ consumed = [p \in Partition |-> 0]

Decide(e, d) ==
  /\ decided[e] = NoDecision
  /\ \A f \in Event \ {e} :
       decided[f] # NoDecision => TransactionOf[f] # TransactionOf[e]
  /\ decided' = [decided EXCEPT ![e] = d]
  /\ UNCHANGED <<refused, announced, consumed>>

Refuse(s) ==
  /\ s \notin refused
  /\ refused' = refused \cup {s}
  /\ UNCHANGED <<decided, announced, consumed>>

Announce(m) ==
  /\ m \in RowsFor(decided, refused)
  /\ announced' = announced \cup {m}
  /\ UNCHANGED <<decided, refused, consumed>>

Consume(p) ==
  /\ consumed[p] < Len(Log[p])
  /\ Settled(p, consumed[p] + 1, decided, refused, announced)
  /\ consumed' = [consumed EXCEPT ![p] = @ + 1]
  /\ UNCHANGED <<decided, refused, announced>>

Next ==
  \/ \E e \in Event, d \in Decision : Decide(e, d)
  \/ \E p \in Partition : \E n \in 1 .. Len(Log[p]) :
       Log[p][n] \in Malformed /\ Refuse(<<p, n>>)
  \/ \E m \in RowsFor(decided, refused) : Announce(m)
  \/ \E p \in Partition : Consume(p)

Spec == Init /\ [][Next]_ledgerVars
==============================================================================
