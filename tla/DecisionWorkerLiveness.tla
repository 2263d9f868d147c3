------------------------ MODULE DecisionWorkerLiveness ------------------------
(***************************************************************************)
(* DecisionWorker with its scheduling: processes run, a supervisor starts  *)
(* a stopped worker again, the coordinator hands out free partitions, and  *)
(* some day failures cease (crashes, lost connections, evictions, lost     *)
(* delivery reports).  What fails because of the data goes on failing, and *)
(* nothing makes a caller of the API repeat a request that failed.         *)
(***************************************************************************)
EXTENDS DecisionWorker

VARIABLE calm  \* failures have ceased

liveVars == <<vars, calm>>

LiveInit == Init /\ calm = FALSE

\* The outage is over.
CalmDown ==
  /\ calm = FALSE
  /\ calm' = TRUE
  /\ UNCHANGED vars

LiveNext ==
  \/ Progress /\ UNCHANGED calm
  \/ ~calm /\ Fault /\ UNCHANGED calm
  \/ CalmDown

Fairness ==
  /\ \A w \in Worker : WF_vars(WorkerStep(w)) /\ WF_vars(Restart(w))
  /\ \A c \in Client : WF_vars(ClientStep(c))
  /\ \A p \in Partition : WF_vars(\E w \in Worker : Assign(p, w))
  /\ WF_liveVars(CalmDown)

LiveSpec == LiveInit /\ [][LiveNext]_liveVars /\ Fairness

------------------------------------------------------------------------------
(* Properties *)

\* Every record of every partition is consumed in the end: evictions,
\* crashes and unknown deliveries delay a partition and never block it.
EverythingConsumed ==
  \A p \in Partition : <>[](committed[p] = Len(Log[p]))

\* A stored decision is announced on transactions.scored in the end, though
\* the attempt that stored it may never have published it.
DecisionsAreAnnounced ==
  \A e \in Event :
    decision[e] # NoDecision ~> ScoredRow(e, decision[e]) \in delivered

\* ARCHITECTURE.md 4.4: transactions.dead-letter is for "Invalid or
\* unprocessable events": every record is decided, or set aside there.
UnprocessableIsSettled ==
  \A p \in Partition : \A n \in 1 .. Len(Log[p]) :
    <>(\/ Log[p][n] \in Event /\ decision[Log[p][n]] # NoDecision
       \/ <<p, n>> \in rejected)

\* ARCHITECTURE.md 4.12: "All completed decisions are published to
\* transactions.scored", those that the API completes included.
CompletedDecisionsArePublished == DecisionsAreAnnounced
==============================================================================
