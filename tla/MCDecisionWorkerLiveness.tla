----------------------- MODULE MCDecisionWorkerLiveness -----------------------
(* Instances of DecisionWorker with its scheduling, for liveness. *)
EXTENDS DecisionWorkerLiveness, MCDecisionData
==============================================================================
