--------------------------- MODULE MCDecisionWorker ---------------------------
(* Instances of DecisionWorker for its safety properties. *)
EXTENDS DecisionWorker, MCDecisionData

\* Workers are interchangeable, and so are request threads.
WorkerSymmetry == Permutations(Worker)
ClientSymmetry == Permutations(Client)
==============================================================================
