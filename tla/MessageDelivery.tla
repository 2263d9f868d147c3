---------------------------- MODULE MessageDelivery ----------------------------
(***************************************************************************)
(* What KafkaTransactionProducer promises of each message that it is given:*)
(* it arrives at most once, a confirmed one has arrived, a refused one     *)
(* never does, and of a failed or unknown one nothing is said.  This is    *)
(* what Publish and PublishUnknown of DecisionWorker build on.             *)
(***************************************************************************)
EXTENDS Sequences, SequencesExt

CONSTANT Message   \* one call of publish_serialized each

VARIABLES
  phase,   \* what the caller knows of each message
  log      \* the messages in the topic, in the order of arrival

vars == <<phase, log>>

Init ==
  /\ phase = [m \in Message |-> "new"]
  /\ log = <<>>

Arrived(m) == m \in ToSet(log)

\* publish_transaction, publish_event or publish_serialized, with an event
\* that passes its validation.
Begin(m) ==
  /\ phase[m] = "new"
  /\ phase' = [phase EXCEPT ![m] = "calling"]
  /\ UNCHANGED log

\* The topic gets the message, during the call or long after it.
Arrive(m) ==
  /\ phase[m] \in {"calling", "failed", "unknown"}
  /\ ~Arrived(m)
  /\ log' = Append(log, m)
  /\ UNCHANGED phase

\* The call returns a receipt, or raises one of three errors.
Finish(m, result) ==
  /\ phase[m] = "calling"
  /\ result \in {"confirmed", "refused", "failed", "unknown"}
  /\ result = "confirmed" => Arrived(m)
  /\ result = "refused" => ~Arrived(m)
  /\ phase' = [phase EXCEPT ![m] = result]
  /\ UNCHANGED log

Next ==
  \E m \in Message :
    \/ Begin(m)
    \/ Arrive(m)
    \/ \E result \in {"confirmed", "refused", "failed", "unknown"} :
         Finish(m, result)

Spec == Init /\ [][Next]_vars
==============================================================================
