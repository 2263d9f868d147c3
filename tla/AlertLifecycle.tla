---------------------------- MODULE AlertLifecycle ----------------------------
(***************************************************************************)
(* What the alert repository promises, as if every call were one step: an  *)
(* alert is opened once, may be assigned, re-assigned and reviewed without *)
(* a conclusion any number of times, and is resolved by one final review,  *)
(* after which nothing happens to it.  Every change is audited, in order.  *)
(***************************************************************************)
EXTENDS Naturals, Sequences

CONSTANTS
  Alert,         \* the alerts there may be
  Analyst,       \* analysts an alert can be assigned to
  ReviewId,      \* review identifiers
  Outcome,       \* ReviewOutcome
  FinalOutcome,  \* the outcomes that resolve an alert
  Nobody         \* assigned_to is null

VARIABLES
  status,    \* status[a], or "absent"
  assignee,  \* assigned_to
  trail      \* trail[a]: the audit entries of a, in order

lifecycleVars == <<status, assignee, trail>>

Init ==
  /\ status = [a \in Alert |-> "absent"]
  /\ assignee = [a \in Alert |-> Nobody]
  /\ trail = [a \in Alert |-> <<>>]

\* A review that does not conclude keeps the alert where it is.
StatusAfter(a, o) == IF o \in FinalOutcome THEN "resolved" ELSE status[a]

Used(i) ==
  \E a \in Alert : \E n \in 1 .. Len(trail[a]) :
    /\ trail[a][n].action = "alert.reviewed"
    /\ trail[a][n].review = i

Open(a) ==
  /\ status[a] = "absent"
  /\ status' = [status EXCEPT ![a] = "open"]
  /\ UNCHANGED <<assignee, trail>>

Assign(a, n) ==
  /\ status[a] \in {"open", "assigned"}
  /\ status' = [status EXCEPT ![a] = "assigned"]
  /\ assignee' = [assignee EXCEPT ![a] = n]
  /\ trail' = [trail EXCEPT ![a] =
                 Append(@, [action |-> "alert.assigned", analyst |-> n])]

Review(a, i, o) ==
  /\ status[a] \in {"open", "assigned"}
  /\ ~Used(i)
  /\ status' = [status EXCEPT ![a] = StatusAfter(a, o)]
  /\ trail' = [trail EXCEPT ![a] =
                 Append(@, [action |-> "alert.reviewed", review |-> i,
                            outcome |-> o, previous |-> status[a],
                            new |-> StatusAfter(a, o)])]
  /\ UNCHANGED assignee

Next ==
  \E a \in Alert :
    \/ Open(a)
    \/ \E n \in Analyst : Assign(a, n)
    \/ \E i \in ReviewId, o \in Outcome : Review(a, i, o)

Spec == Init /\ [][Next]_lifecycleVars
==============================================================================
