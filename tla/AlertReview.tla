----------------------------- MODULE AlertReview -----------------------------
(***************************************************************************)
(* PostgresAlertRepository: reviews and assignments of alerts by sessions  *)
(* that run concurrently, each call one READ COMMITTED transaction, while  *)
(* scoring opens new alerts.  A step is a statement or the commit.         *)
(*                                                                         *)
(* A transaction's writes are shown when it commits.  What it holds until  *)
(* then, the row lock of its alert and the review_id it has inserted, is   *)
(* read off pc: others wait for it.  CURRENT_TIMESTAMP is the start of the *)
(* transaction, before it waits for anything.                              *)
(***************************************************************************)
EXTENDS Naturals, Sequences

CONSTANTS
  Session,       \* callers of the repository, each with its own connection
  Alert,         \* the alerts that scoring may open
  Analyst,       \* analysts an alert can be assigned to
  ReviewId,      \* review_id, chosen by the caller
  Outcome,       \* ReviewOutcome
  FinalOutcome,  \* confirmed_fraud and legitimate
  Nobody,        \* assigned_to is null
  NoCall,        \* the session is idle
  MaxTime        \* bound: how many transactions are started

ASSUME AlertAssumption ==
  /\ FinalOutcome \subseteq Outcome
  /\ Nobody \notin Analyst

VARIABLES
  status,    \* fraud_alerts.status, or "absent"
  assignee,  \* fraud_alerts.assigned_to
  reviews,   \* analyst_reviews
  trail,     \* trail[a]: audit_history of alert a by audit_id
  clock,     \* the database clock, advanced by each transaction
  pc,        \* the next step of each session
  call       \* the parameters and locals of the call it makes

tables == <<status, assignee, reviews, trail>>
vars == <<tables, clock, pc, call>>

Live == {"open", "assigned"}

Init ==
  /\ status = [a \in Alert |-> "absent"]
  /\ assignee = [a \in Alert |-> Nobody]
  /\ reviews = {}
  /\ trail = [a \in Alert |-> <<>>]
  /\ clock = 0
  /\ pc = [s \in Session |-> "idle"]
  /\ call = [s \in Session |-> NoCall]

------------------------------------------------------------------------------
(* Helpers *)

Goto(s, label) == pc' = [pc EXCEPT ![s] = label]

\* The transaction ends, by commit or rollback, and with it its locks.
End(s) ==
  /\ Goto(s, "idle")
  /\ call' = [call EXCEPT ![s] = NoCall]

HasLock(s, a) ==
  /\ pc[s] \in {"insert", "transition", "commit", "audit"}
  /\ call[s].alert = a

Locked(a) == \E s \in Session : HasLock(s, a)

\* Another transaction has inserted the review_id and may still roll back.
Pending(i) ==
  \E s \in Session : pc[s] \in {"transition", "commit"} /\ call[s].review = i

Recorded(i) == \E r \in reviews : r.id = i

\* An interim review leaves an assigned alert assigned.
NewStatus(a, o) ==
  IF o \in FinalOutcome THEN "resolved"
  ELSE IF assignee[a] # Nobody THEN "assigned" ELSE "open"

AssignedEntry(n) == [action |-> "alert.assigned", analyst |-> n]

ReviewedEntry(r) ==
  [action |-> "alert.reviewed", review |-> r.review, outcome |-> r.outcome,
   previous |-> r.previous, new |-> r.new]

ReviewRow(r) ==
  [id |-> r.review, alert |-> r.alert, outcome |-> r.outcome,
   previous |-> r.previous, new |-> r.new, at |-> r.at]

------------------------------------------------------------------------------
(* Defects: actions that the program does not have.  A mutation run puts one *)
(* in the place of the action it is named after, and a property must fail.   *)

\* A known review_id is tried again until it goes away.
InsertReviewRetries(s) ==
  /\ pc[s] = "insert"
  /\ ~Pending(call[s].review)
  /\ ~Recorded(call[s].review)
  /\ Goto(s, "transition")
  /\ UNCHANGED <<tables, clock, call>>

\* A known review_id is taken as a new review.
InsertReviewAgain(s) ==
  /\ pc[s] = "insert"
  /\ ~Pending(call[s].review)
  /\ Goto(s, "transition")
  /\ UNCHANGED <<tables, clock, call>>

\* The entry is written in a transaction of its own, which fails.
CommitReviewUnaudited(s) ==
  /\ pc[s] = "commit"
  /\ reviews' = reviews \cup {ReviewRow(call[s])}
  /\ status' = [status EXCEPT ![call[s].alert] = call[s].new]
  /\ End(s)
  /\ UNCHANGED <<assignee, trail, clock>>

\* The status is tested in the statement's snapshot, before the row lock.
UpdateAssignedStale(s) ==
  /\ pc[s] = "assign"
  /\ \/ /\ status[call[s].alert] \in Live
        /\ Goto(s, "audit")
        /\ UNCHANGED call
     \/ /\ status[call[s].alert] \notin Live
        /\ End(s)
  /\ UNCHANGED <<tables, clock>>

\* A resolved alert can be assigned.
UpdateAssignedResolved(s) ==
  /\ pc[s] = "assign"
  /\ ~Locked(call[s].alert)
  /\ \/ /\ status[call[s].alert] # "absent"
        /\ Goto(s, "audit")
        /\ UNCHANGED call
     \/ /\ status[call[s].alert] = "absent"
        /\ End(s)
  /\ UNCHANGED <<tables, clock>>

------------------------------------------------------------------------------
(* Actions *)

\* save_decision_if_absent stores a medium or high decision with its alert.
OpenAlert(a) ==
  /\ status[a] = "absent"
  /\ status' = [status EXCEPT ![a] = "open"]
  /\ UNCHANGED <<assignee, reviews, trail, clock, pc, call>>

\* POST /alerts/{alert_id}/review, with a review_id of any client.
BeginReview(s, a, i, o) ==
  /\ pc[s] = "idle"
  /\ clock < MaxTime
  /\ clock' = clock + 1
  /\ call' = [call EXCEPT ![s] =
                [alert |-> a, review |-> i, outcome |-> o, at |-> clock',
                 previous |-> "absent", new |-> "absent"]]
  /\ Goto(s, "lock")
  /\ UNCHANGED tables

\* SELECT ... FOR UPDATE waits for the lock and then reads the committed row.
LockAlert(s) ==
  /\ pc[s] = "lock"
  /\ LET a == call[s].alert IN
     /\ ~Locked(a)
     /\ \/ /\ status[a] \in Live
           /\ call' = [call EXCEPT ![s].previous = status[a],
                                   ![s].new = NewStatus(a, call[s].outcome)]
           /\ Goto(s, "insert")
        \/ /\ status[a] \notin Live  \* KeyError, or None if it is resolved
           /\ End(s)
  /\ UNCHANGED <<tables, clock>>

\* ON CONFLICT (review_id) DO NOTHING: first waits until another insertion
\* of the same id has ended.
InsertReview(s) ==
  /\ pc[s] = "insert"
  /\ ~Pending(call[s].review)
  /\ \/ /\ ~Recorded(call[s].review)
        /\ Goto(s, "transition")
        /\ UNCHANGED call
     \/ /\ Recorded(call[s].review)
        /\ End(s)
  /\ UNCHANGED <<tables, clock>>

\* A row that is not found raises KeyError, as in Rollback.
TransitionAlert(s) ==
  /\ pc[s] = "transition"
  /\ status[call[s].alert] # "resolved"
  /\ Goto(s, "commit")
  /\ UNCHANGED <<tables, clock, call>>

\* The audit entry is inserted and the transaction commits.
CommitReview(s) ==
  /\ pc[s] = "commit"
  /\ reviews' = reviews \cup {ReviewRow(call[s])}
  /\ status' = [status EXCEPT ![call[s].alert] = call[s].new]
  /\ trail' = [trail EXCEPT ![call[s].alert] =
                 Append(@, ReviewedEntry(call[s]))]
  /\ End(s)
  /\ UNCHANGED <<assignee, clock>>

BeginAssign(s, a, n) ==
  /\ pc[s] = "idle"
  /\ clock < MaxTime
  /\ clock' = clock + 1
  /\ call' = [call EXCEPT ![s] = [alert |-> a, analyst |-> n]]
  /\ Goto(s, "assign")
  /\ UNCHANGED tables

\* UPDATE waits for the lock and then evaluates its WHERE again.
UpdateAssigned(s) ==
  /\ pc[s] = "assign"
  /\ ~Locked(call[s].alert)
  /\ \/ /\ status[call[s].alert] \in Live
        /\ Goto(s, "audit")
        /\ UNCHANGED call
     \/ /\ status[call[s].alert] \notin Live  \* KeyError
        /\ End(s)
  /\ UNCHANGED <<tables, clock>>

CommitAssign(s) ==
  /\ pc[s] = "audit"
  /\ status' = [status EXCEPT ![call[s].alert] = "assigned"]
  /\ assignee' = [assignee EXCEPT ![call[s].alert] = call[s].analyst]
  /\ trail' = [trail EXCEPT ![call[s].alert] =
                 Append(@, AssignedEntry(call[s].analyst))]
  /\ End(s)
  /\ UNCHANGED <<reviews, clock>>

\* The connection or the process fails: the transaction is rolled back.
Rollback(s) ==
  /\ pc[s] # "idle"
  /\ End(s)
  /\ UNCHANGED <<tables, clock>>

Step(s) ==
  \/ LockAlert(s)
  \/ InsertReview(s)
  \/ TransitionAlert(s)
  \/ CommitReview(s)
  \/ UpdateAssigned(s)
  \/ CommitAssign(s)

Next ==
  \/ \E a \in Alert : OpenAlert(a)
  \/ \E s \in Session :
       \/ \E a \in Alert, i \in ReviewId, o \in Outcome :
            BeginReview(s, a, i, o)
       \/ \E a \in Alert, n \in Analyst : BeginAssign(s, a, n)
       \/ Step(s)
       \/ Rollback(s)

Spec == Init /\ [][Next]_vars

\* PostgreSQL goes on with a statement, and serves waiters in their order.
FairSpec == Spec /\ \A s \in Session : SF_vars(Step(s))

------------------------------------------------------------------------------
(* Properties *)

ReviewCall ==
  [alert : Alert, review : ReviewId, outcome : Outcome, at : Nat,
   previous : {"absent"} \cup Live, new : {"absent", "resolved"} \cup Live]

AssignCall == [alert : Alert, analyst : Analyst]

Entry ==
  [action : {"alert.reviewed"}, review : ReviewId, outcome : Outcome,
   previous : Live, new : Live \cup {"resolved"}]
  \cup [action : {"alert.assigned"}, analyst : Analyst]

\* Every variable has its type; a review row satisfies the CHECK of
\* analyst_reviews, which a review of a resolved alert would not.
TypeOK ==
  /\ status \in [Alert -> {"absent", "resolved"} \cup Live]
  /\ assignee \in [Alert -> Analyst \cup {Nobody}]
  /\ reviews \subseteq
       [id : ReviewId, alert : Alert, outcome : Outcome, previous : Live,
        new : Live \cup {"resolved"}, at : Nat]
  /\ trail \in [Alert -> Seq(Entry)]
  /\ clock \in Nat
  /\ pc \in [Session -> {"idle", "lock", "insert", "transition", "commit",
                         "assign", "audit"}]
  /\ call \in [Session -> {NoCall} \cup ReviewCall \cup AssignCall]
  /\ \A s \in Session :
       /\ pc[s] = "idle" => call[s] = NoCall
       /\ pc[s] \in {"lock", "insert", "transition", "commit"}
            => call[s] \in ReviewCall
       /\ pc[s] \in {"assign", "audit"} => call[s] \in AssignCall

\* However reviews and assignments interleave, an alert gets at most one
\* review with a final outcome.
AtMostOneFinalReview ==
  \A q, r \in reviews :
    /\ q.alert = r.alert
    /\ q.outcome \in FinalOutcome
    /\ r.outcome \in FinalOutcome
    => q = r

EntryStatus(e) == IF e.action = "alert.assigned" THEN "assigned" ELSE e.new

\* The status of a after the first n entries of its trail.
StatusAt(a, n) == IF n = 0 THEN "open" ELSE EntryStatus(trail[a][n])

\* The audit history of an alert is a chain of transitions: what a review
\* read as the previous status is what the entry before it left, and the
\* last entry left the current status.
TrailIsContinuous ==
  \A a \in Alert :
    /\ \A n \in 1 .. Len(trail[a]) :
         trail[a][n].action = "alert.reviewed"
           => trail[a][n].previous = StatusAt(a, n - 1)
    /\ IF status[a] = "absent" THEN trail[a] = <<>>
       ELSE status[a] = StatusAt(a, Len(trail[a]))

RowEntry(r) ==
  [action |-> "alert.reviewed", review |-> r.id, outcome |-> r.outcome,
   previous |-> r.previous, new |-> r.new]

\* The two records of a review agree: every row of analyst_reviews has an
\* audit entry of its alert that states the same facts, and every such entry
\* has its row.
ReviewsAreAudited ==
  /\ \A r \in reviews :
       \E n \in 1 .. Len(trail[r.alert]) : trail[r.alert][n] = RowEntry(r)
  /\ \A a \in Alert : \A n \in 1 .. Len(trail[a]) :
       trail[a][n].action = "alert.reviewed"
         => \E r \in reviews : r.alert = a /\ trail[a][n] = RowEntry(r)

\* The status a review has locked does not change before it commits, so the
\* KeyError of a transition that finds no row is never raised.
TransitionFindsAlert ==
  \A s \in Session :
    pc[s] = "transition" => status[call[s].alert] # "resolved"

\* No call waits for ever: neither for the lock of an alert nor for another
\* insertion of its review_id.
RequestsEnd == \A s \in Session : pc[s] # "idle" ~> pc[s] = "idle"

\* The sessions implement AlertLifecycle: to an observer of the tables every
\* call happens at once, or not at all.
Lifecycle == INSTANCE AlertLifecycle
LifecycleSpec == Lifecycle!Spec

------------------------------------------------------------------------------
(* The inductive invariant: what the waiting for locks guarantees. *)

LocksAreExclusive ==
  \A a \in Alert : \A s, t \in Session :
    HasLock(s, a) /\ HasLock(t, a) => s = t

LockedRowIsCurrent ==
  \A s \in Session :
    /\ pc[s] \in {"insert", "transition", "commit"} =>
         /\ call[s].previous = status[call[s].alert]
         /\ call[s].new = NewStatus(call[s].alert, call[s].outcome)
    /\ pc[s] \in {"insert", "transition", "commit", "audit"} =>
         status[call[s].alert] \in Live

InsertedIdsAreNew ==
  \A s \in Session :
    pc[s] \in {"transition", "commit"} =>
      /\ ~Recorded(call[s].review)
      /\ \A t \in Session :
           /\ pc[t] \in {"transition", "commit"}
           /\ call[t].review = call[s].review
           => s = t

AssigneeMatchesStatus ==
  \A a \in Alert :
    /\ status[a] \in {"absent", "open"} => assignee[a] = Nobody
    /\ status[a] = "assigned" => assignee[a] # Nobody

ReviewedAlertsExist ==
  \A r \in reviews :
    /\ status[r.alert] # "absent"
    /\ r.outcome \in FinalOutcome => status[r.alert] = "resolved"

\* The invariant that the proofs are built on: what a session has read under
\* its lock is still so when it writes.
IInv ==
  /\ TypeOK
  /\ LocksAreExclusive
  /\ LockedRowIsCurrent
  /\ InsertedIdsAreNew
  /\ AssigneeMatchesStatus
  /\ ReviewedAlertsExist
  /\ AtMostOneFinalReview
  /\ TrailIsContinuous
  /\ ReviewsAreAudited
==============================================================================
