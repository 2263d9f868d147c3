-------------------------- MODULE AlertReviewProofs --------------------------
(***************************************************************************)
(* However many sessions review and assign alerts at the same time: at     *)
(* most one final review per alert, an unbroken audit trail, and the same  *)
(* tables as if every call were a single step (AlertLifecycle).            *)
(***************************************************************************)
EXTENDS AlertReview, TLAPS

------------------------------------------------------------------------------
(* What a step touches *)

\* The steps that write to the tables, and what all others leave alone.
LEMMA TableStep ==
  ASSUME [Next]_vars
  PROVE  \/ UNCHANGED tables
         \/ \E a \in Alert : OpenAlert(a)
         \/ \E s \in Session : CommitReview(s)
         \/ \E s \in Session : CommitAssign(s)
BY DEF Next, Step, vars, tables, BeginReview, LockAlert, InsertReview,
       TransitionAlert, BeginAssign, UpdateAssigned, Rollback

\* What a session may do to its own variables: start, go on with the same
\* call, lock the alert, or end.
Moves(s) ==
  /\ pc' = [t \in Session |-> pc'[t]]
  /\ call' = [t \in Session |-> call'[t]]
  /\ \A t \in Session \ {s} : pc'[t] = pc[t] /\ call'[t] = call[t]
  /\ \/ /\ pc'[s] = "idle" /\ call'[s] = NoCall
     \/ /\ pc'[s] = "lock" /\ call'[s] \in ReviewCall
     \/ /\ pc'[s] = "assign" /\ call'[s] \in AssignCall
     \/ /\ pc[s] = "lock" /\ pc'[s] = "insert"
        /\ call'[s] \in ReviewCall
        /\ call'[s].alert = call[s].alert
        /\ ~Locked(call[s].alert)
        /\ status[call[s].alert] \in Live
        /\ call'[s].previous = status[call[s].alert]
        /\ call'[s].new = NewStatus(call[s].alert, call'[s].outcome)
     \/ /\ pc[s] = "insert" /\ pc'[s] = "transition"
        /\ call'[s] = call[s]
        /\ ~Pending(call[s].review)
        /\ ~Recorded(call[s].review)
     \/ /\ pc[s] = "transition" /\ pc'[s] = "commit"
        /\ call'[s] = call[s]
     \/ /\ pc[s] = "assign" /\ pc'[s] = "audit"
        /\ call'[s] = call[s]
        /\ ~Locked(call[s].alert)
        /\ status[call[s].alert] \in Live

\* Every step moves at most one session, in one of those ways.
LEMMA SessionStep ==
  ASSUME TypeOK, [Next]_vars
  PROVE  \/ UNCHANGED <<pc, call>>
         \/ \E s \in Session : Moves(s)
<1>1. ASSUME NEW s \in Session, NEW a \in Alert, NEW i \in ReviewId,
             NEW o \in Outcome, BeginReview(s, a, i, o)
      PROVE  Moves(s)
  <2> DEFINE c == [alert |-> a, review |-> i, outcome |-> o, at |-> clock + 1,
                   previous |-> "absent", new |-> "absent"]
  <2>1. c \in ReviewCall
    BY DEF TypeOK, ReviewCall
  <2>2. call' = [call EXCEPT ![s] = c]
    BY <1>1 DEF BeginReview
  <2>3. call'[s] \in ReviewCall
    BY <2>1, <2>2 DEF TypeOK
  <2>. QED
    BY <1>1, <2>2, <2>3 DEF TypeOK, BeginReview, Goto, Moves
<1>2. ASSUME NEW s \in Session, NEW a \in Alert, NEW n \in Analyst,
             BeginAssign(s, a, n)
      PROVE  Moves(s)
  BY <1>2 DEF TypeOK, BeginAssign, Goto, Moves, AssignCall
<1>3. ASSUME NEW s \in Session, LockAlert(s)
      PROVE  Moves(s)
  <2>1. call[s] \in ReviewCall
    BY <1>3 DEF TypeOK, LockAlert
  <2>2. NewStatus(call[s].alert, call[s].outcome) \in Live \cup {"resolved"}
    BY DEF NewStatus, Live
  <2>3. CASE status[call[s].alert] \in Live
    <3>1. /\ pc[s] = "lock" /\ pc'[s] = "insert"
          /\ pc' = [t \in Session |-> pc'[t]]
          /\ \A t \in Session \ {s} : pc'[t] = pc[t]
          /\ ~Locked(call[s].alert)
      BY <1>3, <2>3 DEF TypeOK, LockAlert, Goto
    <3>2. call' = [call EXCEPT
                     ![s].previous = status[call[s].alert],
                     ![s].new = NewStatus(call[s].alert, call[s].outcome)]
      BY <1>3, <2>3 DEF LockAlert
    <3>3. /\ call' = [t \in Session |-> call'[t]]
          /\ \A t \in Session \ {s} : call'[t] = call[t]
          /\ call'[s] = [call[s] EXCEPT
               !.previous = status[call[s].alert],
               !.new = NewStatus(call[s].alert, call[s].outcome)]
      BY <3>2 DEF TypeOK
    <3>4. /\ call'[s] \in ReviewCall
          /\ call'[s].alert = call[s].alert
          /\ call'[s].outcome = call[s].outcome
          /\ call'[s].previous = status[call[s].alert]
          /\ call'[s].new = NewStatus(call[s].alert, call[s].outcome)
      BY <2>1, <2>2, <2>3, <3>3 DEF ReviewCall, Live
    <3>. QED
      BY <2>3, <3>1, <3>3, <3>4 DEF Moves
  <2>4. CASE status[call[s].alert] \notin Live
    BY <1>3, <2>4 DEF TypeOK, LockAlert, Goto, End, Moves
  <2>. QED
    BY <2>3, <2>4
<1>4. ASSUME NEW s \in Session, InsertReview(s)
      PROVE  Moves(s)
  BY <1>4 DEF TypeOK, InsertReview, Goto, End, Moves
<1>5. ASSUME NEW s \in Session, TransitionAlert(s)
      PROVE  Moves(s)
  BY <1>5 DEF TypeOK, TransitionAlert, Goto, End, Moves
<1>6. ASSUME NEW s \in Session, UpdateAssigned(s)
      PROVE  Moves(s)
  BY <1>6 DEF TypeOK, UpdateAssigned, Goto, End, Moves
<1>7. ASSUME NEW s \in Session,
             CommitReview(s) \/ CommitAssign(s) \/ Rollback(s)
      PROVE  Moves(s)
  BY <1>7 DEF TypeOK, CommitReview, CommitAssign, Rollback, Goto, End, Moves
<1>8. ASSUME NEW a \in Alert, OpenAlert(a)
      PROVE  UNCHANGED <<pc, call>>
  BY <1>8 DEF OpenAlert
<1>. QED
  BY <1>1, <1>2, <1>3, <1>4, <1>5, <1>6, <1>7, <1>8 DEF Next, Step, vars

------------------------------------------------------------------------------
(* Locks *)

\* A session gets a lock only when nobody has it, and no other session's
\* locks change.
LEMMA LockGained ==
  ASSUME NEW s \in Session, Moves(s), NEW a \in Alert
  PROVE  /\ HasLock(s, a)' => HasLock(s, a) \/ ~Locked(a)
         /\ \A t \in Session \ {s} : HasLock(t, a)' <=> HasLock(t, a)
BY DEF Moves, HasLock

\* FOR UPDATE and UPDATE wait: an alert is never locked twice.
LEMMA LocksPreserved ==
  ASSUME IInv, [Next]_vars
  PROVE  LocksAreExclusive'
<1>1. CASE UNCHANGED <<pc, call>>
  BY <1>1 DEF IInv, LocksAreExclusive, HasLock
<1>2. ASSUME NEW s \in Session, Moves(s)
      PROVE  LocksAreExclusive'
  BY <1>2, LockGained DEF IInv, LocksAreExclusive, Locked
<1>. QED
  BY <1>1, <1>2, SessionStep DEF IInv

\* A session that writes has the lock of its alert, so no other one has.
LEMMA WriterIsAlone ==
  ASSUME IInv, NEW s \in Session, CommitReview(s) \/ CommitAssign(s)
  PROVE  /\ call[s].alert \in Alert
         /\ \A t \in Session \ {s} : ~HasLock(t, call[s].alert)
<1>1. call[s].alert \in Alert
  BY DEF IInv, TypeOK, CommitReview, CommitAssign, ReviewCall, AssignCall
<1>2. HasLock(s, call[s].alert)
  BY DEF HasLock, CommitReview, CommitAssign
<1>. QED
  BY <1>1, <1>2 DEF IInv, LocksAreExclusive

\* Nobody else's locked row is written: status and assignee of an alert
\* change only in steps of the session that has locked it.
LEMMA LockedRowKept ==
  ASSUME IInv, [Next]_vars, NEW a \in Alert, NEW t \in Session,
         HasLock(t, a), HasLock(t, a)'
  PROVE  status'[a] = status[a] /\ assignee'[a] = assignee[a]
<1>1. status[a] \in Live
  BY DEF IInv, LockedRowIsCurrent, HasLock
<1>2. CASE UNCHANGED tables
  BY <1>2 DEF tables
<1>3. ASSUME NEW b \in Alert, OpenAlert(b)
      PROVE  status'[a] = status[a] /\ assignee'[a] = assignee[a]
  BY <1>1, <1>3 DEF OpenAlert, IInv, TypeOK, Live
<1>4. ASSUME NEW s \in Session, CommitReview(s) \/ CommitAssign(s)
      PROVE  status'[a] = status[a] /\ assignee'[a] = assignee[a]
  <2>1. s # t
    BY <1>4 DEF CommitReview, CommitAssign, Goto, End, HasLock, IInv, TypeOK
  <2>2. call[s].alert # a
    BY <1>4, <2>1, WriterIsAlone
  <2>. QED
    BY <1>4, <2>2 DEF CommitReview, CommitAssign, IInv, TypeOK
<1>. QED
  BY <1>2, <1>3, <1>4, TableStep

\* What a session has read under the lock stays so until it writes.
LEMMA CurrentPreserved ==
  ASSUME IInv, [Next]_vars
  PROVE  LockedRowIsCurrent'
<1> SUFFICES ASSUME NEW t \in Session,
                    pc'[t] \in {"insert", "transition", "commit", "audit"}
             PROVE  /\ pc'[t] # "audit" =>
                         /\ call'[t].previous = status'[call'[t].alert]
                         /\ call'[t].new =
                              NewStatus(call[t].alert, call[t].outcome)'
                    /\ status'[call'[t].alert] \in Live
  BY DEF LockedRowIsCurrent
<1>1. PICK a \in Alert : a = call'[t].alert
  BY SessionStep DEF IInv, TypeOK, Moves, ReviewCall, AssignCall
<1>2. HasLock(t, a)'
  BY <1>1 DEF HasLock
<1>3. CASE HasLock(t, a)
  <2>1. status'[a] = status[a] /\ assignee'[a] = assignee[a]
    BY <1>1, <1>2, <1>3, LockedRowKept
  <2>2. call'[t] = call[t] /\ (pc'[t] = "audit" <=> pc[t] = "audit")
    BY <1>3, SessionStep DEF IInv, Moves, HasLock
  <2>. QED
    BY <1>1, <1>3, <2>1, <2>2 DEF IInv, LockedRowIsCurrent, HasLock, NewStatus
<1>4. CASE ~HasLock(t, a)
  <2>1. /\ Moves(t)
        /\ pc[t] \in {"lock", "assign"}
        /\ a = call[t].alert
    BY <1>1, <1>2, <1>4, SessionStep DEF IInv, Moves, HasLock
  <2>2. UNCHANGED tables
    BY <2>1, TableStep DEF Moves, OpenAlert, CommitReview, CommitAssign, Goto,
       End, IInv, TypeOK
  <2>. QED
    BY <1>1, <2>1, <2>2 DEF Moves, tables, NewStatus
<1>. QED
  BY <1>3, <1>4

\* The review_id of a transaction that has inserted it is nobody else's.
LEMMA InsertedPreserved ==
  ASSUME IInv, [Next]_vars
  PROVE  InsertedIdsAreNew'
<1> DEFINE P(t) == pc[t] \in {"transition", "commit"}
<1>1. ASSUME NEW s \in Session, NEW t \in Session, P(s)', P(t)',
             call'[t].review = call'[s].review
      PROVE  s = t
  <2>1. CASE UNCHANGED <<pc, call>>
    BY <1>1, <2>1 DEF IInv, InsertedIdsAreNew
  <2>2. ASSUME NEW u \in Session, Moves(u)
        PROVE  s = t
    BY <1>1, <2>2 DEF IInv, InsertedIdsAreNew, Moves, Pending
  <2>. QED
    BY <2>1, <2>2, SessionStep DEF IInv
<1>2. ASSUME NEW s \in Session, P(s)'
      PROVE  ~Recorded(call[s].review)' /\ call'[s] = call[s]
  <2>1. /\ call'[s] = call[s]
        /\ ~Recorded(call[s].review)
        /\ P(s) \/ ~Pending(call[s].review)
    BY <1>2, SessionStep DEF IInv, InsertedIdsAreNew, Moves
  <2>2. ASSUME NEW u \in Session, CommitReview(u)
        PROVE  call[u].review # call[s].review
    <3>1. u # s /\ P(u)
      BY <1>2, <2>2 DEF CommitReview, End, Goto, IInv, TypeOK
    <3>. QED
      BY <2>1, <3>1 DEF IInv, InsertedIdsAreNew, Pending
  <2>3. ASSUME NEW u \in Session, CommitReview(u)
        PROVE  ~Recorded(call[s].review)'
    <3>1. /\ reviews' = reviews \cup {ReviewRow(call[u])}
          /\ ReviewRow(call[u]).id = call[u].review
      BY <2>3 DEF CommitReview, ReviewRow
    <3>. QED
      BY <2>1, <2>2, <2>3, <3>1 DEF Recorded
  <2>4. CASE reviews' = reviews
    BY <2>1, <2>4 DEF Recorded
  <2>. QED
    BY <2>1, <2>3, <2>4, TableStep DEF tables, OpenAlert, CommitAssign
<1>. QED
  BY <1>1, <1>2 DEF InsertedIdsAreNew, Recorded

------------------------------------------------------------------------------
(* Tables *)

\* A row of alert_reviews that a transaction writes.
WrittenRow ==
  [id : ReviewId, alert : Alert, outcome : Outcome, previous : Live,
   new : Live \cup {"resolved"}, at : Nat]

\* What a committing review writes.
LEMMA ReviewWritten ==
  ASSUME IInv, NEW s \in Session, CommitReview(s)
  PROVE  \E a \in Alert, r \in WrittenRow :
           /\ r.alert = a
           /\ status[a] \in Live
           /\ r.previous = status[a]
           /\ r.new = NewStatus(a, r.outcome)
           /\ ~Recorded(r.id)
           /\ reviews' = reviews \cup {r}
           /\ status' = [status EXCEPT ![a] = r.new]
           /\ trail' = [trail EXCEPT ![a] = Append(@, RowEntry(r))]
           /\ RowEntry(r) \in Entry
           /\ assignee' = assignee
<1> DEFINE c == call[s]
           r == ReviewRow(c)
<1>1. /\ c \in ReviewCall
      /\ c.previous = status[c.alert]
      /\ c.new = NewStatus(c.alert, c.outcome)
      /\ status[c.alert] \in Live
      /\ ~Recorded(c.review)
  BY DEF CommitReview, IInv, TypeOK, LockedRowIsCurrent, InsertedIdsAreNew
<1>2. NewStatus(c.alert, c.outcome) \in Live \cup {"resolved"}
  BY DEF NewStatus, Live
<1>3. r \in WrittenRow
  BY <1>1, <1>2 DEF ReviewRow, ReviewCall, WrittenRow
<1>4. RowEntry(r) = ReviewedEntry(c) /\ RowEntry(r) \in Entry
  BY <1>1, <1>2 DEF RowEntry, ReviewedEntry, ReviewRow, Entry, ReviewCall
<1>5. /\ r.alert = c.alert
      /\ r.previous = c.previous
      /\ r.new = c.new
      /\ r.outcome = c.outcome
      /\ r.id = c.review
  BY DEF ReviewRow
<1>. QED
  BY <1>1, <1>3, <1>4, <1>5 DEF CommitReview, ReviewCall

\* What a committing assignment writes.
LEMMA AssignmentWritten ==
  ASSUME IInv, NEW s \in Session, CommitAssign(s)
  PROVE  \E a \in Alert, n \in Analyst :
           /\ status[a] \in Live
           /\ status' = [status EXCEPT ![a] = "assigned"]
           /\ assignee' = [assignee EXCEPT ![a] = n]
           /\ trail' = [trail EXCEPT ![a] = Append(@, AssignedEntry(n))]
           /\ AssignedEntry(n) \in Entry
           /\ reviews' = reviews
BY DEF CommitAssign, IInv, TypeOK, LockedRowIsCurrent, AssignCall,
       AssignedEntry, Entry

\* Every variable keeps its type.
LEMMA TypePreserved ==
  ASSUME IInv, [Next]_vars
  PROVE  TypeOK'
<1> DEFINE
      Typed == /\ status' \in [Alert -> {"absent", "resolved"} \cup Live]
               /\ assignee' \in [Alert -> Analyst \cup {Nobody}]
               /\ reviews' \subseteq WrittenRow
               /\ trail' \in [Alert -> Seq(Entry)]
<1>1. Typed
  <2>1. CASE UNCHANGED tables
    BY <2>1 DEF IInv, TypeOK, tables, WrittenRow
  <2>2. ASSUME NEW a \in Alert, OpenAlert(a)
        PROVE  Typed
    BY <2>2 DEF IInv, TypeOK, OpenAlert, Live, WrittenRow
  <2>3. ASSUME NEW s \in Session, CommitReview(s)
        PROVE  Typed
    <3>1. PICK a \in Alert, r \in WrittenRow :
            /\ reviews' = reviews \cup {r}
            /\ status' = [status EXCEPT ![a] = r.new]
            /\ trail' = [trail EXCEPT ![a] = Append(@, RowEntry(r))]
            /\ RowEntry(r) \in Entry
            /\ assignee' = assignee
      BY <2>3, ReviewWritten
    <3>2. r.new \in Live \cup {"resolved"}
      BY <3>1 DEF WrittenRow
    <3>3. trail[a] \in Seq(Entry)
      BY DEF IInv, TypeOK
    <3>4. Append(trail[a], RowEntry(r)) \in Seq(Entry)
      BY <3>1, <3>3
    <3>5. trail' \in [Alert -> Seq(Entry)]
      BY <3>1, <3>4 DEF IInv, TypeOK
    <3>. QED
      BY <3>1, <3>2, <3>5 DEF IInv, TypeOK, WrittenRow
  <2>4. ASSUME NEW s \in Session, CommitAssign(s)
        PROVE  Typed
    <3>1. PICK a \in Alert, n \in Analyst :
            /\ status' = [status EXCEPT ![a] = "assigned"]
            /\ assignee' = [assignee EXCEPT ![a] = n]
            /\ trail' = [trail EXCEPT ![a] = Append(@, AssignedEntry(n))]
            /\ AssignedEntry(n) \in Entry
            /\ reviews' = reviews
      BY <2>4, AssignmentWritten
    <3>2. Append(trail[a], AssignedEntry(n)) \in Seq(Entry)
      BY <3>1 DEF IInv, TypeOK
    <3>3. trail' \in [Alert -> Seq(Entry)]
      BY <3>1, <3>2 DEF IInv, TypeOK
    <3>. QED
      BY <3>1, <3>3 DEF IInv, TypeOK, Live, WrittenRow
  <2>. QED
    BY <2>1, <2>2, <2>3, <2>4, TableStep
<1>2. clock' = clock \/ clock' = clock + 1
  BY DEF Next, Step, vars, OpenAlert, BeginReview, LockAlert,
     InsertReview, TransitionAlert, CommitReview, BeginAssign, UpdateAssigned,
     CommitAssign, Rollback
<1>3. /\ pc' \in [Session -> {"idle", "lock", "insert", "transition", "commit",
                              "assign", "audit"}]
      /\ call' \in [Session -> {NoCall} \cup ReviewCall \cup AssignCall]
      /\ \A t \in Session :
           /\ pc'[t] = "idle" => call'[t] = NoCall
           /\ pc'[t] \in {"lock", "insert", "transition", "commit"}
                => call'[t] \in ReviewCall
           /\ pc'[t] \in {"assign", "audit"} => call'[t] \in AssignCall
  <2>1. CASE UNCHANGED <<pc, call>>
    BY <2>1 DEF IInv, TypeOK
  <2>2. ASSUME NEW s \in Session, Moves(s)
        PROVE  \A t \in Session :
                 \/ /\ pc'[t] = "idle" /\ call'[t] = NoCall
                 \/ /\ pc'[t] \in {"lock", "insert", "transition", "commit"}
                    /\ call'[t] \in ReviewCall
                 \/ /\ pc'[t] \in {"assign", "audit"}
                    /\ call'[t] \in AssignCall
    BY <2>2 DEF IInv, TypeOK, Moves
  <2>3. ASSUME NEW s \in Session, Moves(s)
        PROVE  /\ pc' = [t \in Session |-> pc'[t]]
               /\ call' = [t \in Session |-> call'[t]]
    BY <2>3 DEF Moves
  <2>. QED
    BY <2>1, <2>2, <2>3, SessionStep DEF IInv
<1>. QED
  BY <1>1, <1>2, <1>3 DEF TypeOK, IInv, WrittenRow

\* An alert is assigned exactly while it has an assignee and is not resolved.
LEMMA AssigneePreserved ==
  ASSUME IInv, [Next]_vars
  PROVE  AssigneeMatchesStatus'
<1>1. CASE UNCHANGED tables
  BY <1>1 DEF IInv, AssigneeMatchesStatus, tables
<1>2. ASSUME NEW a \in Alert, OpenAlert(a)
      PROVE  AssigneeMatchesStatus'
  BY <1>2 DEF IInv, TypeOK, AssigneeMatchesStatus, OpenAlert
<1>3. ASSUME NEW s \in Session, CommitReview(s)
      PROVE  AssigneeMatchesStatus'
  BY <1>3, ReviewWritten
  DEF IInv, TypeOK, AssigneeMatchesStatus, NewStatus, Live
<1>4. ASSUME NEW s \in Session, CommitAssign(s)
      PROVE  AssigneeMatchesStatus'
  <2>1. PICK a \in Alert, n \in Analyst :
          /\ status' = [status EXCEPT ![a] = "assigned"]
          /\ assignee' = [assignee EXCEPT ![a] = n]
    BY <1>4, AssignmentWritten
  <2>. QED
    BY <2>1, AlertAssumption DEF IInv, TypeOK, AssigneeMatchesStatus
<1>. QED
  BY <1>1, <1>2, <1>3, <1>4, TableStep

\* Reviews are of alerts, and a final one has resolved its alert.
LEMMA ReviewedPreserved ==
  ASSUME IInv, [Next]_vars
  PROVE  ReviewedAlertsExist' /\ AtMostOneFinalReview'
<1> DEFINE Goal == ReviewedAlertsExist /\ AtMostOneFinalReview
<1>1. CASE UNCHANGED tables
  BY <1>1 DEF IInv, ReviewedAlertsExist, AtMostOneFinalReview, tables
<1>2. ASSUME NEW a \in Alert, OpenAlert(a)
      PROVE  Goal'
  BY <1>2 DEF IInv, TypeOK, ReviewedAlertsExist, AtMostOneFinalReview,
              OpenAlert
<1>3. ASSUME NEW s \in Session, CommitReview(s)
      PROVE  Goal'
  <2>1. PICK a \in Alert, r \in WrittenRow :
          /\ r.alert = a
          /\ r.new = NewStatus(a, r.outcome)
          /\ status[a] \in Live
          /\ reviews' = reviews \cup {r}
          /\ status' = [status EXCEPT ![a] = r.new]
    BY <1>3, ReviewWritten
  <2>2. /\ r.new # "absent"
        /\ r.outcome \in FinalOutcome => r.new = "resolved"
        /\ \A q \in reviews : q.alert = a => q.outcome \notin FinalOutcome
    BY <2>1 DEF NewStatus, IInv, ReviewedAlertsExist, Live
  <2>3. \A q \in reviews : q.alert \in Alert
    BY DEF IInv, TypeOK
  <2>. QED
    BY <2>1, <2>2, <2>3
    DEF IInv, TypeOK, ReviewedAlertsExist, AtMostOneFinalReview
<1>4. ASSUME NEW s \in Session, CommitAssign(s)
      PROVE  Goal'
  BY <1>4, AssignmentWritten
  DEF IInv, TypeOK, ReviewedAlertsExist, AtMostOneFinalReview, Live
<1>. QED
  BY <1>1, <1>2, <1>3, <1>4, TableStep

------------------------------------------------------------------------------
(* The audit trail *)

\* An entry appended to a trail is its last, and the others stay.
LEMMA Appended ==
  ASSUME TypeOK, NEW a \in Alert, NEW e \in Entry,
         trail' = [trail EXCEPT ![a] = Append(@, e)]
  PROVE  /\ \A b \in Alert \ {a} : trail'[b] = trail[b]
         /\ Len(trail[a]) \in Nat
         /\ Len(trail'[a]) = Len(trail[a]) + 1
         /\ trail'[a][Len(trail[a]) + 1] = e
         /\ \A n \in 1 .. Len(trail[a]) : trail'[a][n] = trail[a][n]
<1>1. trail[a] \in Seq(Entry)
  BY DEF TypeOK
<1>2. trail'[a] = Append(trail[a], e)
  BY DEF TypeOK
<1>. QED
  BY <1>1, <1>2 DEF TypeOK

\* A trail stays a chain that ends in the current status when the entry that
\* is appended goes on from that status to the next.
LEMMA ChainExtended ==
  ASSUME IInv, NEW a \in Alert, NEW e \in Entry, NEW v,
         status[a] # "absent",
         trail' = [trail EXCEPT ![a] = Append(@, e)],
         status' = [status EXCEPT ![a] = v],
         v = EntryStatus(e), v # "absent",
         e.action = "alert.reviewed" => e.previous = status[a]
  PROVE  TrailIsContinuous'
<1> USE DEF IInv
<1>1. ASSUME NEW b \in Alert, b # a
      PROVE  trail'[b] = trail[b] /\ status'[b] = status[b]
  BY <1>1, Appended DEF TypeOK
<1>2. status'[a] = v
  BY DEF TypeOK
<1>3. /\ Len(trail[a]) \in Nat
      /\ Len(trail'[a]) = Len(trail[a]) + 1
      /\ trail'[a][Len(trail[a]) + 1] = e
      /\ \A n \in 1 .. Len(trail[a]) : trail'[a][n] = trail[a][n]
  BY Appended
<1>4. ASSUME NEW n \in 1 .. Len(trail[a]) + 1,
             trail'[a][n].action = "alert.reviewed"
      PROVE  trail'[a][n].previous = StatusAt(a, n - 1)'
  <2>1. CASE n = Len(trail[a]) + 1
    <3>1. StatusAt(a, n - 1)' = StatusAt(a, Len(trail[a]))
      BY <1>3, <2>1 DEF StatusAt, EntryStatus
    <3>. QED
      BY <1>3, <1>4, <2>1, <3>1 DEF TrailIsContinuous
  <2>2. CASE n \in 1 .. Len(trail[a])
    <3>1. StatusAt(a, n - 1)' = StatusAt(a, n - 1)
      BY <1>3, <2>2 DEF StatusAt, EntryStatus
    <3>. QED
      BY <1>3, <1>4, <2>2, <3>1 DEF TrailIsContinuous
  <2>. QED
    BY <1>3, <2>1, <2>2
<1>5. status'[a] = StatusAt(a, Len(trail[a]))'
  BY <1>2, <1>3 DEF StatusAt, EntryStatus
<1>6. ASSUME NEW b \in Alert
      PROVE  /\ \A n \in 1 .. Len(trail'[b]) :
                  trail'[b][n].action = "alert.reviewed"
                    => trail'[b][n].previous = StatusAt(b, n - 1)'
             /\ IF status'[b] = "absent" THEN trail'[b] = <<>>
                ELSE status'[b] = StatusAt(b, Len(trail[b]))'
  <2>1. CASE b = a
    BY <1>2, <1>3, <1>4, <1>5, <2>1
  <2>2. CASE b # a
    BY <1>1, <2>2 DEF TrailIsContinuous, StatusAt, EntryStatus
  <2>. QED
    BY <2>1, <2>2
<1>. QED
  BY <1>6 DEF TrailIsContinuous

\* The audit history stays a chain.
LEMMA TrailPreserved ==
  ASSUME IInv, [Next]_vars
  PROVE  TrailIsContinuous'
<1>1. CASE UNCHANGED tables
  BY <1>1 DEF IInv, TrailIsContinuous, StatusAt, EntryStatus, tables
<1>2. ASSUME NEW a \in Alert, OpenAlert(a)
      PROVE  TrailIsContinuous'
  BY <1>2 DEF IInv, TypeOK, TrailIsContinuous, StatusAt, EntryStatus, OpenAlert
<1>3. ASSUME NEW s \in Session, CommitReview(s)
      PROVE  TrailIsContinuous'
  <2>1. PICK a \in Alert, r \in WrittenRow :
          /\ status[a] \in Live
          /\ r.previous = status[a]
          /\ r.new = NewStatus(a, r.outcome)
          /\ status' = [status EXCEPT ![a] = r.new]
          /\ trail' = [trail EXCEPT ![a] = Append(@, RowEntry(r))]
          /\ RowEntry(r) \in Entry
    BY <1>3, ReviewWritten
  <2>2. /\ EntryStatus(RowEntry(r)) = r.new
        /\ r.new # "absent" /\ status[a] # "absent"
        /\ RowEntry(r).previous = status[a]
    BY <2>1 DEF EntryStatus, RowEntry, NewStatus, Live
  <2>. QED
    BY <2>1, <2>2, ChainExtended
<1>4. ASSUME NEW s \in Session, CommitAssign(s)
      PROVE  TrailIsContinuous'
  <2>1. PICK a \in Alert, n \in Analyst :
          /\ status[a] \in Live
          /\ status' = [status EXCEPT ![a] = "assigned"]
          /\ trail' = [trail EXCEPT ![a] = Append(@, AssignedEntry(n))]
          /\ AssignedEntry(n) \in Entry
    BY <1>4, AssignmentWritten
  <2>2. /\ EntryStatus(AssignedEntry(n)) = "assigned"
        /\ AssignedEntry(n).action # "alert.reviewed"
        /\ status[a] # "absent"
    BY <2>1 DEF EntryStatus, AssignedEntry, Live
  <2>. QED
    BY <2>1, <2>2, ChainExtended
<1>. QED
  BY <1>1, <1>2, <1>3, <1>4, TableStep

\* Rows of analyst_reviews and audit entries of reviews are written together.
LEMMA AuditedPreserved ==
  ASSUME IInv, [Next]_vars
  PROVE  ReviewsAreAudited'
<1>1. CASE UNCHANGED tables
  BY <1>1 DEF IInv, ReviewsAreAudited, tables
<1>2. ASSUME NEW a \in Alert, OpenAlert(a)
      PROVE  ReviewsAreAudited'
  BY <1>2 DEF IInv, ReviewsAreAudited, OpenAlert
<1>3. ASSUME NEW a \in Alert, NEW e \in Entry, NEW new,
             trail' = [trail EXCEPT ![a] = Append(@, e)],
             \/ reviews' = reviews /\ e.action # "alert.reviewed"
             \/ /\ reviews' = reviews \cup {new}
                /\ new.alert = a /\ e = RowEntry(new)
      PROVE  ReviewsAreAudited'
  <2>1. /\ \A b \in Alert \ {a} : trail'[b] = trail[b]
        /\ Len(trail[a]) \in Nat
        /\ Len(trail'[a]) = Len(trail[a]) + 1
        /\ trail'[a][Len(trail[a]) + 1] = e
        /\ \A n \in 1 .. Len(trail[a]) : trail'[a][n] = trail[a][n]
    BY <1>3, Appended DEF IInv
  <2>2. \A r \in reviews : r.alert \in Alert
    BY DEF IInv, TypeOK
  <2>3. ASSUME NEW r \in reviews'
        PROVE  \E n \in 1 .. Len(trail'[r.alert]) :
                 trail'[r.alert][n] = RowEntry(r)
    <3>1. CASE r \in reviews
      <4>1. PICK n \in 1 .. Len(trail[r.alert]) :
              trail[r.alert][n] = RowEntry(r)
        BY <3>1 DEF IInv, ReviewsAreAudited
      <4>2. /\ n \in 1 .. Len(trail'[r.alert])
            /\ trail'[r.alert][n] = RowEntry(r)
        BY <2>1, <2>2, <3>1, <4>1
      <4>. QED
        BY <4>2
    <3>2. CASE r \notin reviews
      <4>1. r = new /\ r.alert = a /\ e = RowEntry(r)
        BY <1>3, <2>3, <3>2
      <4>. QED
        BY <2>1, <4>1
    <3>. QED
      BY <3>1, <3>2
  <2>4. ASSUME NEW b \in Alert, NEW n \in 1 .. Len(trail'[b]),
               trail'[b][n].action = "alert.reviewed"
        PROVE  \E r \in reviews' : r.alert = b /\ trail'[b][n] = RowEntry(r)
    <3>1. CASE b = a /\ n = Len(trail[a]) + 1
      <4>1. new \in reviews' /\ new.alert = b /\ trail'[b][n] = RowEntry(new)
        BY <1>3, <2>1, <2>4, <3>1
      <4>. QED
        BY <4>1
    <3>2. CASE ~(b = a /\ n = Len(trail[a]) + 1)
      <4>1. n \in 1 .. Len(trail[b]) /\ trail'[b][n] = trail[b][n]
        BY <2>1, <3>2
      <4>2. \E r \in reviews : r.alert = b /\ trail[b][n] = RowEntry(r)
        BY <2>4, <4>1 DEF IInv, ReviewsAreAudited
      <4>. QED
        BY <1>3, <4>1, <4>2
    <3>. QED
      BY <3>1, <3>2
  <2>. QED
    BY <2>3, <2>4 DEF ReviewsAreAudited, RowEntry
<1>4. ASSUME NEW s \in Session, CommitReview(s)
      PROVE  ReviewsAreAudited'
  <2>1. PICK a \in Alert, r \in WrittenRow :
          /\ r.alert = a
          /\ reviews' = reviews \cup {r}
          /\ trail' = [trail EXCEPT ![a] = Append(@, RowEntry(r))]
          /\ RowEntry(r) \in Entry
    BY <1>4, ReviewWritten
  <2>. QED
    BY <1>3, <2>1
<1>5. ASSUME NEW s \in Session, CommitAssign(s)
      PROVE  ReviewsAreAudited'
  <2>1. PICK a \in Alert, n \in Analyst :
          /\ trail' = [trail EXCEPT ![a] = Append(@, AssignedEntry(n))]
          /\ AssignedEntry(n) \in Entry
          /\ reviews' = reviews
    BY <1>5, AssignmentWritten
  <2>2. AssignedEntry(n).action # "alert.reviewed"
    BY DEF AssignedEntry
  <2>. QED
    BY <1>3, <2>1, <2>2
<1>. QED
  BY <1>1, <1>2, <1>4, <1>5, TableStep

------------------------------------------------------------------------------
(* The invariant and the safety properties *)

\* An empty database satisfies the invariant.
LEMMA InitInvariant == Init => IInv
<1> SUFFICES ASSUME Init PROVE IInv
  OBVIOUS
<1>1. TypeOK
  BY DEF Init, TypeOK
<1>2. LocksAreExclusive /\ LockedRowIsCurrent /\ InsertedIdsAreNew
  BY DEF Init, LocksAreExclusive, HasLock, LockedRowIsCurrent,
     InsertedIdsAreNew
<1>3. AssigneeMatchesStatus /\ ReviewedAlertsExist /\ AtMostOneFinalReview
  BY DEF Init, AssigneeMatchesStatus, ReviewedAlertsExist,
     AtMostOneFinalReview
<1>4. TrailIsContinuous /\ ReviewsAreAudited
  BY DEF Init, TrailIsContinuous, ReviewsAreAudited
<1>. QED
  BY <1>1, <1>2, <1>3, <1>4 DEF IInv

\* Every step keeps the invariant.
LEMMA NextInvariant == IInv /\ [Next]_vars => IInv'
BY TypePreserved, LocksPreserved, CurrentPreserved, InsertedPreserved,
   AssigneePreserved, ReviewedPreserved, TrailPreserved, AuditedPreserved
DEF IInv

\* What a session has read under its lock is still so when it writes, with
\* any number of sessions, alerts and reviews.
THEOREM Invariant == Spec => []IInv
BY InitInvariant, NextInvariant, PTL DEF Spec

\* Every variable always has its type, and the CHECK constraints of
\* analyst_reviews never fail.
THEOREM TypeCorrect == Spec => []TypeOK
<1>1. IInv => TypeOK
  BY DEF IInv
<1>. QED
  BY <1>1, Invariant, PTL

\* review resolves an alert once: concurrent final reviews do not both
\* succeed.
THEOREM ResolvedOnce == Spec => []AtMostOneFinalReview
<1>1. IInv => AtMostOneFinalReview
  BY DEF IInv
<1>. QED
  BY <1>1, Invariant, PTL

\* The transitions that review and assign record form one unbroken history.
THEOREM HistoryIsUnbroken == Spec => []TrailIsContinuous
<1>1. IInv => TrailIsContinuous
  BY DEF IInv
<1>. QED
  BY <1>1, Invariant, PTL

\* Reviews and their audit entries agree.
THEOREM RecordsAgree == Spec => []ReviewsAreAudited
<1>1. IInv => ReviewsAreAudited
  BY DEF IInv
<1>. QED
  BY <1>1, Invariant, PTL

\* The KeyError after _TRANSITION_ALERT_STATUS is unreachable.
THEOREM TransitionNeverFails == Spec => []TransitionFindsAlert
<1>1. IInv => TransitionFindsAlert
  BY DEF IInv, LockedRowIsCurrent, TransitionFindsAlert, Live
<1>. QED
  BY <1>1, Invariant, PTL

------------------------------------------------------------------------------
(* The sessions implement AlertLifecycle *)

\* A review_id that is in no row is in no trail.
LEMMA UnusedId ==
  ASSUME IInv, NEW i, ~Recorded(i)
  PROVE  ~Lifecycle!Used(i)
<1> SUFFICES ASSUME NEW a \in Alert, NEW n \in 1 .. Len(trail[a]),
                    trail[a][n].action = "alert.reviewed",
                    trail[a][n].review = i
             PROVE  FALSE
  BY DEF Lifecycle!Used
<1>1. PICK r \in reviews : trail[a][n] = RowEntry(r)
  BY DEF IInv, ReviewsAreAudited
<1>2. RowEntry(r).review = r.id
  BY DEF RowEntry
<1>. QED
  BY <1>1, <1>2 DEF Recorded

\* Both start with no alerts.
LEMMA InitRefines == Init => Lifecycle!Init
BY DEF Init, Lifecycle!Init

\* Every step of a session is a step of the lifecycle or changes no alert.
LEMMA NextRefines ==
  ASSUME IInv, [Next]_vars
  PROVE  [Lifecycle!Next]_(Lifecycle!lifecycleVars)
<1>1. CASE UNCHANGED tables
  BY <1>1 DEF tables, Lifecycle!lifecycleVars
<1>2. ASSUME NEW a \in Alert, OpenAlert(a)
      PROVE  Lifecycle!Next
  <2>1. Lifecycle!Open(a)
    BY <1>2 DEF OpenAlert, Lifecycle!Open
  <2>. QED
    BY <2>1 DEF Lifecycle!Next
<1>3. ASSUME NEW s \in Session, CommitReview(s)
      PROVE  Lifecycle!Next
  <2>1. PICK a \in Alert, r \in WrittenRow :
          /\ status[a] \in Live
          /\ r.previous = status[a]
          /\ r.new = NewStatus(a, r.outcome)
          /\ ~Recorded(r.id)
          /\ status' = [status EXCEPT ![a] = r.new]
          /\ trail' = [trail EXCEPT ![a] = Append(@, RowEntry(r))]
          /\ assignee' = assignee
    BY <1>3, ReviewWritten
  <2>2. r.new = Lifecycle!StatusAfter(a, r.outcome)
    BY <2>1
    DEF NewStatus, Lifecycle!StatusAfter, IInv, AssigneeMatchesStatus, Live
  <2>3. ~Lifecycle!Used(r.id)
    BY <2>1, UnusedId
  <2>4. Lifecycle!Review(a, r.id, r.outcome)
    BY <2>1, <2>2, <2>3 DEF Lifecycle!Review, RowEntry, Live
  <2>. QED
    BY <2>1, <2>4 DEF Lifecycle!Next, WrittenRow
<1>4. ASSUME NEW s \in Session, CommitAssign(s)
      PROVE  Lifecycle!Next
  <2>1. PICK a \in Alert, n \in Analyst : Lifecycle!Assign(a, n)
    BY <1>4, AssignmentWritten DEF Lifecycle!Assign, AssignedEntry, Live
  <2>. QED
    BY <2>1 DEF Lifecycle!Next
<1>. QED
  BY <1>1, <1>2, <1>3, <1>4, TableStep

\* The row lock and the unique review_id make each call of review and assign
\* appear to happen at once.
THEOREM Refinement == Spec => LifecycleSpec
<1>. QED
  BY InitRefines, NextRefines, Invariant, PTL
  DEF Spec, LifecycleSpec, Lifecycle!Spec

==============================================================================
