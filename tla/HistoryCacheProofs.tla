-------------------------- MODULE HistoryCacheProofs --------------------------
(***************************************************************************)
(* For any number of threads, events, customers, entries and rows: the     *)
(* invariant IInv of HistoryCache, and the three properties of answers.    *)
(* The order of the entries is of no account to them: whatever is driven   *)
(* out only makes the cache smaller.  The order has an invariant of its    *)
(* own, UseInv, from which it follows what is driven out.                  *)
(***************************************************************************)
EXTENDS HistoryCache, FiniteSetTheorems, WellFoundedInduction, TLAPS

\* A call that begins takes its bounds from what there is, and who asks first
\* finds nothing of this event in the cache or on its way there.
LEMMA BeginPreserves ==
  ASSUME CacheAssumption, IInv,
         NEW t \in Thread, NEW e \in Event, Begin(t, e)
  PROVE  IInv'
<1> USE DEF store, cache, Goto, Rows
<1>0. CustomerOf[e] \in Customer
  BY DEF CacheAssumption
<1>1. /\ pc' = [pc EXCEPT ![t] = "lookup"]
      /\ call'[t] = [event |-> e, began |-> now, rows |-> Rows(CustomerOf[e]),
                     floor |-> floor[CustomerOf[e]], first |-> e \notin asked,
                     history |-> 0, overtaken |-> FALSE]
      /\ \A u \in Thread : u # t => call'[u] = call[u] /\ pc'[u] = pc[u]
      /\ asked' = asked \cup {e}
      /\ pc'[t] = "lookup"
      /\ UNCHANGED <<now, written, floor, used, entries, order>>
  BY DEF IInv, Shape, Begin
<1>2. Shape'
  <2>1. call'[t] \in Call
    BY <1>0, <1>1 DEF IInv, Shape, CallsAreOfThePast, Call
  <2>2. call' \in [Thread -> Call \cup {NoCall}]
    BY <1>1, <2>1 DEF IInv, Shape, Begin
  <2> QED
    BY <1>1, <2>1, <2>2 DEF IInv, Shape
<1>3. CallsAreOfThePast'
  BY <1>0, <1>1 DEF IInv, Shape, CallsAreOfThePast, Call
<1>4. EntriesCoverTheirStart'
  BY <1>1 DEF IInv, Shape, EntriesCoverTheirStart, Covers
<1>5. OvertakenAreMarked'
  BY <1>1 DEF IInv, Shape, OvertakenAreMarked
<1>6. FirstSeesLater'
  <2>1. ASSUME e \notin asked
        PROVE  /\ e \notin DOMAIN entries
               /\ \A u \in Thread : pc[u] = "store" => call[u].event # e
    BY <2>1 DEF IInv, CallsAreOfThePast
  <2>2. ASSUME NEW u \in Thread, u # t,
               pc'[u] \in {"lookup", "load", "store"}, call'[u].first
        PROVE  /\ call'[u].event \in DOMAIN entries
                    => entries[call'[u].event].history >= call'[u].rows
               /\ \A v \in Thread :
                    pc'[v] = "store" /\ call'[v].event = call'[u].event
                      => call'[v].history >= call'[u].rows
    <3>1. /\ pc[u] \in {"lookup", "load", "store"} /\ call[u].first
          /\ call'[u] = call[u]
      BY <1>1, <2>2
    <3>2. \A v \in Thread : pc'[v] = "store" =>
            pc[v] = "store" /\ call'[v] = call[v]
      BY <1>1
    <3> QED
      BY <3>1, <3>2 DEF IInv, FirstSeesLater
  <2>3. /\ call'[t].event = e /\ call'[t].first = (e \notin asked)
        /\ \A v \in Thread : pc'[v] = "store" =>
             pc[v] = "store" /\ call'[v] = call[v]
    BY <1>1
  <2> QED
    BY <1>1, <2>1, <2>2, <2>3 DEF FirstSeesLater
<1>7. StalenessIsBounded'
  BY <1>1 DEF IInv, Shape, StalenessIsBounded
<1>8. FirstLoadIsCurrent' /\ OnlyOvertakenLoadsAreStale'
  BY <1>1 DEF IInv, Shape, FirstLoadIsCurrent, OnlyOvertakenLoadsAreStale
<1> QED
  BY <1>2, <1>3, <1>4, <1>5, <1>6, <1>7, <1>8 DEF IInv

\* The entry is alive at the instant the call began, so it has what was there
\* a Ttl before.
LEMMA HitPreserves ==
  ASSUME CacheAssumption, IInv, NEW t \in Thread, Hit(t)
  PROVE  IInv'
<1> USE DEF store, ghosts, Goto, Rows, Key, Alive
<1> DEFINE e == call[t].event
           c == CustomerOf[e]
<1>0. e \in Event /\ c \in Customer /\ e \in DOMAIN entries /\ call[t] \in Call
  BY DEF CacheAssumption, Hit, IInv, Shape, Call
<1>a. entries[e] \in Entry
  BY <1>0 DEF IInv, Shape
<1>1. /\ pc' = [pc EXCEPT ![t] = "done"]
      /\ call'[t] = [call[t] EXCEPT !.history = entries[e].history,
                                    !.overtaken = entries[e].overtaken]
      /\ \A u \in Thread : u # t => call'[u] = call[u] /\ pc'[u] = pc[u]
      /\ pc'[t] = "done"
      /\ pc[t] = "lookup"
      /\ call[t].began < entries[e].expires
      /\ UNCHANGED <<now, written, floor, asked, entries>>
  BY <1>0, <1>a DEF IInv, Shape, Hit, Call, Entry
<1>2. Shape'
  <2>1. call'[t] \in Call
    BY <1>0, <1>a, <1>1 DEF Call, Entry
  <2>2. call' \in [Thread -> Call \cup {NoCall}]
    BY <1>1, <2>1 DEF IInv, Shape, Hit
  <2> QED
    BY <1>1, <2>1, <2>2 DEF IInv, Shape
<1>b. /\ call'[t].event = e /\ call'[t].began = call[t].began
      /\ call'[t].floor = call[t].floor /\ call'[t].rows = call[t].rows
      /\ call'[t].first = call[t].first
      /\ call'[t].history = entries[e].history
      /\ call'[t].overtaken = entries[e].overtaken
  BY <1>0, <1>1 DEF Call
<1>3. CallsAreOfThePast'
  BY <1>0, <1>1, <1>b DEF IInv, Shape, CallsAreOfThePast
<1>4. EntriesCoverTheirStart'
  BY <1>1 DEF IInv, Shape, EntriesCoverTheirStart, Covers
<1>5. OvertakenAreMarked'
  BY <1>1 DEF IInv, Shape, OvertakenAreMarked
<1>6. FirstSeesLater'
  BY <1>1 DEF IInv, Shape, FirstSeesLater
<1>7. StalenessIsBounded'
  <2>1. ASSUME NEW n \in 1 .. Len(written[c]),
               written[c][n] + Ttl <= call[t].began
        PROVE  n <= entries[e].history
    <3>1. written[c] \in Seq(Nat) /\ written[c][n] \in Nat
      BY <1>0 DEF IInv, Shape
    <3>2. /\ call[t].began \in Nat /\ entries[e].expires \in Nat
          /\ Ttl \in Nat \ {0} /\ call[t].began < entries[e].expires
      BY <1>0, <1>1, <1>a DEF CacheAssumption, Entry, Call
    <3>3. written[c][n] < entries[e].expires - Ttl
      <4>1. \A w, b, x, l \in Nat : w + l <= b /\ b < x => w < x - l
        OBVIOUS
      <4> QED
        BY <2>1, <3>1, <3>2, <4>1
    <3> QED
      BY <1>0, <2>1, <3>3 DEF IInv, EntriesCoverTheirStart, Covers
  <2> QED
    BY <1>1, <1>b, <2>1 DEF IInv, StalenessIsBounded
<1>8. FirstLoadIsCurrent'
  BY <1>0, <1>1, <1>b DEF IInv, Shape, FirstLoadIsCurrent, FirstSeesLater
<1>9. OnlyOvertakenLoadsAreStale'
  <2>1. ~entries[e].overtaken => entries[e].history >= call[t].floor
    <3>1. floor[c] \in Nat /\ call[t].floor \in Nat /\ entries[e].history \in Nat
      BY <1>0, <1>a DEF IInv, Shape, Call, Entry
    <3> QED
      BY <1>0, <1>1, <3>1 DEF IInv, OvertakenAreMarked, CallsAreOfThePast
  <2> QED
    BY <1>1, <1>b, <2>1 DEF IInv, OnlyOvertakenLoadsAreStale
<1> QED
  BY <1>2, <1>3, <1>4, <1>5, <1>6, <1>7, <1>8, <1>9 DEF IInv

\* Without entries there is less to show.
LEMMA FewerEntries ==
  ASSUME IInv, NEW keys, Discard(keys)
  PROVE  /\ DOMAIN entries' \subseteq DOMAIN entries
         /\ \A k \in DOMAIN entries' :
              k \in DOMAIN entries /\ entries'[k] = entries[k]
         /\ DOMAIN entries' = DOMAIN entries \ keys
         /\ entries' \in [DOMAIN entries' -> Entry]
BY DEF Discard, IInv, Shape

LEMMA MissPreserves ==
  ASSUME CacheAssumption, IInv, NEW t \in Thread, Miss(t)
  PROVE  IInv'
<1> USE DEF store, ghosts, Goto, Rows
<1>1. /\ pc' = [pc EXCEPT ![t] = "load"]
      /\ \A u \in Thread : u # t => pc'[u] = pc[u]
      /\ pc[t] = "lookup" /\ pc'[t] = "load"
      /\ UNCHANGED <<now, written, floor, asked, used, call>>
  BY DEF IInv, Shape, Miss
<1>2. /\ DOMAIN entries' \subseteq DOMAIN entries
      /\ \A k \in DOMAIN entries' :
           k \in DOMAIN entries /\ entries'[k] = entries[k]
      /\ entries' \in [DOMAIN entries' -> Entry]
  BY FewerEntries DEF Miss
<1>3. Shape'
  BY <1>1, <1>2 DEF IInv, Shape
<1>4. CallsAreOfThePast'
  BY <1>1, <1>2 DEF IInv, CallsAreOfThePast
<1>5. EntriesCoverTheirStart'
  BY <1>1, <1>2 DEF IInv, EntriesCoverTheirStart, Covers
<1>6. OvertakenAreMarked'
  BY <1>1, <1>2 DEF IInv, OvertakenAreMarked
<1>7. FirstSeesLater'
  BY <1>1, <1>2 DEF IInv, FirstSeesLater
<1>8. StalenessIsBounded' /\ FirstLoadIsCurrent' /\ OnlyOvertakenLoadsAreStale'
  BY <1>1 DEF IInv, StalenessIsBounded, FirstLoadIsCurrent,
              OnlyOvertakenLoadsAreStale
<1> QED
  BY <1>3, <1>4, <1>5, <1>6, <1>7, <1>8 DEF IInv

\* The answer of the database has every row there is.
LEMMA LoadHistoryPreserves ==
  ASSUME CacheAssumption, IInv,
         NEW t \in Thread, LoadHistory(t)
  PROVE  IInv'
<1> USE DEF store, cache, ghosts, Goto, Rows
<1> DEFINE e == call[t].event
           c == CustomerOf[e]
<1>0. e \in Event /\ c \in Customer /\ call[t] \in Call
  BY DEF CacheAssumption, LoadHistory, IInv, Shape, Call
<1>r. Len(written[c]) \in Nat
  BY <1>0 DEF IInv, Shape
<1>1. /\ pc' = [pc EXCEPT ![t] = "store"]
      /\ call'[t] = [call[t] EXCEPT !.history = Len(written[c])]
      /\ \A u \in Thread : u # t => call'[u] = call[u] /\ pc'[u] = pc[u]
      /\ pc[t] = "load" /\ pc'[t] = "store"
      /\ UNCHANGED <<now, written, floor, asked, used, entries, order>>
  BY DEF IInv, Shape, LoadHistory
<1>b. /\ call'[t].event = e /\ call'[t].began = call[t].began
      /\ call'[t].floor = call[t].floor /\ call'[t].rows = call[t].rows
      /\ call'[t].first = call[t].first
      /\ call'[t].overtaken = call[t].overtaken
      /\ call'[t].history = Len(written[c])
  BY <1>0, <1>1 DEF Call
<1>2. Shape'
  BY <1>0, <1>r, <1>1 DEF IInv, Shape, LoadHistory, Call
<1>3. CallsAreOfThePast'
  BY <1>0, <1>1, <1>b DEF IInv, Shape, CallsAreOfThePast
<1>4. EntriesCoverTheirStart'
  <2>1. Covers(c, Len(written[c]), call[t].began)
    BY <1>r DEF Covers
  <2>2. \A u \in Thread : pc'[u] = "store" /\ u # t =>
          Covers(CustomerOf[call[u].event], call[u].history, call[u].began)
    BY <1>1 DEF IInv, EntriesCoverTheirStart
  <2>3. \A u \in Thread : pc'[u] = "store" =>
          Covers(CustomerOf[call'[u].event], call'[u].history, call'[u].began)
    BY <1>1, <1>b, <2>1, <2>2
  <2> QED
    BY <1>1, <2>3 DEF IInv, EntriesCoverTheirStart, Covers
<1>5. OvertakenAreMarked'
  <2>1. Len(written[c]) >= floor[c]
    BY <1>0, <1>r DEF IInv, Shape, CallsAreOfThePast
  <2>2. \A u \in Thread : pc'[u] = "store" /\ ~call'[u].overtaken =>
          call'[u].history >= floor[CustomerOf[call'[u].event]]
    BY <1>1, <1>b, <2>1 DEF IInv, OvertakenAreMarked
  <2> QED
    BY <1>1, <2>2 DEF IInv, OvertakenAreMarked
<1>6. FirstSeesLater'
  <2>1. ASSUME NEW u \in Thread, pc'[u] \in {"lookup", "load", "store"},
               call'[u].first, call'[t].event = call'[u].event
        PROVE  Len(written[c]) >= call'[u].rows
    BY <1>0, <1>1, <1>b, <2>1 DEF IInv, CallsAreOfThePast
  <2>2. ASSUME NEW u \in Thread, pc'[u] \in {"lookup", "load", "store"},
               call'[u].first, call'[u].event \in DOMAIN entries
        PROVE  entries[call'[u].event].history >= call'[u].rows
    BY <1>0, <1>1, <1>b, <2>2 DEF IInv, FirstSeesLater
  <2>3. ASSUME NEW u \in Thread, pc'[u] \in {"lookup", "load", "store"},
               call'[u].first, NEW v \in Thread, v # t, pc'[v] = "store",
               call'[v].event = call'[u].event
        PROVE  call'[v].history >= call'[u].rows
    <3>1. /\ pc[u] \in {"lookup", "load", "store"} /\ call[u].first
          /\ call'[u].event = call[u].event /\ call'[u].rows = call[u].rows
          /\ pc[v] = "store" /\ call'[v] = call[v]
      BY <1>1, <1>b, <2>3
    <3> QED
      BY <2>3, <3>1 DEF IInv, FirstSeesLater
  <2> QED
    <3> HIDE DEF e, c
    <3>1. \A u, v \in Thread :
            /\ pc'[u] \in {"lookup", "load", "store"} /\ call'[u].first
            /\ pc'[v] = "store" /\ call'[v].event = call'[u].event
            => call'[v].history >= call'[u].rows
      BY <1>b, <2>1, <2>3
    <3> QED
      BY <1>1, <2>2, <3>1 DEF FirstSeesLater
<1>7. StalenessIsBounded' /\ FirstLoadIsCurrent' /\ OnlyOvertakenLoadsAreStale'
  BY <1>1 DEF IInv, StalenessIsBounded, FirstLoadIsCurrent,
              OnlyOvertakenLoadsAreStale
<1> QED
  BY <1>2, <1>3, <1>4, <1>5, <1>6, <1>7 DEF IInv

LEMMA LoadRaisesPreserves ==
  ASSUME CacheAssumption, IInv,
         NEW t \in Thread, LoadRaises(t)
  PROVE  IInv'
<1> USE DEF store, cache, ghosts, Goto, Rows
<1>1. /\ pc' = [pc EXCEPT ![t] = "idle"]
      /\ call' = [call EXCEPT ![t] = NoCall]
      /\ \A u \in Thread : u # t => call'[u] = call[u] /\ pc'[u] = pc[u]
      /\ pc'[t] = "idle"
      /\ UNCHANGED <<now, written, floor, asked, used, entries, order>>
  BY DEF IInv, Shape, LoadRaises
<1>2. Shape'
  BY <1>1 DEF IInv, Shape
<1>3. CallsAreOfThePast' /\ EntriesCoverTheirStart' /\ OvertakenAreMarked'
  BY <1>1 DEF IInv, CallsAreOfThePast, EntriesCoverTheirStart,
              OvertakenAreMarked, Covers
<1>4. FirstSeesLater'
  BY <1>1 DEF IInv, FirstSeesLater
<1>5. StalenessIsBounded' /\ FirstLoadIsCurrent' /\ OnlyOvertakenLoadsAreStale'
  BY <1>1 DEF IInv, StalenessIsBounded, FirstLoadIsCurrent,
              OnlyOvertakenLoadsAreStale
<1> QED
  BY <1>2, <1>3, <1>4, <1>5 DEF IInv

\* What is stored came after the load began; what is driven out does not
\* matter.
LEMMA StorePreserves ==
  ASSUME CacheAssumption, IInv, NEW t \in Thread, Store(t)
  PROVE  IInv'
<1> USE DEF store, Goto, Rows, Key
<1> DEFINE e == call[t].event
           c == CustomerOf[e]
<1>0. e \in Event /\ c \in Customer /\ call[t] \in Call
  BY DEF CacheAssumption, Store, IInv, Shape, Call
<1>1. /\ pc' = [pc EXCEPT ![t] = "done"]
      /\ \A u \in Thread : u # t => pc'[u] = pc[u]
      /\ pc[t] = "store" /\ pc'[t] = "done"
      /\ UNCHANGED <<now, written, floor, asked, call>>
  BY DEF IInv, Shape, Store
<1>2. /\ DOMAIN entries' \subseteq DOMAIN entries \cup {e}
      /\ \A k \in DOMAIN entries' :
           entries'[k] = IF k = e THEN EntryOf(call[t]) ELSE entries[k]
      /\ entries' \in [DOMAIN entries' -> {EntryOf(call[t])} \cup
                                            {entries[k] : k \in DOMAIN entries}]
  BY DEF Store, LastOnes
<1>a. /\ EntryOf(call[t]) \in Entry
      /\ EntryOf(call[t]).customer = c
      /\ EntryOf(call[t]).expires = call[t].began + Ttl
      /\ EntryOf(call[t]).history = call[t].history
      /\ EntryOf(call[t]).overtaken = call[t].overtaken
      /\ call[t].began \in Nat /\ Ttl \in Nat
  BY <1>0 DEF EntryOf, Entry, Call, CacheAssumption
<1>3. Shape'
  <2>1. entries' \in [DOMAIN entries' -> Entry]
    BY <1>2, <1>a DEF IInv, Shape
  <2>2. DOMAIN entries' \subseteq Event
    BY <1>0, <1>2 DEF IInv, Shape
  <2> QED
    BY <1>1, <2>1, <2>2 DEF IInv, Shape
<1>4. CallsAreOfThePast'
  BY <1>0, <1>1, <1>2 DEF IInv, CallsAreOfThePast
<1>5. EntriesCoverTheirStart'
  <2>1. ASSUME NEW k \in DOMAIN entries'
        PROVE  /\ entries'[k].customer = CustomerOf[k]
               /\ Ttl <= entries'[k].expires
               /\ entries'[k].expires - Ttl <= now
               /\ Covers(CustomerOf[k], entries'[k].history,
                         entries'[k].expires - Ttl)
    <3>1. CASE k = e
      <4>1. call[t].began + Ttl - Ttl = call[t].began
        BY <1>a
      <4>2. call[t].began <= now
        BY <1>1 DEF IInv, CallsAreOfThePast
      <4> QED
        BY <1>1, <1>2, <1>a, <3>1, <4>1, <4>2
        DEF IInv, EntriesCoverTheirStart
    <3>2. CASE k # e
      BY <1>2, <3>2 DEF IInv, EntriesCoverTheirStart
    <3> QED
      BY <3>1, <3>2
  <2> QED
    BY <1>1, <2>1 DEF IInv, EntriesCoverTheirStart, Covers
<1>6. OvertakenAreMarked'
  BY <1>0, <1>1, <1>2, <1>a DEF IInv, OvertakenAreMarked
<1>7. FirstSeesLater'
  BY <1>0, <1>1, <1>2, <1>a DEF IInv, FirstSeesLater
<1>8. StalenessIsBounded'
  <2>1. ASSUME NEW n \in 1 .. Len(written[c]),
               written[c][n] + Ttl <= call[t].began
        PROVE  n <= call[t].history
    <3>1. written[c] \in Seq(Nat) /\ written[c][n] \in Nat
      BY <1>0 DEF IInv, Shape
    <3>2. written[c][n] < call[t].began
      BY <1>a, <2>1, <3>1 DEF CacheAssumption
    <3> QED
      BY <1>1, <2>1, <3>2 DEF IInv, EntriesCoverTheirStart, Covers
  <2> QED
    BY <1>1, <2>1 DEF IInv, StalenessIsBounded
<1>9. FirstLoadIsCurrent'
  BY <1>1 DEF IInv, FirstLoadIsCurrent, FirstSeesLater
<1>10. OnlyOvertakenLoadsAreStale'
  <2>1. ~call[t].overtaken => call[t].history >= call[t].floor
    <3>1. floor[c] \in Nat /\ call[t].floor \in Nat /\ call[t].history \in Nat
      BY <1>0 DEF IInv, Shape, Call
    <3> QED
      BY <1>0, <1>1, <3>1 DEF IInv, OvertakenAreMarked, CallsAreOfThePast
  <2> QED
    BY <1>1, <2>1 DEF IInv, OnlyOvertakenLoadsAreStale
<1> QED
  BY <1>3, <1>4, <1>5, <1>6, <1>7, <1>8, <1>9, <1>10 DEF IInv

\* An invalidation marks what it cannot reach.
LEMMA InvalidatePreserves ==
  ASSUME CacheAssumption, IInv,
         NEW customers \in SUBSET Customer, Invalidate(customers)
  PROVE  IInv'
<1> USE DEF ghosts, Rows
<1>1. /\ UNCHANGED <<now, written, asked, used, pc>>
      /\ DOMAIN entries' = DOMAIN entries \ Matching(customers)
      /\ \A k \in DOMAIN entries' :
           k \in DOMAIN entries /\ entries'[k] = entries[k]
      /\ entries' \in [DOMAIN entries' -> Entry]
  BY FewerEntries DEF Invalidate
<1>2. \A u \in Thread : pc[u] # "idle" =>
        /\ CustomerOf[call[u].event] \in Customer
        /\ call'[u] \in Call
        /\ call'[u].event = call[u].event /\ call'[u].began = call[u].began
        /\ call'[u].rows = call[u].rows /\ call'[u].floor = call[u].floor
        /\ call'[u].first = call[u].first
        /\ call'[u].history = call[u].history
        /\ InFlight(u, customers) => call'[u].overtaken
        /\ ~InFlight(u, customers) => call'[u] = call[u]
  BY DEF Invalidate, IInv, Shape, Call, CacheAssumption
<1>3. /\ floor' \in [Customer -> Nat]
      /\ \A c \in Customer :
           /\ c \in customers => floor'[c] = Len(written[c])
           /\ c \notin customers => floor'[c] = floor[c]
           /\ floor[c] <= floor'[c] /\ floor'[c] <= Len(written[c])
           /\ floor[c] \in Nat
  BY DEF Invalidate, IInv, Shape, CallsAreOfThePast
<1>4. Shape'
  <2>1. call' \in [Thread -> Call \cup {NoCall}]
    BY DEF Invalidate, InFlight, IInv, Shape, Call
  <2> QED
    BY <1>1, <1>2, <1>3, <2>1 DEF IInv, Shape
<1>5. CallsAreOfThePast'
  <2>1. ASSUME NEW u \in Thread, pc[u] # "idle"
        PROVE  call[u].floor <= floor'[CustomerOf[call[u].event]]
    <3>1. call[u].floor \in Nat /\ CustomerOf[call[u].event] \in Customer
      BY <1>2, <2>1 DEF IInv, Shape, Call
    <3>2. call[u].floor <= floor[CustomerOf[call[u].event]]
      BY <2>1 DEF IInv, CallsAreOfThePast
    <3>3. floor'[CustomerOf[call[u].event]] \in Nat
      BY <1>3, <3>1
    <3> QED
      BY <1>3, <3>1, <3>2, <3>3
  <2> QED
    BY <1>1, <1>2, <1>3, <2>1 DEF IInv, CallsAreOfThePast
<1>6. EntriesCoverTheirStart'
  BY <1>1, <1>2 DEF IInv, EntriesCoverTheirStart, Covers
<1>7. OvertakenAreMarked'
  <2>1. ASSUME NEW k \in DOMAIN entries', ~entries'[k].overtaken
        PROVE  entries'[k].history >= floor'[CustomerOf[k]]
    <3>1. /\ CustomerOf[k] \in Customer
          /\ entries[k].customer = CustomerOf[k] /\ entries'[k] = entries[k]
          /\ k \notin Matching(customers) /\ k \in DOMAIN entries
      BY <1>1, <2>1
      DEF IInv, Shape, EntriesCoverTheirStart, CacheAssumption
    <3>2. CustomerOf[k] \notin customers
      BY <3>1 DEF Matching
    <3> QED
      BY <1>3, <2>1, <3>1, <3>2 DEF IInv, OvertakenAreMarked
  <2>2. ASSUME NEW u \in Thread, pc[u] = "store", ~call'[u].overtaken
        PROVE  call'[u].history >= floor'[CustomerOf[call'[u].event]]
    BY <1>2, <1>3, <2>2 DEF InFlight, IInv, OvertakenAreMarked
  <2> QED
    BY <1>1, <2>1, <2>2 DEF OvertakenAreMarked
<1>8. FirstSeesLater'
  BY <1>1, <1>2 DEF IInv, FirstSeesLater
<1>9. StalenessIsBounded'
  BY <1>1, <1>2 DEF IInv, StalenessIsBounded
<1>10. FirstLoadIsCurrent'
  BY <1>1, <1>2 DEF IInv, FirstLoadIsCurrent
<1>11. OnlyOvertakenLoadsAreStale'
  BY <1>1, <1>2 DEF IInv, OnlyOvertakenLoadsAreStale, InFlight
<1> QED
  BY <1>4, <1>5, <1>6, <1>7, <1>8, <1>9, <1>10, <1>11 DEF IInv

\* A new row is of now, so it is too young to be missed.
LEMMA WriteRowPreserves ==
  ASSUME CacheAssumption, IInv, NEW c \in Customer, WriteRow(c)
  PROVE  IInv'
<1> USE DEF ghosts, cache, Rows
<1>1. UNCHANGED <<now, floor, asked, used, entries, order, pc, call>>
  BY DEF WriteRow
<1>2. written' \in [Customer -> Seq(Nat)]
  BY DEF WriteRow, IInv, Shape
<1>3. \A d \in Customer : /\ Len(written[d]) <= Len(written'[d])
                         /\ Len(written[d]) \in Nat
                         /\ Len(written'[d]) \in Nat
  BY DEF WriteRow, IInv, Shape
<1>4. \A d \in Customer : \A n \in 1 .. Len(written'[d]) :
        \/ n \in 1 .. Len(written[d]) /\ written'[d][n] = written[d][n]
        \/ written'[d][n] = now
  <2>1. ASSUME NEW d \in Customer, NEW n \in 1 .. Len(written'[d])
        PROVE  \/ n \in 1 .. Len(written[d]) /\ written'[d][n] = written[d][n]
               \/ written'[d][n] = now
    <3>1. CASE d # c
      BY <2>1, <3>1 DEF WriteRow, IInv, Shape
    <3>2. CASE d = c
      <4>1. written[c] \in Seq(Nat) /\ written'[c] = Append(written[c], now)
        BY DEF WriteRow, IInv, Shape
      <4> QED
        BY <2>1, <3>2, <4>1
    <3> QED
      BY <3>1, <3>2
  <2> QED
    BY <2>1
<1>5. Shape'
  BY <1>1, <1>2 DEF IInv, Shape
<1>a. \A u \in Thread : pc[u] # "idle" =>
        call[u] \in Call /\ CustomerOf[call[u].event] \in Customer
  BY DEF IInv, Shape, Call, CacheAssumption
<1>6. CallsAreOfThePast'
  <2>1. ASSUME NEW u \in Thread, pc[u] # "idle"
        PROVE  call[u].rows <= Len(written'[CustomerOf[call[u].event]])
    <3>1. call[u].rows \in Nat
      BY <1>a, <2>1 DEF Call
    <3>2. call[u].rows <= Len(written[CustomerOf[call[u].event]])
      BY <2>1 DEF IInv, CallsAreOfThePast
    <3> QED
      BY <1>3, <1>a, <2>1, <3>1, <3>2
  <2>2. ASSUME NEW d \in Customer
        PROVE  floor[d] <= Len(written'[d])
    <3>1. floor[d] \in Nat
      BY DEF IInv, Shape
    <3>2. floor[d] <= Len(written[d])
      BY DEF IInv, CallsAreOfThePast
    <3> QED
      BY <1>3, <3>1, <3>2
  <2> QED
    BY <1>1, <2>1, <2>2 DEF IInv, CallsAreOfThePast
<1>7. ASSUME NEW d \in Customer, NEW h, NEW i \in Nat, i <= now,
             Covers(d, h, i)
      PROVE  Covers(d, h, i)'
  <2>1. ASSUME NEW n \in 1 .. Len(written'[d]), written'[d][n] < i
        PROVE  n <= h
    <3>1. now \in Nat /\ ~(now < i)
      BY <1>7 DEF IInv, Shape
    <3>2. n \in 1 .. Len(written[d]) /\ written[d][n] < i
      BY <1>4, <2>1, <3>1
    <3> QED
      BY <1>7, <3>2 DEF Covers
  <2> QED
    BY <2>1 DEF Covers
<1>8. EntriesCoverTheirStart'
  <2>1. ASSUME NEW k \in DOMAIN entries
        PROVE  Covers(CustomerOf[k], entries[k].history,
                      entries[k].expires - Ttl)'
    <3>1. /\ CustomerOf[k] \in Customer /\ entries[k].expires - Ttl \in Nat
          /\ entries[k].expires - Ttl <= now
          /\ Covers(CustomerOf[k], entries[k].history,
                    entries[k].expires - Ttl)
      BY <2>1
      DEF IInv, Shape, EntriesCoverTheirStart, Entry, CacheAssumption
    <3> QED
      BY <1>1, <1>7, <3>1 DEF Covers
  <2>2. ASSUME NEW u \in Thread, pc[u] = "store"
        PROVE  Covers(CustomerOf[call[u].event], call[u].history,
                      call[u].began)'
    <3>1. /\ CustomerOf[call[u].event] \in Customer /\ call[u].began \in Nat
          /\ call[u].began <= now
          /\ Covers(CustomerOf[call[u].event], call[u].history, call[u].began)
      BY <1>a, <2>2 DEF IInv, EntriesCoverTheirStart, CallsAreOfThePast, Call
    <3> QED
      BY <1>1, <1>7, <3>1 DEF Covers
  <2> QED
    BY <1>1, <2>1, <2>2 DEF IInv, EntriesCoverTheirStart
<1>9. OvertakenAreMarked' /\ FirstSeesLater'
  BY <1>1 DEF IInv, OvertakenAreMarked, FirstSeesLater
<1>10. StalenessIsBounded'
  <2>1. ASSUME NEW u \in Thread, pc[u] = "done",
               NEW n \in 1 .. Len(written'[CustomerOf[call[u].event]]),
               written'[CustomerOf[call[u].event]][n] + Ttl <= call[u].began
        PROVE  n <= call[u].history
    <3>1. /\ call[u].began \in Nat /\ now \in Nat /\ call[u].began <= now
          /\ Ttl \in Nat \ {0} /\ CustomerOf[call[u].event] \in Customer
      BY <1>a, <2>1
      DEF IInv, Shape, CallsAreOfThePast, Call, CacheAssumption
    <3>2. written'[CustomerOf[call[u].event]][n] # now
      BY <2>1, <3>1
    <3>3. /\ n \in 1 .. Len(written[CustomerOf[call[u].event]])
          /\ written[CustomerOf[call[u].event]][n]
               = written'[CustomerOf[call[u].event]][n]
      BY <1>4, <2>1, <3>1, <3>2
    <3> QED
      BY <2>1, <3>3 DEF IInv, StalenessIsBounded
  <2> QED
    BY <1>1, <2>1 DEF StalenessIsBounded
<1>11. FirstLoadIsCurrent' /\ OnlyOvertakenLoadsAreStale'
  BY <1>1 DEF IInv, FirstLoadIsCurrent, OnlyOvertakenLoadsAreStale
<1> QED
  BY <1>5, <1>6, <1>8, <1>9, <1>10, <1>11 DEF IInv

LEMMA TickPreserves ==
  ASSUME CacheAssumption, IInv, Tick
  PROVE  IInv'
<1> USE DEF ghosts, cache, Rows
<1>1. /\ UNCHANGED <<written, floor, asked, used, entries, order, pc, call>>
      /\ now' = now + 1
  BY DEF Tick
<1>2. Shape'
  BY <1>1 DEF IInv, Shape
<1>3. CallsAreOfThePast'
  <2>1. ASSUME NEW u \in Thread, pc[u] # "idle"
        PROVE  call[u].began <= now'
    BY <1>1, <2>1 DEF IInv, Shape, CallsAreOfThePast, Call
  <2> QED
    BY <1>1, <2>1 DEF IInv, CallsAreOfThePast
<1>4. EntriesCoverTheirStart'
  <2>1. ASSUME NEW k \in DOMAIN entries
        PROVE  entries[k].expires - Ttl <= now'
    BY <1>1, <2>1
    DEF IInv, Shape, EntriesCoverTheirStart, Entry, CacheAssumption
  <2> QED
    BY <1>1, <2>1 DEF IInv, EntriesCoverTheirStart, Covers
<1>5. OvertakenAreMarked' /\ FirstSeesLater'
  BY <1>1 DEF IInv, OvertakenAreMarked, FirstSeesLater
<1>6. StalenessIsBounded' /\ FirstLoadIsCurrent' /\ OnlyOvertakenLoadsAreStale'
  BY <1>1 DEF IInv, StalenessIsBounded, FirstLoadIsCurrent,
              OnlyOvertakenLoadsAreStale
<1> QED
  BY <1>2, <1>3, <1>4, <1>5, <1>6 DEF IInv

------------------------------------------------------------------------------
\* In every reachable state, whatever is cached or about to be is recent
\* enough: the invariant of HistoryCache is inductive.
THEOREM Invariant == Spec => []IInv
<1>0. CacheAssumption
  BY CacheAssumption
<1>1. Init => IInv
  BY <1>0 DEF Init, IInv, Shape, CallsAreOfThePast, EntriesCoverTheirStart,
     OvertakenAreMarked, FirstSeesLater, StalenessIsBounded,
     FirstLoadIsCurrent, OnlyOvertakenLoadsAreStale, Rows, Covers
<1>2. IInv /\ [Next]_vars => IInv'
  <2> SUFFICES ASSUME IInv, [Next]_vars PROVE IInv'
    OBVIOUS
  <2>1. CASE UNCHANGED vars
    BY <2>1 DEF vars, store, ghosts, cache, IInv, Shape, CallsAreOfThePast,
       EntriesCoverTheirStart, OvertakenAreMarked, FirstSeesLater,
       StalenessIsBounded, FirstLoadIsCurrent, OnlyOvertakenLoadsAreStale,
       Rows, Covers
  <2>2. ASSUME NEW t \in Thread, NEW e \in Event, Begin(t, e) PROVE IInv'
    BY <1>0, <2>2, BeginPreserves
  <2>3. ASSUME NEW t \in Thread, Hit(t) \/ Miss(t) \/ LoadHistory(t) PROVE IInv'
    BY <1>0, <2>3, HitPreserves, MissPreserves, LoadHistoryPreserves
  <2>4. ASSUME NEW t \in Thread, LoadRaises(t) \/ Store(t) PROVE IInv'
    BY <1>0, <2>4, LoadRaisesPreserves, StorePreserves
  <2>5. ASSUME NEW c \in Customer, Invalidate({c}) \/ WriteRow(c) PROVE IInv'
    BY <1>0, <2>5, InvalidatePreserves, WriteRowPreserves
  <2>6. CASE Invalidate(Customer) \/ Tick
    BY <1>0, <2>6, InvalidatePreserves, TickPreserves
  <2> QED
    BY <2>1, <2>2, <2>3, <2>4, <2>5, <2>6 DEF Next
<1> QED
  BY <1>1, <1>2, PTL DEF Spec

\* Whoever stored it and however long the query took: a history that load
\* returns lacks no row that was stored ttl_seconds before the call.
THEOREM HistoriesAreRecent == Spec => []StalenessIsBounded
<1>1. IInv => StalenessIsBounded
  BY DEF IInv
<1> QED
  BY <1>1, Invariant, PTL

\* Who is the first to load the history of an event gets all rows there were.
THEOREM FirstLoadsAreCurrent == Spec => []FirstLoadIsCurrent
<1>1. IInv => FirstLoadIsCurrent
  BY DEF IInv
<1> QED
  BY <1>1, Invariant, PTL

\* A history that an invalidation should have removed comes only from a load
\* that was on its way when the cache was invalidated.
THEOREM InvalidationsReachTheRest == Spec => []OnlyOvertakenLoadsAreStale
<1>1. IInv => OnlyOvertakenLoadsAreStale
  BY DEF IInv
<1> QED
  BY <1>1, Invariant, PTL

------------------------------------------------------------------------------
(* The order of the entries *)

\* A part of an ordered set is ordered.
LEMMA PartOrders ==
  ASSUME NEW r, NEW keys, Orders(r, keys), NEW part \in SUBSET keys
  PROVE  Orders(r \cap (part \X part), part)
BY DEF Orders

\* The pairs of an order after a key has been moved to its end.
LEMMA MovedPairs ==
  ASSUME NEW r, NEW keys, NEW k, NEW i, NEW j
  PROVE  <<i, j>> \in MovedToEnd(r, keys, k)
           <=> IF j = k THEN i \in keys /\ i # k ELSE i # k /\ <<i, j>> \in r
BY DEF MovedToEnd

\* Moving a key to the end, or adding it there, leaves an order.
LEMMA MovedOrders ==
  ASSUME NEW r, NEW keys, Orders(r, keys), NEW k
  PROVE  Orders(MovedToEnd(r, keys, k), keys \cup {k})
<1> DEFINE q == MovedToEnd(r, keys, k)
<1>1. q \subseteq (keys \cup {k}) \X (keys \cup {k})
  BY DEF Orders, MovedToEnd
<1>2. \A i, j : <<i, j>> \in q
                 <=> IF j = k THEN i \in keys /\ i # k
                              ELSE i # k /\ <<i, j>> \in r
  BY MovedPairs
<1> HIDE DEF q
<1>3. \A i, j \in keys \cup {k} : i = j <=> <<i, j>> \notin q /\ <<j, i>> \notin q
  BY <1>2 DEF Orders
<1>4. \A h, i, j \in keys \cup {k} :
        <<h, i>> \in q /\ <<i, j>> \in q => <<h, j>> \in q
  BY <1>2 DEF Orders
<1>. QED
  BY <1>1, <1>3, <1>4 DEF Orders, q

\* The order of the entries follows that of the uses when both move the key.
LEMMA MovedFollows ==
  ASSUME NEW r, NEW keys, NEW all, keys \subseteq all, NEW u, r \subseteq u, NEW k
  PROVE  MovedToEnd(r, keys, k) \subseteq MovedToEnd(u, all, k)
BY DEF MovedToEnd

\* A finite nonempty ordered set has a first element.
LEMMA FirstExists ==
  ASSUME NEW r, NEW keys, Orders(r, keys), IsFiniteSet(keys), keys # {}
  PROVE  \E k \in keys : \A j \in keys \ {k} : <<k, j>> \in r
<1> DEFINE Ahead(k) == {j \in keys : <<j, k>> \in r}
           A == {Ahead(k) : k \in keys}
<1>1. A \subseteq FiniteSubsetsOf(keys) /\ A # {}
  <2>1. \A k \in keys : Ahead(k) \in SUBSET keys /\ IsFiniteSet(Ahead(k))
    BY FS_Subset
  <2>. QED
    BY <2>1 DEF FiniteSubsetsOf
<1>2. PICK a \in A : \A b \in A : ~ (<<b, a>> \in StrictSubsetOrdering(keys))
  <2> HIDE DEF A
  <2>. QED
    BY <1>1, WFMin, FS_StrictSubsetOrderingWellFounded
<1>3. PICK k \in keys : a = Ahead(k)
  OBVIOUS
<1>4. Ahead(k) = {}
  <2> SUFFICES ASSUME NEW j \in keys, <<j, k>> \in r
               PROVE  FALSE
    OBVIOUS
  <2>1. Ahead(j) \subseteq Ahead(k) /\ j \in Ahead(k) /\ j \notin Ahead(j)
    BY DEF Orders
  <2>2. <<Ahead(j), Ahead(k)>> \in StrictSubsetOrdering(keys)
    BY <2>1 DEF StrictSubsetOrdering
  <2>. QED
    BY <1>2, <1>3, <2>2
<1>. QED
  BY <1>4 DEF Orders

\* The last keys of an order are at most MaxEntries.
LEMMA LastOnesBounded ==
  ASSUME CacheAssumption,
         NEW r, NEW keys, Orders(r, keys), IsFiniteSet(keys)
  PROVE  Cardinality(LastOnes(r, keys)) <= MaxEntries
<1> DEFINE kept == LastOnes(r, keys)
<1>0. MaxEntries \in Nat \ {0}
  BY DEF CacheAssumption
<1>1. kept \subseteq keys /\ IsFiniteSet(kept) /\ Cardinality(kept) \in Nat
  BY FS_Subset, FS_CardinalityType DEF LastOnes
<1>2. CASE kept = {}
  BY <1>0, <1>2, FS_EmptySet
<1>3. CASE kept # {}
  <2>1. PICK k \in kept : \A j \in kept \ {k} : <<k, j>> \in r
    <3>1. Orders(r \cap (kept \X kept), kept)
      BY <1>1, PartOrders
    <3>. QED
      BY <1>1, <1>3, <3>1, FirstExists
  <2>2. /\ IsFiniteSet(Behind(r, keys, k))
        /\ Cardinality(Behind(r, keys, k)) \in Nat
        /\ Cardinality(Behind(r, keys, k)) < MaxEntries
    BY FS_Subset, FS_CardinalityType DEF Behind, LastOnes
  <2>3. kept \ {k} \subseteq Behind(r, keys, k)
    BY <1>1, <2>1 DEF Behind
  <2>4. /\ Cardinality(kept \ {k}) <= Cardinality(Behind(r, keys, k))
        /\ Cardinality(kept \ {k}) = Cardinality(kept) - 1
    BY <1>1, <2>2, <2>3, FS_Subset, FS_RemoveElement
  <2>. QED
    BY <1>0, <1>1, <2>2, <2>4
<1>. QED
  BY <1>2, <1>3

\* What is not among the last ones comes before each of them.
LEMMA OthersAreEarlier ==
  ASSUME CacheAssumption,
         NEW r, NEW keys, Orders(r, keys), IsFiniteSet(keys),
         NEW k \in keys \ LastOnes(r, keys), NEW j \in LastOnes(r, keys)
  PROVE  <<k, j>> \in r
<1> SUFFICES ASSUME <<k, j>> \notin r
             PROVE  FALSE
  OBVIOUS
<1>1. j \in keys /\ k # j
  BY DEF LastOnes
<1>2. <<j, k>> \in r
  BY <1>1 DEF Orders
<1>3. Behind(r, keys, k) \subseteq Behind(r, keys, j)
  BY <1>1, <1>2 DEF Behind, Orders
<1>4. IsFiniteSet(Behind(r, keys, j))
  BY FS_Subset DEF Behind
<1>5. /\ Cardinality(Behind(r, keys, k)) <= Cardinality(Behind(r, keys, j))
      /\ Cardinality(Behind(r, keys, k)) \in Nat
      /\ Cardinality(Behind(r, keys, j)) \in Nat
  BY <1>3, <1>4, FS_Subset, FS_CardinalityType
<1>6. /\ Cardinality(Behind(r, keys, j)) < MaxEntries
      /\ ~ (Cardinality(Behind(r, keys, k)) < MaxEntries)
  BY DEF LastOnes
<1>. QED
  BY <1>5, <1>6 DEF CacheAssumption

\* Discarding entries keeps the order of the others.
LEMMA DiscardKeepsUse ==
  ASSUME UseInv, NEW keys, Discard(keys), UNCHANGED used
  PROVE  UseInv'
<1> DEFINE K == DOMAIN entries
           L == DOMAIN entries \ keys
<1>1. DOMAIN entries' = L
  BY DEF Discard
<1>2. order' = order \cap (L \X L)
  <2>1. order \subseteq K \X K
    BY DEF UseInv, OrderedAndBounded, Orders
  <2>. QED
    BY <2>1 DEF Discard
<1>3. Orders(order', L)
  BY <1>2, PartOrders DEF UseInv, OrderedAndBounded
<1>4. IsFiniteSet(L) /\ Cardinality(L) <= MaxEntries
  <2>1. IsFiniteSet(K) /\ Cardinality(K) <= MaxEntries
    BY DEF UseInv, OrderedAndBounded
  <2>2. /\ IsFiniteSet(L) /\ Cardinality(L) \in Nat
        /\ Cardinality(K) \in Nat /\ Cardinality(L) <= Cardinality(K)
    BY <2>1, FS_Subset, FS_CardinalityType
  <2>3. MaxEntries \in Nat
    BY CacheAssumption DEF CacheAssumption
  <2>. QED
    BY <2>1, <2>2, <2>3
<1>. QED
  BY <1>1, <1>2, <1>3, <1>4
  DEF UseInv, OrderedAndBounded, OrderFollowsUse, Orders

\* A hit moves the key in both orders.
LEMMA HitKeepsUse ==
  ASSUME IInv, UseInv, NEW t \in Thread, Hit(t)
  PROVE  UseInv'
<1> DEFINE k == Key(call[t].event)
           K == DOMAIN entries
<1>1. /\ k \in K /\ UNCHANGED entries
      /\ order' = MovedToEnd(order, K, k)
      /\ used' = MovedToEnd(used, Event, k)
  BY DEF Hit, KeyLast
<1>2. K \subseteq Event
  BY DEF IInv, Shape
<1>3. Orders(order', K)
  <2>1. K \cup {k} = K
    BY <1>1
  <2>2. Orders(MovedToEnd(order, K, k), K \cup {k})
    BY MovedOrders DEF UseInv, OrderedAndBounded
  <2>. QED
    BY <1>1, <2>1, <2>2
<1>4. order' \subseteq used'
  BY <1>1, <1>2, MovedFollows DEF UseInv, OrderFollowsUse
<1>. QED
  BY <1>1, <1>3, <1>4 DEF UseInv, OrderedAndBounded, OrderFollowsUse, Orders

\* A new entry drives out what was used before all the rest, and no more than
\* has to go.
LEMMA StoreKeepsUse ==
  ASSUME IInv, UseInv, NEW t \in Thread, Store(t)
  PROVE  /\ UseInv'
         /\ \A k \in DOMAIN entries \ DOMAIN entries' :
              \A j \in DOMAIN entries' : <<k, j>> \in used'
<1> DEFINE e == Key(call[t].event)
           K == DOMAIN entries
           after == MovedToEnd(order, K, e)
           kept == LastOnes(after, K \cup {e})
<1>0. CacheAssumption
  BY CacheAssumption
<1>1. /\ DOMAIN entries' = kept
      /\ order' = after \cap (kept \X kept)
      /\ used' = MovedToEnd(used, Event, e)
  BY DEF Store, KeyLast
<1>2. Orders(after, K \cup {e}) /\ IsFiniteSet(K \cup {e})
  BY MovedOrders, FS_AddElement DEF UseInv, OrderedAndBounded
<1>3. kept \subseteq K \cup {e}
  BY DEF LastOnes
<1>4. after \subseteq used'
  <2>1. K \subseteq Event
    BY DEF IInv, Shape
  <2>. QED
    BY <1>1, <2>1, MovedFollows DEF UseInv, OrderFollowsUse
<1> HIDE DEF after, kept
<1>5. Orders(order', kept)
  BY <1>1, <1>2, <1>3, PartOrders
<1>6. IsFiniteSet(kept) /\ Cardinality(kept) <= MaxEntries
  BY <1>0, <1>2, <1>3, FS_Subset, LastOnesBounded DEF kept
<1>7. ASSUME NEW k \in K \ kept, NEW j \in kept
      PROVE  <<k, j>> \in used'
  BY <1>0, <1>2, <1>4, OthersAreEarlier DEF kept
<1>8. UseInv'
  BY <1>1, <1>4, <1>5, <1>6
  DEF UseInv, OrderedAndBounded, OrderFollowsUse, Orders
<1>. QED
  BY <1>1, <1>7, <1>8

\* What a step does to the order, and what it drives out.
LEMMA UseStep ==
  ASSUME IInv, UseInv, [Next]_vars
  PROVE  /\ UseInv'
         /\ \A k \in DOMAIN entries \ DOMAIN entries' :
              (\E t \in Thread : pc[t] = "store" /\ pc'[t] = "done")
                => \A j \in DOMAIN entries' : <<k, j>> \in used'
<1>0. pc \in [Thread -> {"idle", "lookup", "load", "store", "done"}]
  BY DEF IInv, Shape
<1>1. CASE UNCHANGED <<entries, order, used>>
  BY <1>1 DEF UseInv, OrderedAndBounded, OrderFollowsUse, Orders
<1>2. ASSUME NEW t \in Thread, Hit(t)
      PROVE  UseInv' /\ UNCHANGED entries
  BY <1>2, HitKeepsUse DEF Hit
<1>3. ASSUME NEW t \in Thread, Miss(t)
      PROVE  UseInv' /\ pc' = [pc EXCEPT ![t] = "load"]
  BY <1>3, DiscardKeepsUse DEF Miss, Goto, ghosts
<1>4. ASSUME NEW t \in Thread, Store(t)
      PROVE  /\ UseInv'
             /\ \A k \in DOMAIN entries \ DOMAIN entries' :
                  \A j \in DOMAIN entries' : <<k, j>> \in used'
  BY <1>4, StoreKeepsUse
<1>5. ASSUME NEW c, Invalidate(c)
      PROVE  UseInv' /\ UNCHANGED pc
  BY <1>5, DiscardKeepsUse DEF Invalidate, ghosts
<1>6. ASSUME \/ \E t \in Thread : \/ \E e \in Event : Begin(t, e)
                                  \/ LoadHistory(t)
                                  \/ LoadRaises(t)
             \/ \E c \in Customer : WriteRow(c)
             \/ Tick
             \/ UNCHANGED vars
      PROVE  UNCHANGED <<entries, order, used>>
  BY <1>6
  DEF Begin, LoadHistory, LoadRaises, WriteRow, Tick, vars, cache, ghosts
<1>. QED
  BY <1>0, <1>1, <1>2, <1>3, <1>4, <1>5, <1>6 DEF Next

\* The entries are in the order of their last use at any time, and never more
\* than max_entries.
THEOREM OrderInvariant == Spec => []UseInv
<1>1. Init => UseInv
  <2>1. 0 <= MaxEntries
    BY CacheAssumption DEF CacheAssumption
  <2>. QED
    BY <2>1, FS_EmptySet
    DEF Init, UseInv, OrderedAndBounded, OrderFollowsUse, Orders
<1>2. IInv /\ UseInv /\ [Next]_vars => UseInv'
  BY UseStep
<1> QED
  BY <1>1, <1>2, Invariant, PTL DEF Spec

\* Every variable has its type, and the mapping is ordered and bounded.
THEOREM TypeCorrect == Spec => []TypeOK
<1>1. IInv /\ UseInv => TypeOK
  BY DEF IInv, UseInv, TypeOK
<1> QED
  BY <1>1, Invariant, OrderInvariant, PTL

\* What a new entry drives out was not used since the last use of anything
\* that stays.
THEOREM LeastRecentGoes == Spec => LeastRecentlyUsedGoes
<1> DEFINE Goes ==
      \A k \in DOMAIN entries \ DOMAIN entries' :
        (\E t \in Thread : pc[t] = "store" /\ pc'[t] = "done")
          => \A j \in DOMAIN entries' : <<k, j>> \in used'
<1>1. IInv /\ UseInv /\ [Next]_vars => [Goes]_vars
  BY UseStep
<1> QED
  BY <1>1, Invariant, OrderInvariant, PTL DEF Spec, LeastRecentlyUsedGoes
==============================================================================
