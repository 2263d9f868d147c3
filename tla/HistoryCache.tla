----------------------------- MODULE HistoryCache -----------------------------
(***************************************************************************)
(* CachedHistoryProvider: a bounded cache of the histories that events     *)
(* were scored on, shared by threads, in front of the database.  A step of *)
(* load is one critical section, or the query between the two.             *)
(*                                                                         *)
(* A history is represented by the number of the customer's rows that it   *)
(* contains: history n has the first n rows that were written.             *)
(***************************************************************************)
EXTENDS Naturals, Sequences, FiniteSets

CONSTANTS
  Thread,       \* threads that share the provider
  Event,        \* events by event_id
  Customer,     \* customers
  CustomerOf,   \* the customer of each event
  MaxEntries,   \* max_entries
  Ttl,          \* ttl_seconds
  MaxTime,      \* bound: how far the clock goes
  MaxWrites,    \* bound: rows written for a customer
  NoCall        \* a thread that has not called yet

ASSUME CacheAssumption ==
  /\ CustomerOf \in [Event -> Customer]
  /\ MaxEntries \in Nat \ {0}
  /\ Ttl \in Nat \ {0}

VARIABLES
  now,      \* the monotonic clock
  written,  \* written[c]: when each row of transaction_history of c came
  floor,    \* floor[c]: rows of c when the cache was last invalidated for c
  asked,    \* events that were ever loaded
  used,     \* pairs <<j, k>>: key k was hit or stored after the last use of j
  entries,  \* _entries as a mapping: a function on the cached keys
  order,    \* _entries as an order: pairs <<j, k>>, key j comes before k
  pc,       \* the next step of each thread
  call      \* the locals of its last call

store == <<now, written, floor>>
cache == <<entries, order>>
ghosts == <<asked, used>>
vars == <<store, ghosts, cache, pc, call>>

Init ==
  /\ now = 0
  /\ written = [c \in Customer |-> <<>>]
  /\ floor = [c \in Customer |-> 0]
  /\ asked = {}
  /\ used = {}
  /\ entries = <<>>
  /\ order = {}
  /\ pc = [t \in Thread |-> "idle"]
  /\ call = [t \in Thread |-> NoCall]

------------------------------------------------------------------------------
(* Helpers *)

Goto(t, label) == pc' = [pc EXCEPT ![t] = label]

Rows(c) == Len(written[c])

\* Defects, for mutation runs: histories are shared by the events of a
\* customer; an entry lives through its last instant.
KeyByCustomer(e) == CHOOSE f \in Event : CustomerOf[f] = CustomerOf[e]
AliveAtExpiry(entry, t) == entry.expires >= t

Key(e) == e

Alive(entry, t) == entry.expires > t

\* The order r of the keys, with k moved behind the others.
MovedToEnd(r, keys, k) ==
  {p \in r : k \notin {p[1], p[2]}} \cup ((keys \ {k}) \X {k})

\* A defect: a key that is there stays where it is.
KeyInPlace(k) ==
  IF k \in DOMAIN entries THEN order ELSE MovedToEnd(order, DOMAIN entries, k)

\* move_to_end
KeyLast(k) == MovedToEnd(order, DOMAIN entries, k)

\* The keys that come after k.
Behind(r, keys, k) == {j \in keys : <<k, j>> \in r}

\* What is left when the first key goes as long as there are too many: the
\* keys with less than MaxEntries behind them.
LastOnes(r, keys) == {k \in keys : Cardinality(Behind(r, keys, k)) < MaxEntries}

\* The entry that a load puts in: the expiry counts from its beginning.
EntryOf(l) ==
  [customer |-> CustomerOf[l.event], expires |-> l.began + Ttl,
   history |-> l.history, overtaken |-> l.overtaken]

Discard(keys) ==
  /\ entries' = [k \in DOMAIN entries \ keys |-> entries[k]]
  /\ order' = {p \in order : p[1] \notin keys /\ p[2] \notin keys}

------------------------------------------------------------------------------
(* load *)

\* A call reads the clock before it waits for the lock.  What the rest
\* remembers is for the properties: the rows there are, the invalidations so
\* far, and whether nobody has asked for this event before.
Begin(t, e) ==
  /\ pc[t] \in {"idle", "done"}
  /\ call' = [call EXCEPT ![t] =
       [event |-> e, began |-> now, rows |-> Rows(CustomerOf[e]),
        floor |-> floor[CustomerOf[e]], first |-> e \notin asked,
        history |-> 0, overtaken |-> FALSE]]
  /\ asked' = asked \cup {e}
  /\ Goto(t, "lookup")
  /\ UNCHANGED <<store, used, cache>>

Hit(t) ==
  LET k == Key(call[t].event) IN
  /\ pc[t] = "lookup"
  /\ k \in DOMAIN entries
  /\ Alive(entries[k], call[t].began)
  /\ order' = KeyLast(k)
  /\ used' = MovedToEnd(used, Event, k)
  /\ call' = [call EXCEPT ![t].history = entries[k].history,
                          ![t].overtaken = entries[k].overtaken]
  /\ Goto(t, "done")
  /\ UNCHANGED <<store, asked, entries>>

Miss(t) ==
  LET k == Key(call[t].event) IN
  /\ pc[t] = "lookup"
  /\ k \in DOMAIN entries => ~Alive(entries[k], call[t].began)
  /\ Discard({k})
  /\ Goto(t, "load")
  /\ UNCHANGED <<store, ghosts, call>>

\* The provider's transaction sees the rows that are committed.
LoadHistory(t) ==
  /\ pc[t] = "load"
  /\ call' = [call EXCEPT ![t].history = Rows(CustomerOf[call[t].event])]
  /\ Goto(t, "store")
  /\ UNCHANGED <<store, ghosts, cache>>

\* The provider raises: nothing is stored, the caller gets the exception.
LoadRaises(t) ==
  /\ pc[t] = "load"
  /\ Goto(t, "idle")
  /\ call' = [call EXCEPT ![t] = NoCall]
  /\ UNCHANGED <<store, ghosts, cache>>

\* The new entry is the last one; the first ones go while there are too many.
Store(t) ==
  LET k == Key(call[t].event)
      kept == LastOnes(KeyLast(k), DOMAIN entries \cup {k})
  IN
  /\ pc[t] = "store"
  /\ entries' = [j \in kept |->
                   IF j = k THEN EntryOf(call[t]) ELSE entries[j]]
  /\ order' = KeyLast(k) \cap (kept \X kept)
  /\ used' = MovedToEnd(used, Event, k)
  /\ Goto(t, "done")
  /\ UNCHANGED <<store, asked, call>>

------------------------------------------------------------------------------
(* invalidate, and the writer it is meant for *)

\* A call that has its history and has not stored it yet.
InFlight(t, customers) ==
  pc[t] = "store" /\ CustomerOf[call[t].event] \in customers

\* A defect: only the latest entry of the customer goes.
MatchingLatest(customers) ==
  {k \in DOMAIN entries :
     /\ entries[k].customer \in customers
     /\ \A j \in DOMAIN entries : <<k, j>> \notin order}

Matching(customers) ==
  {k \in DOMAIN entries : entries[k].customer \in customers}

\* invalidate(customer_id), or of all customers.  It cannot reach a history
\* that a load is about to store.
Invalidate(customers) ==
  /\ Discard(Matching(customers))
  /\ floor' = [c \in Customer |->
                 IF c \in customers THEN Rows(c) ELSE floor[c]]
  /\ call' = [t \in Thread |->
                IF InFlight(t, customers)
                THEN [call[t] EXCEPT !.overtaken = TRUE] ELSE call[t]]
  /\ UNCHANGED <<now, written, ghosts, pc>>

\* A transaction of the customer is stored.
WriteRow(c) ==
  /\ Rows(c) < MaxWrites
  /\ written' = [written EXCEPT ![c] = Append(@, now)]
  /\ UNCHANGED <<now, floor, ghosts, cache, pc, call>>

Tick ==
  /\ now < MaxTime
  /\ now' = now + 1
  /\ UNCHANGED <<written, floor, ghosts, cache, pc, call>>

Next ==
  \/ \E t \in Thread :
       \/ \E e \in Event : Begin(t, e)
       \/ Hit(t)
       \/ Miss(t)
       \/ LoadHistory(t)
       \/ LoadRaises(t)
       \/ Store(t)
  \/ \E c \in Customer : Invalidate({c}) \/ WriteRow(c)
  \/ Invalidate(Customer)
  \/ Tick

Spec == Init /\ [][Next]_vars

------------------------------------------------------------------------------
(* Properties *)

Call ==
  [event : Event, began : Nat, rows : Nat, floor : Nat, first : BOOLEAN,
   history : Nat, overtaken : BOOLEAN]

Entry == [customer : Customer, expires : Nat, history : Nat,
          overtaken : BOOLEAN]

Shape ==
  /\ now \in Nat
  /\ written \in [Customer -> Seq(Nat)]
  /\ floor \in [Customer -> Nat]
  /\ asked \subseteq Event
  /\ DOMAIN entries \subseteq Event
  /\ entries \in [DOMAIN entries -> Entry]
  /\ pc \in [Thread -> {"idle", "lookup", "load", "store", "done"}]
  /\ call \in [Thread -> Call \cup {NoCall}]
  /\ \A t \in Thread : pc[t] = "idle" \/ call[t] \in Call

\* The pairs r put the keys into one order.
Orders(r, keys) ==
  /\ r \subseteq keys \X keys
  /\ \A j, k \in keys : j = k <=> <<j, k>> \notin r /\ <<k, j>> \notin r
  /\ \A i, j, k \in keys : <<i, j>> \in r /\ <<j, k>> \in r => <<i, k>> \in r

\* The two views of the ordered mapping agree, and it is within its bound.
OrderedAndBounded ==
  /\ Orders(order, DOMAIN entries)
  /\ IsFiniteSet(DOMAIN entries)
  /\ Cardinality(DOMAIN entries) <= MaxEntries

\* Every variable has its type, and _entries is an ordered mapping of at most
\* max_entries keys.
TypeOK == Shape /\ OrderedAndBounded

\* The history h has every row of c that came before instant i.
Covers(c, h, i) ==
  \A n \in 1 .. Rows(c) : written[c][n] < i => n <= h

\* However long a load took, and whoever stored it: the history that a call
\* returns lacks no row that was written Ttl or longer before the call began.
StalenessIsBounded ==
  \A t \in Thread : pc[t] = "done" =>
    \A n \in 1 .. Rows(CustomerOf[call[t].event]) :
      written[CustomerOf[call[t].event]][n] + Ttl <= call[t].began
        => n <= call[t].history

\* The snapshot of one transaction never hides a later one: who asks for an
\* event first gets every row there was when he asked.
FirstLoadIsCurrent ==
  \A t \in Thread :
    pc[t] = "done" /\ call[t].first => call[t].history >= call[t].rows

\* A call that begins after an invalidation gets a history from before it only
\* if this history was on its way into the cache when the cache was
\* invalidated.
OnlyOvertakenLoadsAreStale ==
  \A t \in Thread :
    pc[t] = "done" /\ ~call[t].overtaken => call[t].history >= call[t].floor

\* What the two theorems on stale histories rest on.
CallsAreOfThePast ==
  /\ DOMAIN entries \subseteq asked
  /\ \A c \in Customer : floor[c] <= Rows(c)
  /\ \A t \in Thread : pc[t] # "idle" =>
       LET c == CustomerOf[call[t].event] IN
       /\ call[t].event \in asked
       /\ call[t].began <= now
       /\ call[t].floor <= floor[c]
       /\ call[t].rows <= Rows(c)

\* What is stored, or about to be, has all rows from before its load began.
EntriesCoverTheirStart ==
  /\ \A k \in DOMAIN entries :
       /\ entries[k].customer = CustomerOf[k]
       /\ Ttl <= entries[k].expires
       /\ entries[k].expires - Ttl <= now
       /\ Covers(CustomerOf[k], entries[k].history, entries[k].expires - Ttl)
  /\ \A t \in Thread : pc[t] = "store" =>
       Covers(CustomerOf[call[t].event], call[t].history, call[t].began)

\* Only what was overtaken lacks rows from before the latest invalidation.
OvertakenAreMarked ==
  /\ \A k \in DOMAIN entries :
       ~entries[k].overtaken => entries[k].history >= floor[CustomerOf[k]]
  /\ \A t \in Thread : pc[t] = "store" /\ ~call[t].overtaken =>
       call[t].history >= floor[CustomerOf[call[t].event]]

\* All that can answer the first call for an event was read after it began.
FirstSeesLater ==
  \A t \in Thread : pc[t] \in {"lookup", "load", "store"} /\ call[t].first =>
    /\ call[t].event \in DOMAIN entries
         => entries[call[t].event].history >= call[t].rows
    /\ \A u \in Thread :
         pc[u] = "store" /\ call[u].event = call[t].event
           => call[u].history >= call[t].rows

\* The inductive invariant: whatever stands in the cache or is on its way
\* there is as recent as the three properties of answers need.
IInv ==
  /\ Shape
  /\ CallsAreOfThePast
  /\ EntriesCoverTheirStart
  /\ OvertakenAreMarked
  /\ FirstSeesLater
  /\ StalenessIsBounded
  /\ FirstLoadIsCurrent
  /\ OnlyOvertakenLoadsAreStale

\* What comes first in the mapping was not used since what comes later was.
OrderFollowsUse == order \subseteq used

\* The inductive invariant of the order.
UseInv == OrderedAndBounded /\ OrderFollowsUse

\* A key that is used again outlives the others: whatever a new entry drives
\* out was not used since the last use of anything that stays.
LeastRecentlyUsedGoes ==
  [][\A k \in DOMAIN entries \ DOMAIN entries' :
       (\E t \in Thread : pc[t] = "store" /\ pc'[t] = "done")
         => \A j \in DOMAIN entries' : <<k, j>> \in used']_vars
==============================================================================
