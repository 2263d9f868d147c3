-------------------------- MODULE MCCustomerFeatures --------------------------
(***************************************************************************)
(* Instances of CustomerFeatures.  A kilometre per unit of time is the     *)
(* speed limit; home and town are 1 apart, and abroad 9 from both.          *)
(***************************************************************************)
EXTENDS CustomerFeatures, TLC

Scorers == Permutations(Scorer)

Places == {"home", "town", "abroad"}
SomeDistances ==
  [p \in Places, q \in Places |->
     IF p = q THEN 0 ELSE IF "abroad" \in {p, q} THEN 9 ELSE 1]

Country(place) == IF place = "abroad" THEN "elsewhere" ELSE "here"

Payment(customer, time, dev, place, amount) ==
  [customer |-> customer, account |-> customer, time |-> time, device |-> dev,
   place |-> place, region |-> place, country |-> Country(place),
   amount |-> amount, currency |-> "INR", merchant |-> "shop",
   category |-> "food", trust |-> "known", auth |-> "success",
   declared_failures |-> 0]

\* A failed attempt with another device abroad, less than the window of an
\* hour before the last transaction, and one longer ago with its device.
SomeEvents ==
  <<Payment("ann", 1, "phone", "home", 10),
    [Payment("ann", 5, "tablet", "abroad", 40) EXCEPT !.auth = "failure",
                                                      !.category = "games"],
    [Payment("ann", 6, "phone", "town", 10) EXCEPT !.merchant = "stall",
                                                   !.account = "joint"]>>

\* Added after the transactions, and expired for some of them.
SomeListings == {[added |-> 7, expires |-> 4]}

SomeProfiles == {[countries |-> {"elsewhere"}, regions |-> {}]}

Changes ==
  {d \in Device : denied[d] # Never} \cup {m \in Merchant : fraudRate[m] # 0}
    \cup {c \in Customer : usual[c] # NoPlaces}

\* At most one table of the operators changes, while a scorer is idle.
OneChange ==
  /\ Cardinality(Changes) <= 1
  /\ Changes # {} => \E s \in Scorer : pc[s] = "idle"
==============================================================================
