-------------------------- MODULE WithdrawalProofs --------------------------
(***************************************************************************)
(* TLAPS proofs about the goodbye engine, for any number of services and   *)
(* families, every order of registrations, renames, removals and sends,    *)
(* every socket outcome and every clock, and for a driver that confirms a  *)
(* round late or never.                                                    *)
(***************************************************************************)
EXTENDS Withdrawal, FiniteSetTheorems, NaturalsInduction, TLAPS

OnWire == AllKinds \X Families

(***************************************************************************)
(* The types the arguments need.                                           *)
(***************************************************************************)
RouteType ==
  [name : Nat, withdrawing : BOOLEAN, dead : BOOLEAN, goodbye : SUBSET OnWire,
   full : BOOLEAN, attempt : Nat]

ItemType ==
  [origin : Nat, name : Nat, owned : SUBSET OnWire, owed : [Families -> Nat],
   next_at : Instant, ceiling_at : Instant, final_attempt : BOOLEAN,
   route : Nat \cup {None}, holds_name : BOOLEAN]

RoundType == [token : Nat, name : Nat, kinds : SUBSET AllKinds, debt : SUBSET Families]

WShape ==
  /\ now \in Instant /\ next_handle \in Nat /\ next_token \in Nat
  /\ DOMAIN routes \subseteq 0 .. next_handle - 1
  /\ \A h \in DOMAIN routes : routes[h] \in RouteType
  /\ DOMAIN withdrawals \subseteq 0 .. next_token - 1
  /\ \A j \in DOMAIN withdrawals : withdrawals[j] \in ItemType
  /\ round # None => round \in RoundType /\ round.token < next_token

(***************************************************************************)
(* A withdrawing route and its item agree; an item without a route never   *)
(* names an address.                                                       *)
(***************************************************************************)
ItemsMatchRoutes ==
  \A j \in DOMAIN withdrawals :
    LET item == withdrawals[j]
    IN IF item.route = None THEN \A g \in item.owned : g[1] # "host"
       ELSE /\ item.route \in DOMAIN routes /\ routes[item.route].withdrawing
            /\ item.origin = item.route
            /\ item.name = routes[item.route].name
            /\ item.owned = routes[item.route].goodbye

OneItemEach ==
  \A i, j \in DOMAIN withdrawals :
    withdrawals[i].route = withdrawals[j].route /\ withdrawals[i].route # None => i = j

(***************************************************************************)
(* A complete announcement exposed everything to everybody.                *)
(***************************************************************************)
FullMeansAll ==
  \A h \in Live : routes[h].full => Published(h) \X Families \subseteq routes[h].goodbye

(***************************************************************************)
(* The round in flight speaks for all that its item still owes.            *)
(***************************************************************************)
RoundSpeaks ==
  round # None /\ round.token \in DOMAIN withdrawals =>
    LET item == withdrawals[round.token]
    IN /\ round.name = item.name
       /\ Owing(item) \subseteq round.debt
       /\ \A f \in Owing(item), k \in {"ptr", "srv", "sub"} :
            <<k, f>> \in item.owned => k \in round.kinds

-----------------------------------------------------------------------------
(* The operators the steps are built from.                                 *)

(* A least element of a set of numbers.                                    *)
LEMMA LeastExists ==
  ASSUME NEW S \in SUBSET Nat, S # {}
  PROVE  \E x \in S : \A y \in S : x <= y
<1>1. PICK x \in S : \A y \in S : ~(<<y, x>> \in OpToRel(<, Nat))
  BY NatLessThanWellFounded, WFMin
<1>2. \A y \in S : x <= y
  <2> TAKE y \in S
  <2>1. x \in Nat /\ y \in Nat
    OBVIOUS
  <2>2. ~(y < x)
    BY <1>1, <2>1 DEF OpToRel
  <2> QED
    BY <2>1, <2>2
<1> QED
  BY <1>2

(* An item is born with a debt on each family that carried something to    *)
(* retract.                                                                *)
LEMMA NewItemType ==
  ASSUME WShape, NEW origin \in Nat, NEW name \in Nat, NEW owned \in SUBSET OnWire,
         NEW route \in Nat \cup {None}, NEW holds \in BOOLEAN
  PROVE  /\ NewItem(origin, name, owned, route, holds) \in ItemType
         /\ \A f \in Families, k \in Retractable :
              <<k, f>> \in owned => f \in Owing(NewItem(origin, name, owned, route, holds))
<1> USE WithdrawalAssumption, ClockAssumption
<1>1. owed_per_family(owned) \in [Families -> Nat]
  BY DEF owed_per_family
<1>2. now \in Instant /\ OrNow(checked_add(now, WITHDRAWAL_CEILING)) \in Instant
  BY DEF WShape, OrNow, checked_add, Instant
<1>3. NewItem(origin, name, owned, route, holds) \in ItemType
  BY <1>1, <1>2 DEF NewItem, ItemType
<1>4. ASSUME NEW f \in Families, NEW k \in Retractable, <<k, f>> \in owned
      PROVE  f \in Owing(NewItem(origin, name, owned, route, holds))
  <2>1. k \in OnFamily(owned, f) \cap Retractable
    BY <1>4 DEF OnFamily, Retractable
  <2>2. owed_per_family(owned)[f] > 0
    BY <2>1 DEF owed_per_family
  <2> QED
    BY <2>2 DEF NewItem, Owing
<1> QED
  BY <1>3, <1>4

(* Settling a round moves a debt down or leaves it, and the next attempt   *)
(* within the clock.                                                       *)
LEMMA SettledType ==
  ASSUME WShape, NEW item \in ItemType, NEW outcome \in [Families -> Outcomes]
  PROVE  /\ Settled(item, outcome) \in ItemType
         /\ Settled(item, outcome).owned = item.owned
         /\ Settled(item, outcome).origin = item.origin
         /\ Settled(item, outcome).name = item.name
         /\ Settled(item, outcome).route = item.route
         /\ Settled(item, outcome).holds_name = item.holds_name
         /\ Settled(item, outcome).ceiling_at = item.ceiling_at
         /\ Settled(item, outcome).final_attempt = item.final_attempt
         /\ Owing(Settled(item, outcome)) \subseteq Owing(item)
         /\ \A f \in Owing(item) :
              outcome[f] \notin {"accepted", "no_socket"} => f \in Owing(Settled(item, outcome))
<1> USE WithdrawalAssumption, ClockAssumption
<1> DEFINE owed == [f \in Families |-> IF f \in Owing(item) THEN Paid(item.owed[f], outcome[f])
                                       ELSE 0]
           at == NextAt(item, {f \in Owing(item) : outcome[f] = "accepted"} # {})
<1>1. item.owed \in [Families -> Nat] /\ item.ceiling_at \in Instant /\ now \in Instant
  BY DEF ItemType, WShape
<1>2. owed \in [Families -> Nat]
  <2> SUFFICES ASSUME NEW f \in Owing(item)
               PROVE  Paid(item.owed[f], outcome[f]) \in Nat
    BY DEF Owing
  <2>1. item.owed[f] \in Nat /\ item.owed[f] > 0
    BY <1>1 DEF Owing
  <2> QED
    BY <2>1 DEF Paid
<1>3. at \in Instant
  BY <1>1 DEF NextAt, OrNow, Sooner, checked_add, Instant
<1>4. Settled(item, outcome) = [item EXCEPT !.owed = owed, !.next_at = at]
  BY DEF Settled
<1>5. /\ Settled(item, outcome) \in ItemType /\ Settled(item, outcome).owed = owed
      /\ Settled(item, outcome).owned = item.owned
      /\ Settled(item, outcome).origin = item.origin
      /\ Settled(item, outcome).name = item.name
      /\ Settled(item, outcome).route = item.route
      /\ Settled(item, outcome).holds_name = item.holds_name
      /\ Settled(item, outcome).ceiling_at = item.ceiling_at
      /\ Settled(item, outcome).final_attempt = item.final_attempt
  <2> HIDE DEF owed, at
  <2> QED
    BY <1>2, <1>3, <1>4 DEF ItemType
<1>6. Owing(Settled(item, outcome)) \subseteq Owing(item)
  BY <1>5 DEF Owing
<1>7. ASSUME NEW f \in Owing(item), outcome[f] \notin {"accepted", "no_socket"}
      PROVE  f \in Owing(Settled(item, outcome))
  BY <1>1, <1>5, <1>7 DEF Owing, Paid
<1> QED
  BY <1>5, <1>6, <1>7

(* An item the scan passes over keeps what it is about.                    *)
LEMMA SkipType ==
  ASSUME WShape, NEW item \in ItemType
  PROVE  /\ Skip(item) \in ItemType
         /\ Skip(item).owned = item.owned /\ Skip(item).origin = item.origin
         /\ Skip(item).name = item.name /\ Skip(item).route = item.route
         /\ Skip(item).holds_name = item.holds_name
         /\ Skip(item).ceiling_at = item.ceiling_at
         /\ Skip(item).owed = NothingOwed \/ Skip(item).owed = item.owed
         /\ Owing(Skip(item)) \subseteq Owing(item)
<1> USE WithdrawalAssumption, ClockAssumption
<1> DEFINE later == checked_add(now, WITHDRAWAL_RETRY_BACKOFF)
<1>1. NothingOwed \in [Families -> Nat]
  BY DEF NothingOwed
<1>2. later = None \/ later \in Instant
  BY DEF checked_add, WShape, Instant
<1>3. \/ Skip(item) = [item EXCEPT !.owed = NothingOwed]
      \/ Skip(item) = [item EXCEPT !.final_attempt = TRUE]
      \/ later \in Instant /\ Skip(item) = [item EXCEPT !.next_at = later]
  BY <1>2 DEF Skip
<1> HIDE DEF later
<1>4. /\ Skip(item) \in ItemType
      /\ Skip(item).owned = item.owned /\ Skip(item).origin = item.origin
      /\ Skip(item).name = item.name /\ Skip(item).route = item.route
      /\ Skip(item).holds_name = item.holds_name
      /\ Skip(item).ceiling_at = item.ceiling_at
      /\ Skip(item).owed = NothingOwed \/ Skip(item).owed = item.owed
  BY <1>1, <1>3 DEF ItemType
<1> QED
  BY <1>4 DEF Owing, NothingOwed

(* A narrowed item keeps only subtype pointers the new holder lacks, and   *)
(* still owes them wherever it did.                                        *)
LEMMA NarrowedType ==
  ASSUME NEW item \in ItemType, NEW h
  PROVE  /\ Narrowed(item, h) \in ItemType
         /\ Narrowed(item, h).owned = {g \in item.owned : g[1] = "sub" /\ h \notin Subtyped}
         /\ Narrowed(item, h).origin = item.origin
         /\ Narrowed(item, h).name = item.name /\ Narrowed(item, h).route = item.route
         /\ Narrowed(item, h).holds_name = item.holds_name
         /\ Narrowed(item, h).ceiling_at = item.ceiling_at
         /\ Narrowed(item, h).next_at = item.next_at
         /\ Narrowed(item, h).final_attempt = item.final_attempt
         /\ Owing(Narrowed(item, h)) \subseteq Owing(item)
         /\ \A f \in Owing(item), g \in Narrowed(item, h).owned :
              g[2] = f => f \in Owing(Narrowed(item, h))
<1> DEFINE kept == {g \in item.owned : g[1] = "sub" /\ h \notin Subtyped}
           owed == [f \in Families |-> IF OnFamily(kept, f) = {} THEN 0 ELSE item.owed[f]]
<1>1. item.owed \in [Families -> Nat] /\ item.owned \subseteq OnWire
  BY DEF ItemType
<1>2. owed \in [Families -> Nat] /\ kept \subseteq OnWire
  BY <1>1
<1>3. Narrowed(item, h) = [item EXCEPT !.owned = kept, !.owed = owed]
  BY DEF Narrowed
<1>4. /\ Narrowed(item, h) \in ItemType /\ Narrowed(item, h).owed = owed
      /\ Narrowed(item, h).owned = kept
      /\ Narrowed(item, h).origin = item.origin
      /\ Narrowed(item, h).name = item.name /\ Narrowed(item, h).route = item.route
      /\ Narrowed(item, h).holds_name = item.holds_name
      /\ Narrowed(item, h).ceiling_at = item.ceiling_at
      /\ Narrowed(item, h).next_at = item.next_at
      /\ Narrowed(item, h).final_attempt = item.final_attempt
  <2> HIDE DEF kept, owed
  <2> QED
    BY <1>2, <1>3 DEF ItemType
<1>5. Owing(Narrowed(item, h)) \subseteq Owing(item)
  BY <1>1, <1>4 DEF Owing
<1>6. ASSUME NEW f \in Owing(item), NEW g \in kept, g[2] = f
      PROVE  f \in Owing(Narrowed(item, h))
  <2>1. g[1] \in OnFamily(kept, f)
    BY <1>2, <1>6 DEF OnFamily, OnWire
  <2> QED
    BY <1>4, <1>6, <2>1 DEF Owing
<1> QED
  BY <1>4, <1>5, <1>6

(* Names are few, so that a rename finds one that is free.                 *)
LEMMA NamesFinite ==
  ASSUME WShape, NEW h
  PROVE  IsFiniteSet(NamesInUse(h)) /\ NamesInUse(h) \subseteq Nat
<1> DEFINE D == DOMAIN routes \ {h}
           names == [g \in D |-> routes[g].name]
           N == {routes[g].name : g \in D}
           J == DOMAIN withdrawals
           titles == [j \in J |-> withdrawals[j].name]
           M == {withdrawals[j].name : j \in J}
<1>1. IsFiniteSet(D) /\ IsFiniteSet(J)
  <2>1. IsFiniteSet(0 .. next_handle - 1) /\ IsFiniteSet(0 .. next_token - 1)
    BY FS_Interval DEF WShape
  <2> QED
    BY <2>1, FS_Subset DEF WShape
<1>2. names \in Surjection(D, N) /\ titles \in Surjection(J, M)
  BY DEF Surjection
<1>3. IsFiniteSet(N) /\ IsFiniteSet(M)
  <2> HIDE DEF D, J, names, titles, N, M
  <2> QED
    BY <1>1, <1>2, FS_Surjection
<1>4. {n \in M : HeldName(n)} \subseteq M /\ NamesInUse(h) = N \cup {n \in M : HeldName(n)}
  BY DEF NamesInUse
<1>5. IsFiniteSet(NamesInUse(h))
  <2>1. IsFiniteSet({n \in M : HeldName(n)})
    <3> HIDE DEF M
    <3> QED
      BY <1>3, <1>4, FS_Subset
  <2> HIDE DEF N, M
  <2> QED
    BY <1>3, <1>4, <2>1, FS_Union
<1>6. N \subseteq Nat /\ M \subseteq Nat
  BY DEF WShape, RouteType, ItemType
<1> QED
  BY <1>4, <1>5, <1>6

LEMMA ChosenIsFree ==
  ASSUME WShape, NEW h \in DOMAIN routes
  PROVE  /\ Chosen(h) \in Nat /\ Chosen(h) > routes[h].attempt
         /\ Chosen(h) \notin NamesInUse(h) \/ Chosen(h) > LastSuffix
<1> DEFINE N == NamesInUse(h)
           a == routes[h].attempt
           I == a + 1 .. a + 1 + Cardinality(N)
<1>1. IsFiniteSet(N) /\ Cardinality(N) \in Nat /\ a \in Nat
  <2>1. a \in Nat
    BY DEF WShape, RouteType
  <2> QED
    BY <2>1, NamesFinite, FS_CardinalityType
<1>2. IsFiniteSet(I) /\ Cardinality(I) = Cardinality(N) + 1
  <2> HIDE DEF a, N
  <2>1. a + 1 \in Int /\ a + 1 + Cardinality(N) \in Int
    BY <1>1
  <2> QED
    BY <1>1, <2>1, FS_Interval
<1>3. \E x \in I : x \notin N
  <2> HIDE DEF N, I
  <2> SUFFICES ASSUME I \subseteq N
               PROVE  FALSE
    OBVIOUS
  <2>1. Cardinality(I) <= Cardinality(N)
    BY <1>1, FS_Subset
  <2> QED
    BY <1>1, <1>2, <2>1
<1>4. FreeSuffixes(h) # {} /\ FreeSuffixes(h) \in SUBSET Nat
  BY <1>1, <1>3 DEF FreeSuffixes
<1>5. Chosen(h) \in FreeSuffixes(h)
  <2>1. \E x \in FreeSuffixes(h) : \A y \in FreeSuffixes(h) : x <= y
    BY <1>4, LeastExists
  <2> QED
    BY <2>1 DEF Chosen
<1> QED
  BY <1>1, <1>5 DEF FreeSuffixes

-----------------------------------------------------------------------------
(* The structure.                                                          *)

Structure == WShape /\ ItemsMatchRoutes /\ OneItemEach

LEMMA EnqueueStep ==
  ASSUME WShape, NEW item \in ItemType, Enqueue(item)
  PROVE  /\ next_token' \in Nat /\ next_token' = next_token + 1
         /\ next_token \notin DOMAIN withdrawals
         /\ DOMAIN withdrawals' = DOMAIN withdrawals \cup {next_token}
         /\ DOMAIN withdrawals' \subseteq 0 .. next_token' - 1
         /\ withdrawals'[next_token] = item
         /\ \A j \in DOMAIN withdrawals : withdrawals'[j] = withdrawals[j]
         /\ \A j \in DOMAIN withdrawals' : withdrawals'[j] \in ItemType
BY DEF Enqueue, WShape

LEMMA StructureInit == Init => Structure
<1> SUFFICES ASSUME Init PROVE Structure
  OBVIOUS
<1>1. now \in Instant
  BY ClockAssumption DEF Init, Instant
<1>2. DOMAIN routes = {} /\ DOMAIN withdrawals = {}
  BY DEF Init
<1> QED
  BY <1>1, <1>2 DEF Init, Structure, WShape, ItemsMatchRoutes, OneItemEach

LEMMA RegisterStructure ==
  ASSUME Structure, NEW n \in RegNames, Register(n)
  PROVE  Structure'
<1> USE WithdrawalAssumption
<1> DEFINE new == [name |-> n, withdrawing |-> FALSE, dead |-> FALSE, goodbye |-> {},
                   full |-> FALSE, attempt |-> 0]
<1>1. new \in RouteType
  BY DEF RouteType
<1>2. /\ next_handle' = next_handle + 1 /\ next_handle \in Nat
      /\ next_handle \notin DOMAIN routes
      /\ DOMAIN routes' = DOMAIN routes \cup {next_handle}
      /\ routes'[next_handle] = new
      /\ \A h \in DOMAIN routes : routes'[h] = routes[h]
      /\ UNCHANGED <<now, withdrawals, next_token, round>>
  BY DEF Register, Structure, WShape
<1> HIDE DEF new
<1>3. WShape'
  <2>1. DOMAIN routes' \subseteq 0 .. next_handle' - 1
    BY <1>2 DEF Structure, WShape
  <2>2. \A h \in DOMAIN routes' : routes'[h] \in RouteType
    BY <1>1, <1>2 DEF Structure, WShape
  <2> QED
    BY <1>2, <2>1, <2>2 DEF Structure, WShape
<1>4. ItemsMatchRoutes'
  BY <1>2 DEF Structure, ItemsMatchRoutes
<1>5. OneItemEach'
  BY <1>2 DEF Structure, OneItemEach
<1> QED
  BY <1>3, <1>4, <1>5 DEF Structure

(* What an announcement does to the items: those of the same name that     *)
(* nobody holds are narrowed or go, the others stay.                       *)
LEMMA Reclaimed ==
  ASSUME WShape, NEW h, NEW n,
         NEW items, items = reclaim_detached_goodbyes(withdrawals, h, n)
  PROVE  /\ DOMAIN items \subseteq DOMAIN withdrawals
         /\ \A j \in DOMAIN items :
              /\ items[j] \in ItemType
              /\ ~Reclaimable(withdrawals[j], n) => items[j] = withdrawals[j]
              /\ Reclaimable(withdrawals[j], n) => items[j] = Narrowed(withdrawals[j], h)
         /\ \A j \in DOMAIN withdrawals \ DOMAIN items :
              /\ Reclaimable(withdrawals[j], n)
              /\ Narrowed(withdrawals[j], h).owed = NothingOwed
BY NarrowedType DEF reclaim_detached_goodbyes, WShape

LEMMA TransmittedStep ==
  ASSUME Structure, NEW h \in Live, NEW kinds \in EmitSets, NEW on \in SUBSET Families,
         Transmitted(h, kinds, on)
  PROVE  LET exposed == (kinds \cap Published(h)) \X on
             full == routes[h].full \/ (kinds \cap Published(h) = Published(h) /\ on = Families)
         IN /\ routes' = [routes EXCEPT ![h] = routes'[h]]
            /\ DOMAIN routes' = DOMAIN routes /\ Live' = Live
            /\ \A g \in DOMAIN routes : g # h => routes'[g] = routes[g]
            /\ routes'[h] \in RouteType
            /\ routes'[h].name = routes[h].name
            /\ routes'[h].withdrawing = routes[h].withdrawing
            /\ routes'[h].dead = routes[h].dead
            /\ routes'[h].attempt = routes[h].attempt
            /\ routes'[h].goodbye = routes[h].goodbye \cup exposed
            /\ routes'[h].full = full
            /\ exposed \subseteq OnWire
            /\ IF full THEN withdrawals' = reclaim_detached_goodbyes(withdrawals, h, routes[h].name)
               ELSE withdrawals' = withdrawals
<1> DEFINE exposed == (kinds \cap Published(h)) \X on
           full == routes[h].full \/ (kinds \cap Published(h) = Published(h) /\ on = Families)
           r == [routes[h] EXCEPT !.goodbye = @ \cup exposed, !.full = full]
<1>1. h \in DOMAIN routes /\ routes[h] \in RouteType
  BY DEF Live, Structure, WShape
<1>2. exposed \subseteq OnWire
  BY WithdrawalAssumption DEF OnWire, Published
<1>3. full \in BOOLEAN
  BY <1>1 DEF RouteType
<1>4. routes' = [routes EXCEPT ![h] = r]
  BY <1>1 DEF Transmitted, RouteType
<1>5. /\ r \in RouteType /\ r.name = routes[h].name /\ r.withdrawing = routes[h].withdrawing
      /\ r.dead = routes[h].dead /\ r.attempt = routes[h].attempt
      /\ r.goodbye = routes[h].goodbye \cup exposed /\ r.full = full
  <2> HIDE DEF exposed, full
  <2> QED
    BY <1>1, <1>2, <1>3 DEF RouteType
<1>6. /\ DOMAIN routes' = DOMAIN routes /\ routes'[h] = r
      /\ \A g \in DOMAIN routes : g # h => routes'[g] = routes[g]
  <2> HIDE DEF r
  <2> QED
    BY <1>1, <1>4
<1>7. Live' = Live
  <2> HIDE DEF r
  <2> QED
    BY <1>1, <1>5, <1>6 DEF Live
<1>8. IF full THEN withdrawals' = reclaim_detached_goodbyes(withdrawals, h, routes[h].name)
      ELSE withdrawals' = withdrawals
  BY DEF Transmitted
<1> QED
  <2> HIDE DEF r
  <2> QED
    BY <1>2, <1>4, <1>5, <1>6, <1>7, <1>8

LEMMA TransmittedStructure ==
  ASSUME Structure, NEW h \in Live, NEW kinds \in EmitSets, NEW on \in SUBSET Families,
         Transmitted(h, kinds, on)
  PROVE  Structure'
<1>1. /\ DOMAIN routes' = DOMAIN routes
      /\ \A g \in DOMAIN routes : g # h => routes'[g] = routes[g]
      /\ routes'[h] \in RouteType /\ routes'[h].withdrawing = routes[h].withdrawing
      /\ \/ withdrawals' = reclaim_detached_goodbyes(withdrawals, h, routes[h].name)
         \/ withdrawals' = withdrawals
  BY TransmittedStep
<1>2. UNCHANGED <<now, next_handle, next_token, round>>
  BY DEF Transmitted
<1>3. ~routes[h].withdrawing /\ h \in DOMAIN routes
  BY DEF Live
<1>4. /\ DOMAIN withdrawals' \subseteq DOMAIN withdrawals
      /\ \A j \in DOMAIN withdrawals' :
           /\ withdrawals'[j] \in ItemType
           /\ \/ withdrawals'[j] = withdrawals[j]
              \/ /\ withdrawals[j].route = None
                 /\ withdrawals'[j].route = None
                 /\ withdrawals'[j].owned \subseteq withdrawals[j].owned
  <2>1. CASE withdrawals' = withdrawals
    BY <2>1 DEF Structure, WShape
  <2>2. CASE withdrawals' = reclaim_detached_goodbyes(withdrawals, h, routes[h].name)
    <3>1. \A j \in DOMAIN withdrawals : withdrawals[j] \in ItemType
      BY DEF Structure, WShape
    <3> QED
      BY <2>2, <3>1, Reclaimed, NarrowedType DEF Reclaimable, Structure
  <2> QED
    BY <1>1, <2>1, <2>2
<1>5. WShape'
  BY <1>1, <1>2, <1>4 DEF Structure, WShape
<1>6. ItemsMatchRoutes'
  <2> SUFFICES ASSUME NEW j \in DOMAIN withdrawals'
               PROVE  LET item == withdrawals'[j]
                      IN IF item.route = None THEN \A g \in item.owned : g[1] # "host"
                         ELSE /\ item.route \in DOMAIN routes' /\ routes'[item.route].withdrawing
                              /\ item.origin = item.route
                              /\ item.name = routes'[item.route].name
                              /\ item.owned = routes'[item.route].goodbye
    BY DEF ItemsMatchRoutes
  <2> QED
    BY <1>1, <1>3, <1>4 DEF Structure, ItemsMatchRoutes
<1>7. OneItemEach'
  BY <1>4 DEF Structure, OneItemEach
<1> QED
  BY <1>5, <1>6, <1>7 DEF Structure

(* A defeated service leaves its instance records behind and moves on.     *)
LEMMA DefeatedStep ==
  ASSUME Structure, NEW h \in Live, Defeated(h)
  PROVE  LET a == Chosen(h)
             n == IF a > LastSuffix THEN routes[h].name ELSE a
             item == NewItem(h, routes[h].name, Handoff(h), None, HoldsName(h, n))
         IN /\ h \in DOMAIN routes /\ ~routes[h].withdrawing /\ ~routes[h].dead
            /\ routes[h] \in RouteType
            /\ DOMAIN routes' = DOMAIN routes /\ Live' = Live
            /\ \A g \in DOMAIN routes : g # h => routes'[g] = routes[g]
            /\ routes'[h] \in RouteType
            /\ routes'[h].name = n /\ routes'[h].attempt = a
            /\ routes'[h].withdrawing = FALSE
            /\ routes'[h].dead = (a > LastSuffix) /\ routes'[h].full = FALSE
            /\ routes'[h].goodbye = routes[h].goodbye \ Handoff(h)
            /\ item \in ItemType /\ Handoff(h) \in SUBSET OnWire
            /\ \/ /\ item.owed = NothingOwed
                  /\ UNCHANGED <<withdrawals, next_token>>
               \/ item.owed # NothingOwed /\ Enqueue(item)
<1> USE WithdrawalAssumption
<1> DEFINE a == Chosen(h)
           n == IF a > LastSuffix THEN routes[h].name ELSE a
           r == [routes[h] EXCEPT !.name = n, !.attempt = a, !.full = FALSE,
                                  !.dead = a > LastSuffix, !.goodbye = @ \ Handoff(h)]
           item == NewItem(h, routes[h].name, Handoff(h), None, HoldsName(h, n))
<1>1. h \in DOMAIN routes /\ routes[h] \in RouteType /\ ~routes[h].withdrawing /\ h \in Nat
  BY DEF Live, Structure, WShape
<1>2. a \in Nat /\ n \in Nat
  BY <1>1, ChosenIsFree DEF Structure, RouteType
<1>3. Handoff(h) \in SUBSET OnWire /\ Handoff(h) \subseteq routes[h].goodbye
  BY <1>1 DEF Handoff, RouteType
<1>4. routes' = [routes EXCEPT ![h] = r]
  BY <1>1 DEF Defeated, RouteType
<1>5. item \in ItemType
  <2>1. routes[h].name \in Nat /\ HoldsName(h, n) \in BOOLEAN
    BY <1>1 DEF RouteType, HoldsName
  <2> HIDE DEF n
  <2> QED
    BY <1>1, <1>3, <2>1, NewItemType DEF Structure
<1>6. /\ r \in RouteType /\ r.name = n /\ r.attempt = a /\ r.withdrawing = FALSE
      /\ r.dead = (a > LastSuffix) /\ r.full = FALSE
      /\ r.goodbye = routes[h].goodbye \ Handoff(h)
  <2>1. (a > LastSuffix) \in BOOLEAN
    OBVIOUS
  <2> HIDE DEF a, n
  <2> QED
    BY <1>1, <1>2, <1>3, <2>1 DEF RouteType
<1>7. \/ item.owed = NothingOwed /\ UNCHANGED <<withdrawals, next_token>>
      \/ item.owed # NothingOwed /\ Enqueue(item)
  BY DEF Defeated, enqueue_rename_withdrawal
<1>8. ~routes[h].dead
  BY DEF Defeated
<1> HIDE DEF r, item
<1>9. /\ DOMAIN routes' = DOMAIN routes /\ routes'[h] = r
      /\ \A g \in DOMAIN routes : g # h => routes'[g] = routes[g]
  BY <1>1, <1>4
<1>10. Live' = Live
  BY <1>1, <1>6, <1>9 DEF Live
<1> QED
  BY <1>1, <1>3, <1>5, <1>6, <1>7, <1>8, <1>9, <1>10 DEF item

LEMMA DefeatedStructure ==
  ASSUME Structure, NEW h \in Live, Defeated(h)
  PROVE  Structure'
<1> DEFINE n == IF Chosen(h) > LastSuffix THEN routes[h].name ELSE Chosen(h)
           item == NewItem(h, routes[h].name, Handoff(h), None, HoldsName(h, n))
<1>1. /\ h \in DOMAIN routes /\ ~routes[h].withdrawing
      /\ DOMAIN routes' = DOMAIN routes
      /\ \A g \in DOMAIN routes : g # h => routes'[g] = routes[g]
      /\ routes'[h] \in RouteType
      /\ item \in ItemType
      /\ UNCHANGED <<withdrawals, next_token>> \/ Enqueue(item)
  BY DefeatedStep
<1>2. UNCHANGED <<now, next_handle, round>>
  BY DEF Defeated
<1>3. item.route = None /\ \A g \in item.owned : g[1] # "host"
  BY DEF NewItem, Handoff, InstanceKinds
<1> HIDE DEF item
<1>4. CASE UNCHANGED <<withdrawals, next_token>>
  <2>1. WShape'
    BY <1>1, <1>2, <1>4 DEF Structure, WShape
  <2>2. ItemsMatchRoutes' /\ OneItemEach'
    BY <1>1, <1>4 DEF Structure, ItemsMatchRoutes, OneItemEach
  <2> QED
    BY <2>1, <2>2 DEF Structure
<1>5. CASE Enqueue(item)
  <2>1. /\ next_token' \in Nat /\ next_token' = next_token + 1
        /\ DOMAIN withdrawals' = DOMAIN withdrawals \cup {next_token}
        /\ DOMAIN withdrawals' \subseteq 0 .. next_token' - 1
        /\ withdrawals'[next_token] = item
        /\ \A j \in DOMAIN withdrawals : withdrawals'[j] = withdrawals[j]
        /\ \A j \in DOMAIN withdrawals' : withdrawals'[j] \in ItemType
    BY <1>1, <1>5, EnqueueStep DEF Structure
  <2>2. WShape'
    BY <1>1, <1>2, <2>1 DEF Structure, WShape, RoundType
  <2>3. ItemsMatchRoutes'
    BY <1>1, <1>3, <2>1 DEF Structure, ItemsMatchRoutes
  <2>4. OneItemEach'
    BY <1>3, <2>1 DEF Structure, OneItemEach
  <2> QED
    BY <2>2, <2>3, <2>4 DEF Structure
<1> QED
  BY <1>1, <1>4, <1>5

LEMMA UnregisterStep ==
  ASSUME Structure, NEW h \in Live, Unregister(h)
  PROVE  LET item == NewItem(h, routes[h].name, routes[h].goodbye, h, FALSE)
         IN /\ h \in DOMAIN routes /\ ~routes[h].withdrawing /\ routes[h] \in RouteType
            /\ DOMAIN routes' = DOMAIN routes /\ Live' = Live \ {h}
            /\ \A g \in DOMAIN routes : g # h => routes'[g] = routes[g]
            /\ routes'[h] \in RouteType /\ routes'[h].withdrawing
            /\ routes'[h].name = routes[h].name /\ routes'[h].goodbye = routes[h].goodbye
            /\ routes'[h].attempt = routes[h].attempt
            /\ routes'[h].dead = routes[h].dead /\ routes'[h].full = routes[h].full
            /\ h # None /\ item \in ItemType /\ Enqueue(item)
<1> DEFINE item == NewItem(h, routes[h].name, routes[h].goodbye, h, FALSE)
           r == [routes[h] EXCEPT !.withdrawing = TRUE]
<1>1. h \in DOMAIN routes /\ routes[h] \in RouteType /\ ~routes[h].withdrawing /\ h \in Nat
  BY DEF Live, Structure, WShape
<1>2. item \in ItemType
  BY <1>1, NewItemType DEF RouteType, Structure
<1>3. /\ r \in RouteType /\ r.withdrawing = TRUE /\ r.name = routes[h].name
      /\ r.goodbye = routes[h].goodbye /\ r.attempt = routes[h].attempt
      /\ r.dead = routes[h].dead /\ r.full = routes[h].full
  BY <1>1 DEF RouteType
<1>4. routes' = [routes EXCEPT ![h] = r] /\ Enqueue(item)
  BY DEF Unregister
<1>5. h # None
  BY <1>1, ClockAssumption
<1> HIDE DEF r, item
<1>6. /\ DOMAIN routes' = DOMAIN routes /\ routes'[h] = r
      /\ \A g \in DOMAIN routes : g # h => routes'[g] = routes[g]
  BY <1>1, <1>4
<1>7. Live' = Live \ {h}
  BY <1>3, <1>6 DEF Live
<1> QED
  BY <1>1, <1>2, <1>3, <1>4, <1>5, <1>6, <1>7 DEF item

LEMMA UnregisterStructure ==
  ASSUME Structure, NEW h \in Live, Unregister(h)
  PROVE  Structure'
<1> DEFINE item == NewItem(h, routes[h].name, routes[h].goodbye, h, FALSE)
<1>1. /\ h \in DOMAIN routes /\ ~routes[h].withdrawing /\ h # None
      /\ DOMAIN routes' = DOMAIN routes
      /\ \A g \in DOMAIN routes : g # h => routes'[g] = routes[g]
      /\ routes'[h] \in RouteType /\ routes'[h].withdrawing
      /\ routes'[h].name = routes[h].name /\ routes'[h].goodbye = routes[h].goodbye
      /\ item \in ItemType /\ Enqueue(item)
  BY UnregisterStep
<1>2. UNCHANGED <<now, next_handle, round>>
  BY DEF Unregister
<1>3. /\ item.route = h /\ item.origin = h /\ item.name = routes[h].name
      /\ item.owned = routes[h].goodbye
  BY DEF NewItem
<1> HIDE DEF item
<1>4. /\ next_token' \in Nat /\ next_token' = next_token + 1
      /\ DOMAIN withdrawals' = DOMAIN withdrawals \cup {next_token}
      /\ DOMAIN withdrawals' \subseteq 0 .. next_token' - 1
      /\ withdrawals'[next_token] = item
      /\ \A j \in DOMAIN withdrawals : withdrawals'[j] = withdrawals[j]
      /\ \A j \in DOMAIN withdrawals' : withdrawals'[j] \in ItemType
  BY <1>1, EnqueueStep DEF Structure
<1>5. WShape'
  BY <1>1, <1>2, <1>4 DEF Structure, WShape, RoundType
<1>6. ItemsMatchRoutes'
  BY <1>1, <1>3, <1>4 DEF Structure, ItemsMatchRoutes
<1>7. OneItemEach'
  <2>1. \A j \in DOMAIN withdrawals : withdrawals[j].route # h
    BY <1>1 DEF Structure, ItemsMatchRoutes
  <2> QED
    BY <1>3, <1>4, <2>1 DEF Structure, OneItemEach
<1> QED
  BY <1>5, <1>6, <1>7 DEF Structure

LEMMA ForceRemoveStructure ==
  ASSUME Structure, NEW h \in DOMAIN routes, ForceRemove(h)
  PROVE  /\ Structure'
         /\ DOMAIN routes' = DOMAIN routes \ {h} /\ Live' = Live \ {h}
         /\ \A g \in DOMAIN routes' : routes'[g] = routes[g]
         /\ DOMAIN withdrawals' = {j \in DOMAIN withdrawals : withdrawals[j].route # h}
         /\ \A j \in DOMAIN withdrawals' : withdrawals'[j] = withdrawals[j]
<1>1. /\ DOMAIN routes' = DOMAIN routes \ {h}
      /\ \A g \in DOMAIN routes' : routes'[g] = routes[g]
      /\ DOMAIN withdrawals' = {j \in DOMAIN withdrawals : withdrawals[j].route # h}
      /\ \A j \in DOMAIN withdrawals' : withdrawals'[j] = withdrawals[j]
      /\ UNCHANGED <<now, next_handle, next_token, round>>
  BY DEF ForceRemove, Without, DropItems
<1>2. WShape'
  BY <1>1 DEF Structure, WShape
<1>3. ItemsMatchRoutes'
  BY <1>1 DEF Structure, ItemsMatchRoutes
<1>4. OneItemEach'
  BY <1>1 DEF Structure, OneItemEach
<1>5. Live' = Live \ {h}
  BY <1>1 DEF Live
<1> QED
  BY <1>1, <1>2, <1>3, <1>4, <1>5 DEF Structure

(***************************************************************************)
(* Two versions of an item that are about the same records.                *)
(***************************************************************************)
SameRecords(a, b) ==
  /\ a.origin = b.origin /\ a.name = b.name /\ a.owned = b.owned
  /\ a.route = b.route /\ a.holds_name = b.holds_name /\ a.ceiling_at = b.ceiling_at

(* Items that keep their records keep the structure.                       *)
LEMMA SameRecordsStructure ==
  ASSUME Structure, UNCHANGED <<now, routes, next_handle, next_token>>,
         DOMAIN withdrawals' \subseteq DOMAIN withdrawals,
         \A j \in DOMAIN withdrawals' : /\ withdrawals'[j] \in ItemType
                                        /\ SameRecords(withdrawals'[j], withdrawals[j]),
         round' # None => round' \in RoundType /\ round'.token < next_token
  PROVE  Structure'
<1>1. WShape'
  BY DEF Structure, WShape
<1>2. ItemsMatchRoutes'
  BY DEF Structure, ItemsMatchRoutes, SameRecords
<1>3. OneItemEach'
  BY DEF Structure, OneItemEach, SameRecords
<1> QED
  BY <1>1, <1>2, <1>3 DEF Structure

(* One scan: which items change and how, what the round says, and what is  *)
(* given up.                                                               *)
LEMMA PollStep ==
  ASSUME Structure, PollWithdrawal
  PROVE  /\ DOMAIN withdrawals' = DOMAIN withdrawals
         /\ UNCHANGED <<now, routes, next_handle, next_token>> /\ round = None
         /\ \A j \in DOMAIN withdrawals :
              /\ withdrawals[j] \in ItemType /\ withdrawals'[j] \in ItemType
              /\ SameRecords(withdrawals'[j], withdrawals[j])
              /\ Owing(withdrawals'[j]) \subseteq Owing(withdrawals[j])
              /\ \/ withdrawals'[j] = withdrawals[j]
                 \/ /\ withdrawals'[j] = Skip(withdrawals[j]) /\ Selectable(withdrawals[j])
                    /\ round' = None \/ j # round'.token
                 \/ /\ round' = None \/ j = round'.token
                    /\ withdrawals'[j] =
                         [withdrawals[j] EXCEPT !.final_attempt = @ \/ AtCeiling(withdrawals[j])]
         /\ round' # None =>
              /\ round' \in RoundType
              /\ round'.token \in DOMAIN withdrawals /\ round'.token < next_token
              /\ Selectable(withdrawals[round'.token])
              /\ round'.name = withdrawals[round'.token].name
              /\ round'.kinds = Named(withdrawals[round'.token])
              /\ round'.debt = Owing(withdrawals[round'.token])
              /\ withdrawals'[round'.token] =
                   [withdrawals[round'.token] EXCEPT
                      !.final_attempt = @ \/ AtCeiling(withdrawals[round'.token])]
         /\ held' \subseteq held
         /\ \A r \in held', j \in DOMAIN withdrawals :
              /\ r \in Records(withdrawals[j].name, withdrawals[j].owned)
              /\ Named(withdrawals[j]) # {} /\ withdrawals'[j].owed # withdrawals[j].owed
              => \E h \in Live : r \in Records(routes[h].name, routes[h].goodbye)
<1> DEFINE first == CHOOSE j \in Emittable : \A k \in Emittable : j <= k
           Passed(j) == Selectable(withdrawals[j]) /\ (Emittable = {} \/ j < first)
           Last(j) == [withdrawals[j] EXCEPT !.final_attempt = @ \/ AtCeiling(withdrawals[j])]
           Lost == {i \in DOMAIN withdrawals : /\ Passed(i) /\ Named(withdrawals[i]) # {}
                                               /\ Skip(withdrawals[i]).owed = NothingOwed}
<1>1. /\ UNCHANGED <<now, routes, next_handle, next_token>> /\ round = None
      /\ withdrawals' = [j \in DOMAIN withdrawals |->
                           IF Passed(j) THEN Skip(withdrawals[j])
                           ELSE IF Emittable # {} /\ j = first THEN Last(j)
                           ELSE withdrawals[j]]
      /\ round' = IF Emittable = {} THEN None
                  ELSE [token |-> first, name |-> withdrawals[first].name,
                        kinds |-> Named(withdrawals[first]), debt |-> Owing(withdrawals[first])]
      /\ held' = GiveUp(UNION {Records(withdrawals[j].name, withdrawals[j].owned) : j \in Lost},
                        None)
  BY DEF PollWithdrawal
<1>2. Emittable # {} => first \in Emittable /\ first \in DOMAIN withdrawals /\ first \in Nat
                        /\ first < next_token
  <2>1. DOMAIN withdrawals \subseteq Nat /\ Emittable \subseteq DOMAIN withdrawals
        /\ DOMAIN withdrawals \subseteq 0 .. next_token - 1
    BY DEF Structure, WShape, Emittable
  <2>2. Emittable # {} => \E j \in Emittable : \A k \in Emittable : j <= k
    BY <2>1, LeastExists
  <2>3. Emittable # {} => first \in Emittable
    BY <2>2
  <2> HIDE DEF first
  <2> QED
    BY <2>1, <2>3 DEF Structure, WShape
<1>3. \A j \in DOMAIN withdrawals : withdrawals[j] \in ItemType /\ j \in Nat
  BY DEF Structure, WShape
<1>4. \A j \in DOMAIN withdrawals :
        /\ Last(j) \in ItemType /\ SameRecords(Last(j), withdrawals[j])
        /\ Last(j).owed = withdrawals[j].owed
  BY <1>3 DEF ItemType, SameRecords
<1>5. \A j \in DOMAIN withdrawals :
        /\ Skip(withdrawals[j]) \in ItemType /\ SameRecords(Skip(withdrawals[j]), withdrawals[j])
        /\ Skip(withdrawals[j]).owed \in {NothingOwed, withdrawals[j].owed}
        /\ Owing(Skip(withdrawals[j])) \subseteq Owing(withdrawals[j])
  BY <1>3, SkipType DEF Structure, SameRecords
<1>6. round' # None =>
        /\ Emittable # {} /\ round'.token = first
        /\ round'.name = withdrawals[first].name
        /\ round'.kinds = Named(withdrawals[first]) /\ round'.debt = Owing(withdrawals[first])
        /\ round' = [token |-> first, name |-> withdrawals[first].name,
                     kinds |-> Named(withdrawals[first]), debt |-> Owing(withdrawals[first])]
  <2> HIDE DEF first
  <2> QED
    BY <1>1
<1>7. ASSUME NEW j \in DOMAIN withdrawals
      PROVE  /\ withdrawals'[j] \in ItemType
             /\ SameRecords(withdrawals'[j], withdrawals[j])
             /\ Owing(withdrawals'[j]) \subseteq Owing(withdrawals[j])
             /\ \/ withdrawals'[j] = withdrawals[j]
                \/ /\ withdrawals'[j] = Skip(withdrawals[j]) /\ Selectable(withdrawals[j])
                   /\ Passed(j)
                   /\ round' = None \/ j # round'.token
                \/ (round' = None \/ j = round'.token) /\ withdrawals'[j] = Last(j)
  <2>1. CASE Passed(j)
    <3>1. withdrawals'[j] = Skip(withdrawals[j]) /\ Selectable(withdrawals[j])
      BY <1>1, <2>1
    <3>2. round' = None \/ j # round'.token
      <4> SUFFICES ASSUME round' # None PROVE j # first
        BY <1>6
      <4>1. Emittable # {} /\ j < first
        BY <1>6, <2>1
      <4> HIDE DEF first
      <4> QED
        BY <1>2, <1>3, <4>1
    <3> HIDE DEF Passed
    <3> QED
      BY <1>5, <2>1, <3>1, <3>2
  <2>2. CASE ~Passed(j) /\ Emittable # {} /\ j = first
    <3>1. withdrawals'[j] = Last(j)
      BY <1>1, <2>2
    <3>2. round' = None \/ j = round'.token
      BY <1>6, <2>2
    <3>3. Owing(Last(j)) \subseteq Owing(withdrawals[j])
      BY <1>4 DEF Owing
    <3> HIDE DEF Last
    <3> QED
      BY <1>4, <3>1, <3>2, <3>3
  <2>3. CASE ~Passed(j) /\ ~(Emittable # {} /\ j = first)
    <3>1. withdrawals'[j] = withdrawals[j]
      BY <1>1, <2>3
    <3> QED
      BY <1>3, <3>1 DEF SameRecords
  <2> QED
    BY <2>1, <2>2, <2>3
<1>8. ASSUME round' # None
      PROVE  /\ round' \in RoundType
             /\ round'.token \in DOMAIN withdrawals /\ round'.token < next_token
             /\ Selectable(withdrawals[round'.token])
             /\ round'.name = withdrawals[round'.token].name
             /\ round'.kinds = Named(withdrawals[round'.token])
             /\ round'.debt = Owing(withdrawals[round'.token])
             /\ withdrawals'[round'.token] = Last(round'.token)
  <2>1. Emittable # {} /\ round'.token = first /\ first \in DOMAIN withdrawals
        /\ first \in Nat /\ first < next_token /\ Selectable(withdrawals[first])
    BY <1>2, <1>6, <1>8 DEF Emittable
  <2>2. /\ withdrawals[first].name \in Nat
        /\ Named(withdrawals[first]) \subseteq AllKinds
        /\ Owing(withdrawals[first]) \subseteq Families
    BY <1>3, <2>1 DEF ItemType, Named, Owing, Retractable
  <2>3. ~Passed(first)
    <3> HIDE DEF first
    <3> QED
      BY <2>1 DEF Passed
  <2>4. withdrawals'[first] = Last(first)
    BY <1>1, <2>1, <2>3
  <2> HIDE DEF first, Last
  <2>5. round' \in RoundType
    BY <1>6, <1>8, <2>1, <2>2 DEF RoundType
  <2> QED
    BY <1>6, <1>8, <2>1, <2>4, <2>5
<1>9. held' \subseteq held
  BY <1>1 DEF GiveUp
<1>10. ASSUME NEW r \in held', NEW j \in DOMAIN withdrawals,
              r \in Records(withdrawals[j].name, withdrawals[j].owned),
              Named(withdrawals[j]) # {}, withdrawals'[j].owed # withdrawals[j].owed
       PROVE  \E h \in Live : r \in Records(routes[h].name, routes[h].goodbye)
  <2>1. withdrawals'[j] = Skip(withdrawals[j]) /\ Passed(j)
    BY <1>4, <1>7, <1>10
  <2>2. Skip(withdrawals[j]).owed = NothingOwed
    BY <1>5, <1>10, <2>1
  <2>3. j \in Lost
    BY <1>10, <2>1, <2>2
  <2>4. r \in UNION {Records(withdrawals[i].name, withdrawals[i].owned) : i \in Lost}
    BY <1>10, <2>3
  <2> HIDE DEF Lost
  <2> QED
    BY <1>1, <2>4 DEF GiveUp
<1> HIDE DEF first, Passed, Lost
<1> QED
  BY <1>1, <1>3, <1>7, <1>8, <1>9, <1>10

(* A confirmed round: the debts it pays and what peers no longer hold.     *)
LEMMA NoteStep ==
  ASSUME Structure, NEW outcome \in [Families -> Outcomes], NoteWithdrawalResult(outcome)
  PROVE  /\ DOMAIN withdrawals' = DOMAIN withdrawals
         /\ UNCHANGED <<now, routes, next_handle, next_token>> /\ round # None /\ round' = None
         /\ \A j \in DOMAIN withdrawals :
              /\ withdrawals[j] \in ItemType /\ withdrawals'[j] \in ItemType
              /\ SameRecords(withdrawals'[j], withdrawals[j])
              /\ Owing(withdrawals'[j]) \subseteq Owing(withdrawals[j])
              /\ withdrawals'[j].final_attempt = withdrawals[j].final_attempt
              /\ j # round.token => withdrawals'[j] = withdrawals[j]
              /\ j = round.token => withdrawals'[j] = Settled(withdrawals[j], outcome)
         /\ held' \subseteq held
         /\ \A k \in round.kinds, f \in round.debt :
              <<Owner(k, round.name), k, f>> \in held' =>
                /\ outcome[f] # "accepted"
                /\ outcome[f] = "no_socket" =>
                     \E h \in Live : <<Owner(k, round.name), k, f>>
                                        \in Records(routes[h].name, routes[h].goodbye)
<1> DEFINE mine == {round.token} \cap DOMAIN withdrawals
           reached == {f \in round.debt : outcome[f] = "accepted"}
           gone == {f \in round.debt : outcome[f] = "no_socket"}
<1>1. /\ UNCHANGED <<now, routes, next_handle, next_token>> /\ round # None /\ round' = None
      /\ withdrawals' = [j \in DOMAIN withdrawals |->
                           IF j \in mine THEN Settled(withdrawals[j], outcome)
                           ELSE withdrawals[j]]
      /\ held' = GiveUp(Records(round.name, round.kinds \X gone), None)
                   \ Records(round.name, round.kinds \X reached)
  BY DEF NoteWithdrawalResult
<1>2. \A j \in DOMAIN withdrawals : withdrawals[j] \in ItemType
  BY DEF Structure, WShape
<1>3. ASSUME NEW j \in DOMAIN withdrawals
      PROVE  /\ withdrawals'[j] \in ItemType
             /\ SameRecords(withdrawals'[j], withdrawals[j])
             /\ Owing(withdrawals'[j]) \subseteq Owing(withdrawals[j])
             /\ withdrawals'[j].final_attempt = withdrawals[j].final_attempt
             /\ j # round.token => withdrawals'[j] = withdrawals[j]
             /\ j = round.token => withdrawals'[j] = Settled(withdrawals[j], outcome)
  <2>1. CASE j = round.token
    <3>1. withdrawals'[j] = Settled(withdrawals[j], outcome)
      BY <1>1, <2>1
    <3> QED
      BY <1>2, <2>1, <3>1, SettledType DEF Structure, SameRecords
  <2>2. CASE j # round.token
    <3>1. withdrawals'[j] = withdrawals[j]
      BY <1>1, <2>2
    <3> QED
      BY <1>2, <2>2, <3>1 DEF SameRecords
  <2> QED
    BY <2>1, <2>2
<1>4. held' \subseteq held
  BY <1>1 DEF GiveUp
<1>5. ASSUME NEW k \in round.kinds, NEW f \in round.debt,
             <<Owner(k, round.name), k, f>> \in held'
      PROVE  /\ outcome[f] # "accepted"
             /\ outcome[f] = "no_socket" =>
                  \E h \in Live : <<Owner(k, round.name), k, f>>
                                     \in Records(routes[h].name, routes[h].goodbye)
  <2>1. \A S : f \in S => <<Owner(k, round.name), k, f>> \in Records(round.name, round.kinds \X S)
    <3> SUFFICES ASSUME NEW S, f \in S
                 PROVE  <<Owner(k, round.name), k, f>> \in Records(round.name, round.kinds \X S)
      OBVIOUS
    <3>1. <<k, f>> \in round.kinds \X S
      OBVIOUS
    <3> QED
      BY <3>1 DEF Records
  <2>2. outcome[f] # "accepted"
    BY <1>1, <1>5, <2>1
  <2>3. ASSUME outcome[f] = "no_socket"
        PROVE  \E h \in Live : <<Owner(k, round.name), k, f>>
                                  \in Records(routes[h].name, routes[h].goodbye)
    <3>1. f \in gone
      BY <2>3
    <3>2. <<Owner(k, round.name), k, f>> \in Records(round.name, round.kinds \X gone)
      BY <2>1, <3>1
    <3> HIDE DEF gone, reached
    <3> QED
      BY <1>1, <1>5, <3>2 DEF GiveUp
  <2> QED
    BY <2>2, <2>3
<1> QED
  BY <1>1, <1>2, <1>3, <1>4, <1>5

(* A sweep: completed items go, and with them their routes.                *)
LEMMA DrainStep ==
  ASSUME Structure, DrainCompleted
  PROVE  LET done == {j \in DOMAIN withdrawals : Completed(withdrawals[j])}
         IN /\ UNCHANGED <<now, next_handle, next_token, round, ceased>> /\ round = None
            /\ DOMAIN withdrawals' = DOMAIN withdrawals \ done
            /\ \A j \in DOMAIN withdrawals' : withdrawals'[j] = withdrawals[j]
            /\ DOMAIN routes' \subseteq DOMAIN routes
            /\ \A h \in DOMAIN routes' : routes'[h] = routes[h]
            /\ \A h \in DOMAIN routes : h \notin DOMAIN routes' =>
                 /\ routes[h].withdrawing
                 /\ \E j \in done : withdrawals[j].route = h
            /\ \A j \in done : withdrawals[j].route \notin DOMAIN routes'
            /\ Live' = Live
            /\ held' \subseteq held
            /\ \A r \in held', j \in done, k \in AllKinds : \A f \in Owing(withdrawals[j]) :
                 <<k, f>> \in withdrawals[j].owned
                   /\ r = <<Owner(k, withdrawals[j].name), k, f>>
                 => \E h \in Live : r \in Records(routes[h].name, routes[h].goodbye)
<1> DEFINE done == {j \in DOMAIN withdrawals : Completed(withdrawals[j])}
           freed == {withdrawals[j].route : j \in done} \ {None}
           unpaid == UNION {Records(withdrawals[j].name,
                               {g \in withdrawals[j].owned : g[2] \in Owing(withdrawals[j])}) :
                         j \in done}
<1>1. /\ UNCHANGED <<now, next_handle, next_token, round, ceased>> /\ round = None
      /\ withdrawals' = [j \in DOMAIN withdrawals \ done |-> withdrawals[j]]
      /\ routes' = [h \in DOMAIN routes \ freed |-> routes[h]]
      /\ held' = GiveUp(unpaid, None)
  BY DEF DrainCompleted
<1>2. DOMAIN routes \subseteq Nat
  BY DEF Structure, WShape
<1>3. \A h \in DOMAIN routes : h \notin DOMAIN routes' =>
         routes[h].withdrawing /\ \E j \in done : withdrawals[j].route = h
  BY <1>1 DEF Structure, ItemsMatchRoutes
<1>4. \A j \in done : withdrawals[j].route \notin DOMAIN routes'
  BY <1>1, <1>2, ClockAssumption
<1>5. Live' = Live
  <2>1. DOMAIN routes' \subseteq DOMAIN routes /\ \A h \in DOMAIN routes' : routes'[h] = routes[h]
    BY <1>1
  <2> QED
    BY <1>3, <2>1 DEF Live
<1>6. held' \subseteq held
  BY <1>1 DEF GiveUp
<1>7. ASSUME NEW r \in held', NEW j \in done, NEW f \in Owing(withdrawals[j]), NEW k \in AllKinds,
             <<k, f>> \in withdrawals[j].owned, r = <<Owner(k, withdrawals[j].name), k, f>>
      PROVE  \E h \in Live : r \in Records(routes[h].name, routes[h].goodbye)
  <2>1. <<k, f>> \in {g \in withdrawals[j].owned : g[2] \in Owing(withdrawals[j])}
    BY <1>7
  <2>2. r \in Records(withdrawals[j].name,
                      {g \in withdrawals[j].owned : g[2] \in Owing(withdrawals[j])})
    BY <1>7, <2>1 DEF Records
  <2>3. r \in unpaid
    BY <2>2
  <2> HIDE DEF unpaid
  <2> QED
    BY <1>1, <2>3 DEF GiveUp
<1>8. /\ DOMAIN withdrawals' = DOMAIN withdrawals \ done
      /\ \A j \in DOMAIN withdrawals' : withdrawals'[j] = withdrawals[j]
      /\ DOMAIN routes' \subseteq DOMAIN routes
      /\ \A h \in DOMAIN routes' : routes'[h] = routes[h]
  BY <1>1
<1> HIDE DEF done, freed, unpaid
<1>9. UNCHANGED <<now, next_handle, next_token, round, ceased>> /\ round = None
  BY <1>1
<1> QED
  BY <1>3, <1>4, <1>5, <1>6, <1>7, <1>8, <1>9 DEF done

LEMMA TickStep ==
  ASSUME Structure, Tick
  PROVE  /\ now' = now + 1 /\ now' \in Instant
         /\ UNCHANGED <<routes, next_handle, withdrawals, next_token, round, held>>
<1>1. now' = now + 1 /\ now < MaxInstant /\ now \in Instant
  BY DEF Tick, Structure, WShape
<1>2. now' \in Instant
  BY <1>1, ClockAssumption DEF Instant
<1> QED
  BY <1>1, <1>2 DEF Tick

(* Every step keeps the structure.                                         *)
LEMMA StructureStep == Structure /\ [Next]_vars => Structure'
<1> SUFFICES ASSUME Structure, [Next]_vars PROVE Structure'
  OBVIOUS
<1>1. ASSUME NEW n \in RegNames, Register(n) PROVE Structure'
  BY <1>1, RegisterStructure
<1>2. ASSUME NEW h \in Live, NEW kinds \in EmitSets, NEW on \in SUBSET Families \ {{}},
             Transmitted(h, kinds, on)
      PROVE  Structure'
  BY <1>2, TransmittedStructure
<1>3. ASSUME NEW h \in Live, Defeated(h) PROVE Structure'
  BY <1>3, DefeatedStructure
<1>4. ASSUME NEW h \in Live, Unregister(h) PROVE Structure'
  BY <1>4, UnregisterStructure
<1>5. ASSUME NEW h \in DOMAIN routes, ForceRemove(h) PROVE Structure'
  BY <1>5, ForceRemoveStructure
<1>6. CASE PollWithdrawal
  <2>1. /\ DOMAIN withdrawals' = DOMAIN withdrawals
        /\ UNCHANGED <<now, routes, next_handle, next_token>>
        /\ \A j \in DOMAIN withdrawals :
             withdrawals'[j] \in ItemType /\ SameRecords(withdrawals'[j], withdrawals[j])
        /\ round' # None => round' \in RoundType /\ round'.token < next_token
    BY <1>6, PollStep
  <2> QED
    BY <2>1, SameRecordsStructure
<1>7. ASSUME NEW outcome \in [Families -> Outcomes], NoteWithdrawalResult(outcome)
      PROVE  Structure'
  <2>1. /\ DOMAIN withdrawals' = DOMAIN withdrawals
        /\ UNCHANGED <<now, routes, next_handle, next_token>> /\ round' = None
        /\ \A j \in DOMAIN withdrawals :
             withdrawals'[j] \in ItemType /\ SameRecords(withdrawals'[j], withdrawals[j])
    BY <1>7, NoteStep
  <2> QED
    BY <2>1, SameRecordsStructure
<1>8. CASE DrainCompleted
  <2>1. /\ UNCHANGED <<now, next_handle, next_token, round>> /\ round = None
        /\ DOMAIN withdrawals' \subseteq DOMAIN withdrawals
        /\ \A j \in DOMAIN withdrawals' : withdrawals'[j] = withdrawals[j]
                                          /\ ~Completed(withdrawals[j])
        /\ DOMAIN routes' \subseteq DOMAIN routes
        /\ \A h \in DOMAIN routes' : routes'[h] = routes[h]
    BY <1>8, DrainStep
  <2>2. WShape'
    BY <2>1 DEF Structure, WShape
  <2>3. OneItemEach'
    BY <2>1 DEF Structure, OneItemEach
  <2>4. \A j \in DOMAIN withdrawals', h \in DOMAIN routes :
          withdrawals[j].route = h => h \in DOMAIN routes'
    <3>1. \A h \in DOMAIN routes : h \notin DOMAIN routes' =>
            \E i \in DOMAIN withdrawals : Completed(withdrawals[i]) /\ withdrawals[i].route = h
      BY <1>8, DrainStep
    <3>2. \A h \in DOMAIN routes : h # None
      BY ClockAssumption DEF Structure, WShape
    <3> QED
      BY <2>1, <3>1, <3>2 DEF Structure, OneItemEach
  <2>5. ItemsMatchRoutes'
    BY <2>1, <2>4 DEF Structure, ItemsMatchRoutes
  <2> QED
    BY <2>2, <2>3, <2>5 DEF Structure
<1>9. CASE Tick
  BY <1>9, TickStep DEF Structure, WShape, ItemsMatchRoutes, OneItemEach
<1>10. CASE UNCHANGED vars
  BY <1>10 DEF vars, Structure, WShape, ItemsMatchRoutes, OneItemEach
<1> QED
  BY <1>1, <1>2, <1>3, <1>4, <1>5, <1>6, <1>7, <1>8, <1>9, <1>10 DEF Next

-----------------------------------------------------------------------------
(* Coverage of instance records.                                           *)

LEMMA RecordsElim ==
  ASSUME NEW name, NEW owned \in SUBSET OnWire, NEW r \in Records(name, owned)
  PROVE  \E k \in AllKinds, f \in Families :
           <<k, f>> \in owned /\ r = <<Owner(k, name), k, f>>
<1>1. PICK g \in owned : r = <<Owner(g[1], name), g[1], g[2]>>
  BY DEF Records
<1>2. PICK k \in AllKinds, f \in Families : g = <<k, f>>
  BY <1>1 DEF OnWire
<1>3. r = <<Owner(k, name), k, f>>
  BY <1>1, <1>2
<1> QED
  BY <1>2, <1>3

LEMMA RecordsIntro ==
  ASSUME NEW name, NEW owned, NEW k, NEW f, <<k, f>> \in owned
  PROVE  <<Owner(k, name), k, f>> \in Records(name, owned)
BY DEF Records

LEMMA RecordsGrow ==
  ASSUME NEW name, NEW small, NEW large, small \subseteq large
  PROVE  Records(name, small) \subseteq Records(name, large)
BY DEF Records

(* A complete announcement by a live route is on record.                   *)
LEMMA FullStep == Structure /\ FullMeansAll /\ [Next]_vars => FullMeansAll'
<1> SUFFICES ASSUME Structure, FullMeansAll, [Next]_vars PROVE FullMeansAll'
  OBVIOUS
<1>1. ASSUME NEW n \in RegNames, Register(n) PROVE FullMeansAll'
  <2>1. /\ DOMAIN routes' = DOMAIN routes \cup {next_handle}
        /\ \A h \in DOMAIN routes : h # next_handle => routes'[h] = routes[h]
        /\ routes'[next_handle].full = FALSE
    BY <1>1 DEF Register
  <2> QED
    BY <2>1 DEF FullMeansAll, Live
<1>2. ASSUME NEW h \in Live, NEW kinds \in EmitSets, NEW on \in SUBSET Families \ {{}},
             Transmitted(h, kinds, on)
      PROVE  FullMeansAll'
  <2> DEFINE exposed == (kinds \cap Published(h)) \X on
  <2>1. /\ Live' = Live /\ DOMAIN routes' = DOMAIN routes
        /\ \A g \in DOMAIN routes : g # h => routes'[g] = routes[g]
        /\ routes'[h].goodbye = routes[h].goodbye \cup exposed
        /\ routes'[h].full = (routes[h].full
                                \/ (kinds \cap Published(h) = Published(h) /\ on = Families))
    BY <1>2, TransmittedStep
  <2>2. routes'[h].full => Published(h) \X Families \subseteq routes'[h].goodbye
    BY <2>1 DEF FullMeansAll
  <2> QED
    BY <2>1, <2>2 DEF FullMeansAll, Live
<1>3. ASSUME NEW h \in Live, Defeated(h) PROVE FullMeansAll'
  <2>1. /\ Live' = Live /\ \A g \in DOMAIN routes : g # h => routes'[g] = routes[g]
        /\ routes'[h].full = FALSE
    BY <1>3, DefeatedStep
  <2> QED
    BY <2>1 DEF FullMeansAll, Live
<1>4. ASSUME NEW h \in Live, Unregister(h) PROVE FullMeansAll'
  <2>1. Live' = Live \ {h} /\ \A g \in DOMAIN routes : g # h => routes'[g] = routes[g]
    BY <1>4, UnregisterStep
  <2> QED
    BY <2>1 DEF FullMeansAll, Live
<1>5. ASSUME NEW h \in DOMAIN routes, ForceRemove(h) PROVE FullMeansAll'
  BY <1>5, ForceRemoveStructure DEF FullMeansAll, Live
<1>6. CASE PollWithdrawal
  BY <1>6 DEF PollWithdrawal, FullMeansAll, Live
<1>7. ASSUME NEW outcome \in [Families -> Outcomes], NoteWithdrawalResult(outcome)
      PROVE  FullMeansAll'
  BY <1>7 DEF NoteWithdrawalResult, FullMeansAll, Live
<1>8. CASE DrainCompleted
  BY <1>8, DrainStep DEF FullMeansAll, Live
<1>9. CASE Tick
  BY <1>9 DEF Tick, FullMeansAll, Live
<1>10. CASE UNCHANGED vars
  BY <1>10 DEF vars, FullMeansAll, Live
<1> QED
  BY <1>1, <1>2, <1>3, <1>4, <1>5, <1>6, <1>7, <1>8, <1>9, <1>10 DEF Next

(* The round stays true of its item while the item only shrinks.           *)
LEMMA RoundKept ==
  ASSUME RoundSpeaks, round' = round,
         round # None /\ round.token \in DOMAIN withdrawals' =>
           /\ round.token \in DOMAIN withdrawals
           /\ withdrawals'[round.token].name = withdrawals[round.token].name
           /\ withdrawals'[round.token].owned \subseteq withdrawals[round.token].owned
           /\ Owing(withdrawals'[round.token]) \subseteq Owing(withdrawals[round.token])
  PROVE  RoundSpeaks'
<1> SUFFICES ASSUME round # None, round.token \in DOMAIN withdrawals'
             PROVE  LET item == withdrawals'[round.token]
                    IN /\ round.name = item.name
                       /\ Owing(item) \subseteq round.debt
                       /\ \A f \in Owing(item), k \in {"ptr", "srv", "sub"} :
                            <<k, f>> \in item.owned => k \in round.kinds
  BY DEF RoundSpeaks, Owing
<1> QED
  BY DEF RoundSpeaks

LEMMA RoundSpeaksStep == Structure /\ RoundSpeaks /\ [Next]_vars => RoundSpeaks'
<1> SUFFICES ASSUME Structure, RoundSpeaks, [Next]_vars PROVE RoundSpeaks'
  OBVIOUS
<1>0. \A j \in DOMAIN withdrawals : withdrawals[j] \in ItemType /\ j < next_token
  BY DEF Structure, WShape
<1>1. ASSUME NEW n \in RegNames, Register(n) PROVE RoundSpeaks'
  <2>1. round' = round /\ withdrawals' = withdrawals
    BY <1>1 DEF Register
  <2> QED
    BY <2>1, RoundKept
<1>2. ASSUME NEW h \in Live, NEW kinds \in EmitSets, NEW on \in SUBSET Families \ {{}},
             Transmitted(h, kinds, on)
      PROVE  RoundSpeaks'
  <2>1. round' = round
    BY <1>2 DEF Transmitted
  <2>2. CASE withdrawals' = withdrawals
    BY <2>1, <2>2, RoundKept
  <2>3. CASE withdrawals' = reclaim_detached_goodbyes(withdrawals, h, routes[h].name)
    <3>1. \A j \in DOMAIN withdrawals' :
            /\ j \in DOMAIN withdrawals
            /\ withdrawals'[j] = withdrawals[j] \/ withdrawals'[j] = Narrowed(withdrawals[j], h)
      BY <2>3, Reclaimed DEF Structure
    <3>2. \A j \in DOMAIN withdrawals' :
            /\ withdrawals'[j].name = withdrawals[j].name
            /\ withdrawals'[j].owned \subseteq withdrawals[j].owned
            /\ Owing(withdrawals'[j]) \subseteq Owing(withdrawals[j])
      BY <1>0, <3>1, NarrowedType
    <3> QED
      BY <2>1, <3>1, <3>2, RoundKept
  <2> QED
    BY <1>2, <2>2, <2>3, TransmittedStep
<1>3. ASSUME NEW h \in Live, Defeated(h) PROVE RoundSpeaks'
  <2>1. round' = round
    BY <1>3 DEF Defeated
  <2>2. PICK item \in ItemType : withdrawals' = withdrawals \/ Enqueue(item)
    BY <1>3, DefeatedStep
  <2>3. \A j \in DOMAIN withdrawals' :
          \/ j \in DOMAIN withdrawals /\ withdrawals'[j] = withdrawals[j]
          \/ j = next_token
    BY <2>2, EnqueueStep DEF Structure
  <2>4. round # None => round.token # next_token
    BY DEF Structure, WShape, RoundType
  <2> QED
    BY <2>1, <2>3, <2>4, RoundKept
<1>4. ASSUME NEW h \in Live, Unregister(h) PROVE RoundSpeaks'
  <2>1. round' = round
    BY <1>4 DEF Unregister
  <2>2. PICK item \in ItemType : Enqueue(item)
    BY <1>4, UnregisterStep
  <2>3. \A j \in DOMAIN withdrawals' :
          \/ j \in DOMAIN withdrawals /\ withdrawals'[j] = withdrawals[j]
          \/ j = next_token
    BY <2>2, EnqueueStep DEF Structure
  <2>4. round # None => round.token # next_token
    BY DEF Structure, WShape, RoundType
  <2> QED
    BY <2>1, <2>3, <2>4, RoundKept
<1>5. ASSUME NEW h \in DOMAIN routes, ForceRemove(h) PROVE RoundSpeaks'
  <2>1. round' = round
    BY <1>5 DEF ForceRemove
  <2>2. \A j \in DOMAIN withdrawals' : j \in DOMAIN withdrawals /\ withdrawals'[j] = withdrawals[j]
    BY <1>5, ForceRemoveStructure
  <2> QED
    BY <2>1, <2>2, RoundKept
<1>6. CASE PollWithdrawal
  <2> SUFFICES ASSUME round' # None, round'.token \in DOMAIN withdrawals'
               PROVE  LET item == withdrawals'[round'.token]
                      IN /\ round'.name = item.name
                         /\ Owing(item) \subseteq round'.debt
                         /\ \A f \in Owing(item), k \in {"ptr", "srv", "sub"} :
                              <<k, f>> \in item.owned => k \in round'.kinds
    BY DEF RoundSpeaks, Owing
  <2> DEFINE old == withdrawals[round'.token]
             new == withdrawals'[round'.token]
  <2>1. /\ SameRecords(new, old) /\ Owing(new) \subseteq Owing(old)
        /\ round'.name = old.name /\ round'.kinds = Named(old) /\ round'.debt = Owing(old)
    BY <1>6, PollStep
  <2>2. \A f \in Owing(old), k \in {"ptr", "srv", "sub"} :
          <<k, f>> \in old.owned => k \in Named(old)
    BY DEF Named, Retractable, AllKinds
  <2> HIDE DEF old, new
  <2>3. /\ round'.name = new.name
        /\ Owing(new) \subseteq round'.debt
        /\ \A f \in Owing(new), k \in {"ptr", "srv", "sub"} :
             <<k, f>> \in new.owned => k \in round'.kinds
    BY <2>1, <2>2 DEF SameRecords
  <2> QED
    BY <2>3 DEF new
<1>7. ASSUME NEW outcome \in [Families -> Outcomes], NoteWithdrawalResult(outcome)
      PROVE  RoundSpeaks'
  BY <1>7 DEF NoteWithdrawalResult, RoundSpeaks
<1>8. CASE DrainCompleted
  BY <1>8 DEF DrainCompleted, RoundSpeaks
<1>9. CASE Tick
  BY <1>9 DEF Tick, RoundSpeaks, Owing
<1>10. CASE UNCHANGED vars
  BY <1>10 DEF vars, RoundSpeaks, Owing
<1> QED
  BY <1>1, <1>2, <1>3, <1>4, <1>5, <1>6, <1>7, <1>8, <1>9, <1>10 DEF Next

Cover == FullMeansAll /\ RoundSpeaks /\ InstanceRecordsCovered

(* What a datagram exposes is the route's to retract; a complete           *)
(* announcement takes over what it carries and leaves the rest owed.       *)
LEMMA TransmittedCover ==
  ASSUME Structure, Cover, FullMeansAll', NEW h \in Live, NEW kinds \in EmitSets,
         NEW on \in SUBSET Families, Transmitted(h, kinds, on)
  PROVE  InstanceRecordsCovered'
<1> DEFINE exposed == (kinds \cap Published(h)) \X on
<1>1. /\ Live' = Live /\ DOMAIN routes' = DOMAIN routes /\ h \in Live'
      /\ \A g \in DOMAIN routes : g # h => routes'[g] = routes[g]
      /\ routes'[h] \in RouteType /\ routes'[h].name = routes[h].name
      /\ routes'[h].goodbye = routes[h].goodbye \cup exposed
      /\ exposed \subseteq OnWire
      /\ \/ withdrawals' = withdrawals
         \/ /\ routes'[h].full
            /\ withdrawals' = reclaim_detached_goodbyes(withdrawals, h, routes[h].name)
  BY TransmittedStep
<1>2. held' = held \cup Records(routes[h].name, exposed)
  BY DEF Transmitted
<1>3. /\ \A g \in Live : routes[g] \in RouteType /\ routes[g].goodbye \in SUBSET OnWire
      /\ \A j \in DOMAIN withdrawals :
           withdrawals[j] \in ItemType /\ withdrawals[j].owned \in SUBSET OnWire
  BY DEF Structure, WShape, Live, RouteType, ItemType
<1>4. routes'[h].goodbye \in SUBSET OnWire
  BY <1>1 DEF RouteType
<1> SUFFICES ASSUME NEW r \in held', r[2] \in {"ptr", "srv", "sub"}
             PROVE  Covered(r)'
  BY DEF InstanceRecordsCovered
<1>5. CASE r \in Records(routes[h].name, exposed)
  <2>1. r \in Records(routes'[h].name, routes'[h].goodbye)
    BY <1>1, <1>5, RecordsGrow
  <2> QED
    BY <1>1, <2>1 DEF Covered
<1>6. ASSUME NEW g \in Live, r \in Records(routes[g].name, routes[g].goodbye)
      PROVE  Covered(r)'
  <2>1. r \in Records(routes'[g].name, routes'[g].goodbye)
    BY <1>1, <1>6, RecordsGrow DEF Live
  <2> QED
    BY <1>1, <2>1 DEF Covered
<1>7. ASSUME NEW j \in DOMAIN withdrawals,
             r \in Records(withdrawals[j].name, withdrawals[j].owned),
             r[3] \in Owing(withdrawals[j])
      PROVE  Covered(r)'
  <2>1. CASE j \in DOMAIN withdrawals' /\ withdrawals'[j] = withdrawals[j]
    BY <1>7, <2>1 DEF Covered, Owing
  <2>2. CASE ~(j \in DOMAIN withdrawals' /\ withdrawals'[j] = withdrawals[j])
    <3>1. routes'[h].full /\ Reclaimable(withdrawals[j], routes[h].name)
      BY <1>1, <1>7, <2>2, Reclaimed DEF Structure
    <3>2. PICK k \in AllKinds, f \in Families :
            <<k, f>> \in withdrawals[j].owned /\ r = <<Owner(k, withdrawals[j].name), k, f>>
      BY <1>3, <1>7, RecordsElim
    <3>3. k \in {"ptr", "srv", "sub"} /\ f \in Owing(withdrawals[j])
          /\ r = <<routes[h].name, k, f>>
      BY <1>7, <3>1, <3>2 DEF Owner, Reclaimable
    <3>4. CASE k \in Published(h)
      <4>1. <<k, f>> \in routes'[h].goodbye
        BY <1>1, <3>1, <3>2, <3>4 DEF FullMeansAll
      <4>2. r \in Records(routes'[h].name, routes'[h].goodbye)
        BY <1>1, <1>4, <3>2, <3>3, <4>1, RecordsIntro DEF Owner
      <4> QED
        BY <1>1, <4>2 DEF Covered
    <3>5. CASE k \notin Published(h)
      <4>1. k = "sub" /\ h \notin Subtyped
        BY <3>2, <3>3, <3>5 DEF Published, AllKinds
      <4> DEFINE new == Narrowed(withdrawals[j], h)
      <4>2. /\ new \in ItemType /\ new.name = withdrawals[j].name
            /\ <<k, f>> \in new.owned /\ f \in Owing(new)
        BY <1>3, <3>2, <3>3, <4>1, NarrowedType
      <4>3. new.owned \in SUBSET OnWire /\ new.owed # NothingOwed
        BY <4>2 DEF ItemType, Owing, NothingOwed
      <4> HIDE DEF new
      <4>4. j \in DOMAIN withdrawals' /\ withdrawals'[j] = new
        BY <1>1, <1>7, <2>2, <3>1, <4>3, Reclaimed DEF Structure, new
      <4>5. r \in Records(new.name, new.owned) /\ r[3] = f
        BY <3>2, <3>3, <4>2, <4>3, RecordsIntro
      <4> QED
        BY <4>2, <4>4, <4>5 DEF Covered, Owing
    <3> QED
      BY <3>4, <3>5
  <2> QED
    BY <2>1, <2>2
<1>8. r \in held => Covered(r)
  BY DEF Cover, InstanceRecordsCovered
<1> QED
  BY <1>2, <1>5, <1>6, <1>7, <1>8 DEF Covered

(* A rename hands what the old name exposed to an item that owes it.       *)
LEMMA DefeatedCover ==
  ASSUME Structure, Cover, NEW h \in Live, Defeated(h)
  PROVE  InstanceRecordsCovered'
<1> DEFINE n == IF Chosen(h) > LastSuffix THEN routes[h].name ELSE Chosen(h)
           item == NewItem(h, routes[h].name, Handoff(h), None, HoldsName(h, n))
<1>1. /\ h \in DOMAIN routes /\ Live' = Live /\ DOMAIN routes' = DOMAIN routes
      /\ \A g \in DOMAIN routes : g # h => routes'[g] = routes[g]
      /\ routes[h] \in RouteType /\ Handoff(h) \in SUBSET OnWire /\ item \in ItemType
      /\ \/ item.owed = NothingOwed /\ UNCHANGED <<withdrawals, next_token>>
         \/ item.owed # NothingOwed /\ Enqueue(item)
  BY DefeatedStep
<1>2. held' = held
  BY DEF Defeated
<1>3. item.name = routes[h].name /\ item.owned = Handoff(h)
  BY DEF NewItem
<1>4. \A f \in Families, k \in Retractable : <<k, f>> \in Handoff(h) => f \in Owing(item)
  <2>1. h \in Nat /\ routes[h].name \in Nat /\ HoldsName(h, n) \in BOOLEAN
    BY <1>1 DEF Structure, WShape, RouteType, HoldsName
  <2> HIDE DEF n
  <2> QED
    BY <1>1, <2>1, NewItemType DEF Structure
<1> HIDE DEF item, n
<1>5. \A j \in DOMAIN withdrawals : j \in DOMAIN withdrawals' /\ withdrawals'[j] = withdrawals[j]
  BY <1>1, EnqueueStep DEF Structure
<1> SUFFICES ASSUME NEW r \in held, r[2] \in {"ptr", "srv", "sub"}
             PROVE  Covered(r)'
  BY <1>2 DEF InstanceRecordsCovered
<1>6. ASSUME NEW g \in Live, r \in Records(routes[g].name, routes[g].goodbye)
      PROVE  Covered(r)'
  <2>1. CASE g # h
    BY <1>1, <1>6, <2>1 DEF Covered, Live
  <2>2. CASE g = h
    <3>1. routes[h].goodbye \in SUBSET OnWire
      BY <1>1 DEF RouteType
    <3>2. PICK k \in AllKinds, f \in Families :
            <<k, f>> \in routes[h].goodbye /\ r = <<Owner(k, routes[h].name), k, f>>
      BY <1>6, <2>2, <3>1, RecordsElim
    <3>3. k \in {"ptr", "srv", "sub"}
      BY <3>2
    <3>4. <<k, f>> \in Handoff(h) /\ f \in Owing(item)
      BY <1>4, <3>2, <3>3 DEF Handoff, InstanceKinds, AllKinds, Retractable
    <3>5. item.owed # NothingOwed
      BY <3>4 DEF Owing, NothingOwed
    <3>6. next_token \in DOMAIN withdrawals' /\ withdrawals'[next_token] = item
      BY <1>1, <3>5, EnqueueStep DEF Structure
    <3>7. r \in Records(item.name, item.owned) /\ r[3] = f
      BY <1>1, <1>3, <3>2, <3>4, RecordsIntro
    <3> QED
      BY <3>4, <3>6, <3>7 DEF Covered, Owing
  <2> QED
    BY <2>1, <2>2
<1>7. ASSUME NEW j \in DOMAIN withdrawals,
             r \in Records(withdrawals[j].name, withdrawals[j].owned),
             r[3] \in Owing(withdrawals[j])
      PROVE  Covered(r)'
  BY <1>5, <1>7 DEF Covered, Owing
<1>8. Covered(r)
  BY DEF Cover, InstanceRecordsCovered
<1> QED
  BY <1>6, <1>7, <1>8 DEF Covered

(***************************************************************************)
(* A record covered by a live route, or by an item other than t.           *)
(***************************************************************************)
CoveredBesides(r, t) ==
  \/ \E h \in Live : r \in Records(routes[h].name, routes[h].goodbye)
  \/ \E j \in DOMAIN withdrawals \ {t} :
       /\ r \in Records(withdrawals[j].name, withdrawals[j].owned)
       /\ r[3] \in Owing(withdrawals[j])

LEMMA CoveredAtAll ==
  ASSUME WShape, NEW r
  PROVE  Covered(r) <=> CoveredBesides(r, None)
<1>1. None \notin DOMAIN withdrawals
  BY ClockAssumption DEF WShape
<1> QED
  BY <1>1 DEF Covered, CoveredBesides

(* A leaving route's records become its item's.                            *)
LEMMA UnregisterCover ==
  ASSUME Structure, NEW h \in Live, Unregister(h), NEW r, NEW t, t # next_token,
         CoveredBesides(r, t), r[2] # "nsec"
  PROVE  CoveredBesides(r, t)'
<1> DEFINE item == NewItem(h, routes[h].name, routes[h].goodbye, h, FALSE)
<1>1. /\ h \in DOMAIN routes /\ routes[h] \in RouteType
      /\ Live' = Live \ {h}
      /\ \A g \in DOMAIN routes : g # h => routes'[g] = routes[g]
      /\ item \in ItemType /\ Enqueue(item)
  BY UnregisterStep
<1>2. item.name = routes[h].name /\ item.owned = routes[h].goodbye
  BY DEF NewItem
<1>3. \A f \in Families, k \in Retractable : <<k, f>> \in routes[h].goodbye => f \in Owing(item)
  <2>1. h \in Nat /\ routes[h].name \in Nat /\ routes[h].goodbye \in SUBSET OnWire
    BY <1>1 DEF Structure, WShape, RouteType
  <2> QED
    BY <2>1, NewItemType DEF Structure
<1> HIDE DEF item
<1>4. /\ \A j \in DOMAIN withdrawals : j \in DOMAIN withdrawals' /\ withdrawals'[j] = withdrawals[j]
      /\ next_token \in DOMAIN withdrawals' /\ withdrawals'[next_token] = item
  BY <1>1, EnqueueStep DEF Structure
<1>5. ASSUME NEW g \in Live, r \in Records(routes[g].name, routes[g].goodbye)
      PROVE  CoveredBesides(r, t)'
  <2>1. CASE g # h
    BY <1>1, <1>5, <2>1 DEF CoveredBesides, Live
  <2>2. CASE g = h
    <3>1. routes[h].goodbye \in SUBSET OnWire
      BY <1>1 DEF RouteType
    <3>2. PICK k \in AllKinds, f \in Families :
            <<k, f>> \in routes[h].goodbye /\ r = <<Owner(k, routes[h].name), k, f>>
      BY <1>5, <2>2, <3>1, RecordsElim
    <3>3. f \in Owing(item) /\ r[3] = f
      BY <1>3, <3>2 DEF Retractable
    <3> QED
      BY <1>2, <1>4, <1>5, <2>2, <3>3 DEF CoveredBesides, Owing
  <2> QED
    BY <2>1, <2>2
<1>6. ASSUME NEW j \in DOMAIN withdrawals \ {t},
             r \in Records(withdrawals[j].name, withdrawals[j].owned),
             r[3] \in Owing(withdrawals[j])
      PROVE  CoveredBesides(r, t)'
  BY <1>4, <1>6 DEF CoveredBesides, Owing
<1> QED
  BY <1>5, <1>6 DEF CoveredBesides

(* What a forced removal gives up is what nobody else publishes.           *)
LEMMA ForceRemoveCover ==
  ASSUME Structure, NEW h \in DOMAIN routes, ForceRemove(h), NEW r \in held', NEW t,
         CoveredBesides(r, t)
  PROVE  CoveredBesides(r, t)'
<1>1. /\ Live' = Live \ {h}
      /\ \A g \in DOMAIN routes' : routes'[g] = routes[g]
      /\ DOMAIN withdrawals' = {j \in DOMAIN withdrawals : withdrawals[j].route # h}
      /\ \A j \in DOMAIN withdrawals' : withdrawals'[j] = withdrawals[j]
      /\ Live' \subseteq DOMAIN routes'
  BY ForceRemoveStructure DEF Live
<1>2. r \in Records(routes[h].name, routes[h].goodbye) =>
        \E g \in Live \ {h} : r \in Records(routes[g].name, routes[g].goodbye)
  BY DEF ForceRemove, GiveUp
<1>3. ASSUME NEW g \in Live \ {h}, r \in Records(routes[g].name, routes[g].goodbye)
      PROVE  CoveredBesides(r, t)'
  BY <1>1, <1>3 DEF CoveredBesides
<1>4. ASSUME NEW j \in DOMAIN withdrawals \ {t},
             r \in Records(withdrawals[j].name, withdrawals[j].owned),
             r[3] \in Owing(withdrawals[j])
      PROVE  CoveredBesides(r, t)'
  <2>1. CASE withdrawals[j].route # h
    BY <1>1, <1>4, <2>1 DEF CoveredBesides, Owing
  <2>2. CASE withdrawals[j].route = h
    <3>1. h # None
      BY ClockAssumption DEF Structure, WShape
    <3>2. r \in Records(routes[h].name, routes[h].goodbye)
      BY <1>4, <2>2, <3>1 DEF Structure, ItemsMatchRoutes
    <3> QED
      BY <1>2, <1>3, <3>2
  <2> QED
    BY <2>1, <2>2
<1> QED
  BY <1>2, <1>3, <1>4 DEF CoveredBesides

(* The scan drops a debt only where nothing is named or it is given up.    *)
LEMMA PollCover ==
  ASSUME Structure, PollWithdrawal, NEW r \in held', Covered(r),
         r[2] \in {"ptr", "srv", "sub"}
  PROVE  Covered(r)'
<1>1. /\ DOMAIN withdrawals' = DOMAIN withdrawals /\ routes' = routes /\ Live' = Live
      /\ \A j \in DOMAIN withdrawals :
           /\ withdrawals[j] \in ItemType
           /\ SameRecords(withdrawals'[j], withdrawals[j])
           /\ Named(withdrawals[j]) # {} /\ withdrawals'[j].owed # withdrawals[j].owed
              /\ r \in Records(withdrawals[j].name, withdrawals[j].owned)
              => \E h \in Live : r \in Records(routes[h].name, routes[h].goodbye)
  BY PollStep DEF Live
<1>2. ASSUME NEW g \in Live, r \in Records(routes[g].name, routes[g].goodbye)
      PROVE  Covered(r)'
  BY <1>1, <1>2 DEF Covered
<1>3. ASSUME NEW j \in DOMAIN withdrawals,
             r \in Records(withdrawals[j].name, withdrawals[j].owned),
             r[3] \in Owing(withdrawals[j])
      PROVE  Covered(r)'
  <2>1. withdrawals[j].owned \in SUBSET OnWire
    BY <1>1 DEF ItemType
  <2>2. PICK k \in AllKinds, f \in Families :
          <<k, f>> \in withdrawals[j].owned /\ r = <<Owner(k, withdrawals[j].name), k, f>>
    BY <1>3, <2>1, RecordsElim
  <2>3. k \in Named(withdrawals[j])
    BY <1>3, <2>2 DEF Named, Retractable
  <2>4. CASE withdrawals'[j].owed # withdrawals[j].owed
    BY <1>1, <1>2, <1>3, <2>3, <2>4
  <2>5. CASE withdrawals'[j].owed = withdrawals[j].owed
    BY <1>1, <1>3, <2>5 DEF Covered, Owing, SameRecords
  <2> QED
    BY <2>4, <2>5
<1> QED
  BY <1>2, <1>3 DEF Covered

(* A confirmed round pays what it named, and leaves the rest owed.         *)
LEMMA NoteCover ==
  ASSUME Structure, RoundSpeaks, NEW outcome \in [Families -> Outcomes],
         NoteWithdrawalResult(outcome), NEW r \in held', Covered(r),
         r[2] \in {"ptr", "srv", "sub"}
  PROVE  Covered(r)'
<1>1. /\ DOMAIN withdrawals' = DOMAIN withdrawals /\ routes' = routes /\ Live' = Live
      /\ round # None
      /\ \A j \in DOMAIN withdrawals :
           /\ withdrawals[j] \in ItemType
           /\ SameRecords(withdrawals'[j], withdrawals[j])
           /\ j # round.token => withdrawals'[j] = withdrawals[j]
           /\ j = round.token => withdrawals'[j] = Settled(withdrawals[j], outcome)
  BY NoteStep DEF Live
<1>2. ASSUME NEW g \in Live, r \in Records(routes[g].name, routes[g].goodbye)
      PROVE  Covered(r)'
  BY <1>1, <1>2 DEF Covered
<1>3. ASSUME NEW j \in DOMAIN withdrawals,
             r \in Records(withdrawals[j].name, withdrawals[j].owned),
             r[3] \in Owing(withdrawals[j])
      PROVE  Covered(r)'
  <2>1. CASE j # round.token
    BY <1>1, <1>3, <2>1 DEF Covered, Owing
  <2>2. CASE j = round.token
    <3>1. withdrawals[j].owned \in SUBSET OnWire
      BY <1>1 DEF ItemType
    <3>2. PICK k \in AllKinds, f \in Families :
            <<k, f>> \in withdrawals[j].owned /\ r = <<Owner(k, withdrawals[j].name), k, f>>
      BY <1>3, <3>1, RecordsElim
    <3>3. /\ k \in {"ptr", "srv", "sub"} /\ f \in Owing(withdrawals[j])
          /\ f \in round.debt /\ k \in round.kinds
          /\ r = <<Owner(k, round.name), k, f>>
      BY <1>1, <1>3, <2>2, <3>2 DEF RoundSpeaks
    <3>4. /\ outcome[f] # "accepted"
          /\ outcome[f] = "no_socket" =>
               \E h \in Live : r \in Records(routes[h].name, routes[h].goodbye)
      BY <3>3, NoteStep
    <3>5. CASE outcome[f] = "no_socket"
      BY <1>2, <3>4, <3>5
    <3>6. CASE outcome[f] # "no_socket"
      <4>1. f \in Owing(Settled(withdrawals[j], outcome))
        BY <1>1, <3>3, <3>4, <3>6, SettledType DEF Structure
      <4>2. f \in Owing(withdrawals'[j]) /\ r[3] = f
        BY <1>1, <2>2, <3>3, <4>1
      <4> QED
        BY <1>1, <1>3, <4>2 DEF Covered, Owing, SameRecords
    <3> QED
      BY <3>5, <3>6
  <2> QED
    BY <2>1, <2>2
<1> QED
  BY <1>2, <1>3 DEF Covered

(* An item that goes with a debt gives up what it owed.                    *)
LEMMA DrainCover ==
  ASSUME Structure, DrainCompleted, NEW r \in held', Covered(r)
  PROVE  Covered(r)'
<1>1. /\ DOMAIN withdrawals' = {j \in DOMAIN withdrawals : ~Completed(withdrawals[j])}
      /\ \A j \in DOMAIN withdrawals' : withdrawals'[j] = withdrawals[j]
      /\ Live' = Live /\ \A h \in DOMAIN routes' : routes'[h] = routes[h]
  BY DrainStep
<1>2. ASSUME NEW g \in Live, r \in Records(routes[g].name, routes[g].goodbye)
      PROVE  Covered(r)'
  <2>1. g \in DOMAIN routes'
    BY <1>1 DEF Live
  <2> QED
    BY <1>1, <1>2, <2>1 DEF Covered
<1>3. ASSUME NEW j \in DOMAIN withdrawals,
             r \in Records(withdrawals[j].name, withdrawals[j].owned),
             r[3] \in Owing(withdrawals[j])
      PROVE  Covered(r)'
  <2>1. CASE ~Completed(withdrawals[j])
    BY <1>1, <1>3, <2>1 DEF Covered, Owing
  <2>2. CASE Completed(withdrawals[j])
    <3>1. withdrawals[j].owned \in SUBSET OnWire
      BY DEF Structure, WShape, ItemType
    <3>2. PICK k \in AllKinds, f \in Families :
            <<k, f>> \in withdrawals[j].owned /\ r = <<Owner(k, withdrawals[j].name), k, f>>
      BY <1>3, <3>1, RecordsElim
    <3>3. f \in Owing(withdrawals[j])
      BY <1>3, <3>2
    <3>4. \E h \in Live : r \in Records(routes[h].name, routes[h].goodbye)
      BY <2>2, <3>2, <3>3, DrainStep
    <3> QED
      BY <1>2, <3>4
  <2> QED
    BY <2>1, <2>2
<1> QED
  BY <1>2, <1>3 DEF Covered

LEMMA CoverStep == Structure /\ Cover /\ [Next]_vars => Cover'
<1> SUFFICES ASSUME Structure, Cover, [Next]_vars PROVE Cover'
  OBVIOUS
<1>0. FullMeansAll' /\ RoundSpeaks'
  BY FullStep, RoundSpeaksStep DEF Cover
<1> SUFFICES InstanceRecordsCovered'
  BY <1>0 DEF Cover
<1>a. \A r \in held : r[2] \in {"ptr", "srv", "sub"} => Covered(r)
  BY DEF Cover, InstanceRecordsCovered
<1>b. WShape' /\ None # next_token /\ \A r : Covered(r)' <=> CoveredBesides(r, None)'
  <2>1. WShape' /\ None # next_token /\ None \notin DOMAIN withdrawals'
    BY StructureStep, ClockAssumption DEF Structure, WShape
  <2> QED
    BY <2>1 DEF Covered, CoveredBesides
<1>1. ASSUME NEW n \in RegNames, Register(n) PROVE InstanceRecordsCovered'
  <2>1. /\ UNCHANGED <<held, withdrawals>>
        /\ next_handle \notin DOMAIN routes /\ Live \subseteq Live'
        /\ \A h \in DOMAIN routes : routes'[h] = routes[h]
    BY <1>1 DEF Register, Structure, WShape, Live
  <2>2. ASSUME NEW r \in held, Covered(r) PROVE Covered(r)'
    <3>1. CASE \E h \in Live : r \in Records(routes[h].name, routes[h].goodbye)
      BY <2>1, <3>1 DEF Covered, Live
    <3> QED
      BY <2>1, <2>2, <3>1 DEF Covered, Owing
  <2> QED
    BY <1>a, <2>1, <2>2 DEF InstanceRecordsCovered
<1>2. ASSUME NEW h \in Live, NEW kinds \in EmitSets, NEW on \in SUBSET Families \ {{}},
             Transmitted(h, kinds, on)
      PROVE  InstanceRecordsCovered'
  BY <1>0, <1>2, TransmittedCover
<1>3. ASSUME NEW h \in Live, Defeated(h) PROVE InstanceRecordsCovered'
  BY <1>3, DefeatedCover
<1>4. ASSUME NEW h \in Live, Unregister(h) PROVE InstanceRecordsCovered'
  <2>1. held' = held
    BY <1>4 DEF Unregister
  <2> QED
    BY <1>4, <1>a, <1>b, <2>1, CoveredAtAll, UnregisterCover
       DEF InstanceRecordsCovered, Structure
<1>5. ASSUME NEW h \in DOMAIN routes, ForceRemove(h) PROVE InstanceRecordsCovered'
  <2>1. held' \subseteq held
    BY <1>5 DEF ForceRemove, GiveUp
  <2> QED
    BY <1>5, <1>a, <1>b, <2>1, CoveredAtAll, ForceRemoveCover
       DEF InstanceRecordsCovered, Structure
<1>6. CASE PollWithdrawal
  <2>1. held' \subseteq held
    BY <1>6, PollStep
  <2> QED
    BY <1>6, <1>a, <2>1, PollCover DEF InstanceRecordsCovered
<1>7. ASSUME NEW outcome \in [Families -> Outcomes], NoteWithdrawalResult(outcome)
      PROVE  InstanceRecordsCovered'
  <2>1. held' \subseteq held
    BY <1>7, NoteStep
  <2> QED
    BY <1>7, <1>a, <2>1, NoteCover DEF InstanceRecordsCovered, Cover
<1>8. CASE DrainCompleted
  <2>1. held' \subseteq held
    BY <1>8, DrainStep
  <2> QED
    BY <1>8, <1>a, <2>1, DrainCover DEF InstanceRecordsCovered
<1>9. CASE Tick
  <2>1. UNCHANGED <<held, withdrawals, routes>>
    BY <1>9 DEF Tick
  <2> QED
    BY <1>a, <2>1 DEF InstanceRecordsCovered, Covered, Live, Owing
<1>10. CASE UNCHANGED vars
  BY <1>10, <1>a DEF vars, InstanceRecordsCovered, Covered, Live, Owing
<1> QED
  BY <1>1, <1>2, <1>3, <1>4, <1>5, <1>6, <1>7, <1>8, <1>9, <1>10 DEF Next

(* The services table and the goodbye queue agree at all times: a          *)
(* withdrawing route has its one item, with its name and records, an item  *)
(* without a route never names an address, and all are well typed, however *)
(* late a round is confirmed (begin_withdrawal, force_remove_service,      *)
(* drain_completed_withdrawals).                                           *)
THEOREM QueueMatchesTable == Spec => []Structure
<1> QED
  BY StructureInit, StructureStep, PTL DEF Spec

(* Whatever peers may hold of an instance is published by a live route or  *)
(* owed a goodbye on the family that carried it, whatever is registered,   *)
(* renamed, reclaimed, removed and sent in whatever order, unless the      *)
(* goodbye was given up (enqueue_rename_withdrawal,                        *)
(* reclaim_detached_goodbyes, poll_withdrawal_transmit,                    *)
(* note_withdrawal_result).                                                *)
THEOREM InstanceRecordsAreCovered == Spec => []InstanceRecordsCovered
<1>1. Init => Cover
  <2> SUFFICES ASSUME Init PROVE Cover
    OBVIOUS
  <2>1. Live = {} /\ held = {} /\ round = None
    BY DEF Init, Live
  <2> QED
    BY <2>1 DEF Cover, FullMeansAll, RoundSpeaks, InstanceRecordsCovered
<1>2. Cover => InstanceRecordsCovered
  BY DEF Cover
<1> QED
  BY <1>1, <1>2, CoverStep, QueueMatchesTable, PTL DEF Spec

-----------------------------------------------------------------------------
(* The shared addresses.                                                   *)

(***************************************************************************)
(* An address the round in flight does not name has somebody else to       *)
(* answer for it.                                                          *)
(***************************************************************************)
HostOnRound ==
  round # None /\ round.token \in DOMAIN withdrawals /\ "host" \notin round.kinds =>
    \A r \in held : r[2] = "host" => CoveredBesides(r, round.token)

HostInv == HostRecordsCovered /\ HostOnRound

(* A host record stays covered through an announcement, by a detached      *)
(* goodbye being nobody's.                                                 *)
LEMMA TransmittedHost ==
  ASSUME Structure, NEW h \in Live, NEW kinds \in EmitSets, NEW on \in SUBSET Families,
         Transmitted(h, kinds, on), NEW r, r[2] = "host", NEW t,
         CoveredBesides(r, t) \/ r \in Records(routes[h].name, (kinds \cap Published(h)) \X on)
  PROVE  CoveredBesides(r, t)'
<1> DEFINE exposed == (kinds \cap Published(h)) \X on
<1>1. /\ Live' = Live /\ DOMAIN routes' = DOMAIN routes /\ h \in Live'
      /\ \A g \in DOMAIN routes : g # h => routes'[g] = routes[g]
      /\ routes'[h].name = routes[h].name
      /\ routes'[h].goodbye = routes[h].goodbye \cup exposed
      /\ \/ withdrawals' = withdrawals
         \/ withdrawals' = reclaim_detached_goodbyes(withdrawals, h, routes[h].name)
  BY TransmittedStep
<1>2. CASE r \in Records(routes[h].name, exposed)
  <2>1. r \in Records(routes'[h].name, routes'[h].goodbye)
    BY <1>1, <1>2, RecordsGrow
  <2> QED
    BY <1>1, <2>1 DEF CoveredBesides
<1>3. ASSUME NEW g \in Live, r \in Records(routes[g].name, routes[g].goodbye)
      PROVE  CoveredBesides(r, t)'
  <2>1. r \in Records(routes'[g].name, routes'[g].goodbye)
    BY <1>1, <1>3, RecordsGrow DEF Live
  <2> QED
    BY <1>1, <2>1 DEF CoveredBesides
<1>4. ASSUME NEW j \in DOMAIN withdrawals \ {t},
             r \in Records(withdrawals[j].name, withdrawals[j].owned),
             r[3] \in Owing(withdrawals[j])
      PROVE  CoveredBesides(r, t)'
  <2>1. PICK g \in withdrawals[j].owned : g[1] = "host"
    BY <1>4 DEF Records
  <2>2. ~Reclaimable(withdrawals[j], routes[h].name)
    BY <2>1 DEF Structure, ItemsMatchRoutes, Reclaimable
  <2>3. j \in DOMAIN withdrawals' /\ withdrawals'[j] = withdrawals[j]
    BY <1>1, <2>2, Reclaimed DEF Structure
  <2> QED
    BY <1>4, <2>3 DEF CoveredBesides, Owing
<1> QED
  BY <1>2, <1>3, <1>4 DEF CoveredBesides

(* A rename keeps the addresses with the service.                          *)
LEMMA DefeatedHost ==
  ASSUME Structure, NEW h \in Live, Defeated(h), NEW r, r[2] = "host", NEW t,
         CoveredBesides(r, t)
  PROVE  CoveredBesides(r, t)'
<1>1. /\ h \in DOMAIN routes /\ Live' = Live /\ routes[h] \in RouteType
      /\ \A g \in DOMAIN routes : g # h => routes'[g] = routes[g]
      /\ routes'[h].goodbye = routes[h].goodbye \ Handoff(h)
  BY DefeatedStep
<1>2. \A j \in DOMAIN withdrawals : j \in DOMAIN withdrawals' /\ withdrawals'[j] = withdrawals[j]
  <2>1. PICK item \in ItemType : withdrawals' = withdrawals \/ Enqueue(item)
    BY DefeatedStep
  <2> QED
    BY <2>1, EnqueueStep DEF Structure
<1>3. ASSUME NEW g \in Live, r \in Records(routes[g].name, routes[g].goodbye)
      PROVE  CoveredBesides(r, t)'
  <2>1. CASE g # h
    BY <1>1, <1>3, <2>1 DEF CoveredBesides, Live
  <2>2. CASE g = h
    <3>1. routes[h].goodbye \in SUBSET OnWire
      BY <1>1 DEF RouteType
    <3>2. PICK k \in AllKinds, f \in Families :
            <<k, f>> \in routes[h].goodbye /\ r = <<Owner(k, routes[h].name), k, f>>
      BY <1>3, <2>2, <3>1, RecordsElim
    <3>3. k = "host" /\ <<k, f>> \in routes'[h].goodbye
      BY <1>1, <3>2 DEF Handoff, InstanceKinds
    <3>4. r = <<Owner(k, routes'[h].name), k, f>>
      BY <3>2, <3>3 DEF Owner
    <3>5. r \in Records(routes'[h].name, routes'[h].goodbye)
      BY <3>3, <3>4, RecordsIntro
    <3> QED
      BY <1>1, <3>5 DEF CoveredBesides
  <2> QED
    BY <2>1, <2>2
<1>4. ASSUME NEW j \in DOMAIN withdrawals \ {t},
             r \in Records(withdrawals[j].name, withdrawals[j].owned),
             r[3] \in Owing(withdrawals[j])
      PROVE  CoveredBesides(r, t)'
  BY <1>2, <1>4 DEF CoveredBesides, Owing
<1> QED
  BY <1>3, <1>4 DEF CoveredBesides

(* With one family, an address a round leaves out because a sibling keeps  *)
(* it is an address that sibling answers for.                              *)
LEMMA PollHost ==
  ASSUME Structure, PollWithdrawal, NEW fam, Families = {fam},
         NEW r \in held', r[2] = "host", Covered(r)
  PROVE  \/ \E h \in Live' : r \in Records(routes'[h].name, routes'[h].goodbye)
         \/ \E j \in DOMAIN withdrawals' :
              /\ r \in Records(withdrawals'[j].name, withdrawals'[j].owned)
              /\ r[3] \in Owing(withdrawals'[j])
              /\ "host" \in Named(withdrawals[j])
<1>1. /\ DOMAIN withdrawals' = DOMAIN withdrawals /\ routes' = routes /\ Live' = Live
      /\ \A j \in DOMAIN withdrawals :
           /\ withdrawals[j] \in ItemType
           /\ SameRecords(withdrawals'[j], withdrawals[j])
           /\ Named(withdrawals[j]) # {} /\ withdrawals'[j].owed # withdrawals[j].owed
              /\ r \in Records(withdrawals[j].name, withdrawals[j].owned)
              => \E h \in Live : r \in Records(routes[h].name, routes[h].goodbye)
  BY PollStep DEF Live
<1> SUFFICES ASSUME NEW j \in DOMAIN withdrawals,
                    r \in Records(withdrawals[j].name, withdrawals[j].owned),
                    r[3] \in Owing(withdrawals[j])
             PROVE  \/ \E h \in Live : r \in Records(routes[h].name, routes[h].goodbye)
                    \/ /\ r \in Records(withdrawals'[j].name, withdrawals'[j].owned)
                       /\ r[3] \in Owing(withdrawals'[j])
                       /\ "host" \in Named(withdrawals[j])
  BY <1>1 DEF Covered
<1>2. withdrawals[j].owned \in SUBSET OnWire
  BY <1>1 DEF ItemType
<1>3. PICK k \in AllKinds, f \in Families :
        <<k, f>> \in withdrawals[j].owned /\ r = <<Owner(k, withdrawals[j].name), k, f>>
  BY <1>2, RecordsElim
<1>4. k = "host" /\ f \in Owing(withdrawals[j]) /\ r = <<HostName, "host", f>>
  BY <1>3 DEF Owner
<1>5. CASE HostRetained(withdrawals[j])
  <2>1. PICK h \in Live, e \in Families : <<"host", e>> \in routes[h].goodbye
    BY <1>5 DEF HostRetained
  <2>2. e = f
    OBVIOUS
  <2>3. <<Owner("host", routes[h].name), "host", f>> \in Records(routes[h].name, routes[h].goodbye)
    BY <2>1, <2>2, RecordsIntro
  <2> QED
    BY <1>4, <2>3 DEF Owner
<1>6. CASE ~HostRetained(withdrawals[j])
  <2>1. "host" \in Named(withdrawals[j])
    BY <1>3, <1>4, <1>6 DEF Named, Retractable
  <2>2. CASE withdrawals'[j].owed # withdrawals[j].owed
    BY <1>1, <2>1, <2>2
  <2>3. CASE withdrawals'[j].owed = withdrawals[j].owed
    BY <1>1, <2>1, <2>3 DEF Owing, SameRecords
  <2> QED
    BY <2>2, <2>3
<1> QED
  BY <1>5, <1>6

LEMMA NoteHost ==
  ASSUME Structure, RoundSpeaks, HostOnRound, NEW outcome \in [Families -> Outcomes],
         NoteWithdrawalResult(outcome), NEW r \in held', r[2] = "host", Covered(r)
  PROVE  Covered(r)'
<1>1. /\ DOMAIN withdrawals' = DOMAIN withdrawals /\ routes' = routes /\ Live' = Live
      /\ round # None /\ r \in held
      /\ \A j \in DOMAIN withdrawals :
           /\ withdrawals[j] \in ItemType
           /\ SameRecords(withdrawals'[j], withdrawals[j])
           /\ j # round.token => withdrawals'[j] = withdrawals[j]
           /\ j = round.token => withdrawals'[j] = Settled(withdrawals[j], outcome)
  BY NoteStep DEF Live
<1>2. ASSUME NEW g \in Live, r \in Records(routes[g].name, routes[g].goodbye)
      PROVE  Covered(r)'
  BY <1>1, <1>2 DEF Covered
<1>3. ASSUME NEW j \in DOMAIN withdrawals, j # round.token,
             r \in Records(withdrawals[j].name, withdrawals[j].owned),
             r[3] \in Owing(withdrawals[j])
      PROVE  Covered(r)'
  BY <1>1, <1>3 DEF Covered, Owing
<1>4. ASSUME round.token \in DOMAIN withdrawals, "host" \in round.kinds,
             r \in Records(withdrawals[round.token].name, withdrawals[round.token].owned),
             r[3] \in Owing(withdrawals[round.token])
      PROVE  Covered(r)'
  <2> DEFINE j == round.token
  <2>1. withdrawals[j].owned \in SUBSET OnWire
    BY <1>1, <1>4 DEF ItemType
  <2>2. PICK k \in AllKinds, f \in Families :
          <<k, f>> \in withdrawals[j].owned /\ r = <<Owner(k, withdrawals[j].name), k, f>>
    BY <1>4, <2>1, RecordsElim
  <2>3. /\ k = "host" /\ f \in Owing(withdrawals[j])
        /\ f \in round.debt /\ k \in round.kinds
        /\ r = <<Owner(k, round.name), k, f>>
    BY <1>1, <1>4, <2>2 DEF RoundSpeaks
  <2>4. /\ outcome[f] # "accepted"
        /\ outcome[f] = "no_socket" =>
             \E h \in Live : r \in Records(routes[h].name, routes[h].goodbye)
    BY <2>3, NoteStep
  <2>5. CASE outcome[f] = "no_socket"
    BY <1>2, <2>4, <2>5
  <2>6. CASE outcome[f] # "no_socket"
    <3>1. f \in Owing(Settled(withdrawals[j], outcome))
      BY <1>1, <1>4, <2>3, <2>4, <2>6, SettledType DEF Structure
    <3>2. f \in Owing(withdrawals'[j]) /\ r[3] = f
      BY <1>1, <1>4, <2>3, <3>1
    <3> QED
      BY <1>1, <1>4, <3>2 DEF Covered, Owing, SameRecords
  <2> QED
    BY <2>5, <2>6
<1>5. CASE round.token \in DOMAIN withdrawals /\ "host" \notin round.kinds
  BY <1>1, <1>2, <1>3, <1>5 DEF HostOnRound, CoveredBesides
<1> QED
  BY <1>2, <1>3, <1>4, <1>5 DEF Covered

(* Steps that leave the round alone keep both parts if they keep records   *)
(* covered, whichever item is set aside.                                   *)
LEMMA HostKept ==
  ASSUME Structure, WShape', HostInv, round' = round,
         DOMAIN withdrawals' \subseteq DOMAIN withdrawals \cup {next_token},
         \A r \in held' : r[2] = "host" =>
           \A t : t # next_token /\ (r \in held => CoveredBesides(r, t)) => CoveredBesides(r, t)'
  PROVE  HostInv'
<1>1. None # next_token /\ (round # None => round.token # next_token)
  BY ClockAssumption DEF Structure, WShape, RoundType
<1>2. HostRecordsCovered'
  <2> SUFFICES ASSUME NEW r \in held', r[2] = "host" PROVE Covered(r)'
    BY DEF HostRecordsCovered
  <2>1. r \in held => CoveredBesides(r, None)
    BY CoveredAtAll DEF HostInv, HostRecordsCovered, Structure
  <2>2. CoveredBesides(r, None)'
    BY <1>1, <2>1
  <2> QED
    BY <2>2 DEF Covered, CoveredBesides
<1>3. HostOnRound'
  <2> SUFFICES ASSUME round # None, round.token \in DOMAIN withdrawals',
                      "host" \notin round.kinds, NEW r \in held', r[2] = "host",
                      NEW t, t = round.token
               PROVE  CoveredBesides(r, t)'
    BY DEF HostOnRound, CoveredBesides
  <2>1. round.token \in DOMAIN withdrawals
    BY <1>1
  <2>2. r \in held => CoveredBesides(r, t)
    BY <2>1 DEF HostInv, HostOnRound
  <2> QED
    BY <1>1, <2>2
<1> QED
  BY <1>2, <1>3 DEF HostInv

LEMMA HostStep ==
  ASSUME NEW fam, Families = {fam}
  PROVE  Structure /\ RoundSpeaks /\ HostInv /\ [Next]_vars => HostInv'
<1> SUFFICES ASSUME Structure, RoundSpeaks, HostInv, [Next]_vars PROVE HostInv'
  OBVIOUS
<1>0. WShape'
  BY StructureStep DEF Structure
<1>a. \A r \in held : r[2] = "host" => Covered(r)
  BY DEF HostInv, HostRecordsCovered
<1>1. ASSUME NEW n \in RegNames, Register(n) PROVE HostInv'
  <2>1. /\ UNCHANGED <<held, withdrawals, round>>
        /\ next_handle \notin DOMAIN routes /\ Live \subseteq Live'
        /\ \A h \in DOMAIN routes : routes'[h] = routes[h]
    BY <1>1 DEF Register, Structure, WShape, Live
  <2>2. ASSUME NEW r \in held, NEW t, CoveredBesides(r, t) PROVE CoveredBesides(r, t)'
    <3>1. CASE \E h \in Live : r \in Records(routes[h].name, routes[h].goodbye)
      BY <2>1, <3>1 DEF CoveredBesides, Live
    <3> QED
      BY <2>1, <2>2, <3>1 DEF CoveredBesides, Owing
  <2> QED
    BY <1>0, <2>1, <2>2, HostKept
<1>2. ASSUME NEW h \in Live, NEW kinds \in EmitSets, NEW on \in SUBSET Families \ {{}},
             Transmitted(h, kinds, on)
      PROVE  HostInv'
  <2>1. round' = round
        /\ held' = held \cup Records(routes[h].name, (kinds \cap Published(h)) \X on)
    BY <1>2 DEF Transmitted
  <2>2. DOMAIN withdrawals' \subseteq DOMAIN withdrawals
    BY <1>2, TransmittedStep, Reclaimed DEF Structure
  <2>3. ASSUME NEW r \in held', r[2] = "host", NEW t, r \in held => CoveredBesides(r, t)
        PROVE  CoveredBesides(r, t)'
    BY <1>2, <2>1, <2>3, TransmittedHost
  <2> QED
    BY <1>0, <2>1, <2>2, <2>3, HostKept
<1>3. ASSUME NEW h \in Live, Defeated(h) PROVE HostInv'
  <2>1. round' = round /\ held' = held
    BY <1>3 DEF Defeated
  <2>2. DOMAIN withdrawals' \subseteq DOMAIN withdrawals \cup {next_token}
    BY <1>3, DefeatedStep, EnqueueStep DEF Structure
  <2> QED
    BY <1>0, <1>3, <2>1, <2>2, DefeatedHost, HostKept
<1>4. ASSUME NEW h \in Live, Unregister(h) PROVE HostInv'
  <2>1. round' = round /\ held' = held
    BY <1>4 DEF Unregister
  <2>2. DOMAIN withdrawals' \subseteq DOMAIN withdrawals \cup {next_token}
    BY <1>4, UnregisterStep, EnqueueStep DEF Structure
  <2> QED
    BY <1>0, <1>4, <2>1, <2>2, UnregisterCover, HostKept
<1>5. ASSUME NEW h \in DOMAIN routes, ForceRemove(h) PROVE HostInv'
  <2>1. round' = round /\ held' \subseteq held
    BY <1>5 DEF ForceRemove, GiveUp
  <2>2. DOMAIN withdrawals' \subseteq DOMAIN withdrawals \cup {next_token}
    BY <1>5, ForceRemoveStructure
  <2> QED
    BY <1>0, <1>5, <2>1, <2>2, ForceRemoveCover, HostKept
<1>6. CASE PollWithdrawal
  <2>1. held' \subseteq held
    BY <1>6, PollStep
  <2>2. \A r \in held' : r[2] = "host" =>
          \/ \E h \in Live' : r \in Records(routes'[h].name, routes'[h].goodbye)
          \/ \E j \in DOMAIN withdrawals' :
               /\ r \in Records(withdrawals'[j].name, withdrawals'[j].owned)
               /\ r[3] \in Owing(withdrawals'[j])
               /\ "host" \in Named(withdrawals[j])
    BY <1>6, <1>a, <2>1, PollHost
  <2>3. HostRecordsCovered'
    BY <2>2 DEF HostRecordsCovered, Covered, Owing
  <2>4. HostOnRound'
    <3> SUFFICES ASSUME round' # None, "host" \notin round'.kinds,
                        NEW r \in held', r[2] = "host", NEW t, t = round'.token
                 PROVE  CoveredBesides(r, t)'
      BY DEF HostOnRound, CoveredBesides
    <3>1. "host" \notin Named(withdrawals[t])
      BY <1>6, PollStep
    <3> QED
      BY <2>2, <3>1 DEF CoveredBesides, Owing
  <2> QED
    BY <2>3, <2>4 DEF HostInv
<1>7. ASSUME NEW outcome \in [Families -> Outcomes], NoteWithdrawalResult(outcome)
      PROVE  HostInv'
  <2>1. held' \subseteq held /\ round' = None
    BY <1>7, NoteStep
  <2>2. HostRecordsCovered'
    BY <1>7, <1>a, <2>1, NoteHost DEF HostInv, HostRecordsCovered
  <2> QED
    BY <2>1, <2>2 DEF HostInv, HostOnRound
<1>8. CASE DrainCompleted
  <2>1. held' \subseteq held /\ round' = None
    BY <1>8, DrainStep
  <2>2. HostRecordsCovered'
    BY <1>8, <1>a, <2>1, DrainCover DEF HostRecordsCovered
  <2> QED
    BY <2>1, <2>2 DEF HostInv, HostOnRound
<1>9. CASE Tick
  <2>1. UNCHANGED <<held, withdrawals, routes, round>>
    BY <1>9 DEF Tick
  <2> QED
    BY <2>1 DEF HostInv, HostOnRound, CoveredBesides, HostRecordsCovered, Covered, Live, Owing
<1>10. CASE UNCHANGED vars
  BY <1>10 DEF vars, HostInv, HostOnRound, CoveredBesides, HostRecordsCovered, Covered, Live, Owing
<1> QED
  BY <1>1, <1>2, <1>3, <1>4, <1>5, <1>6, <1>7, <1>8, <1>9, <1>10 DEF Next

(* With one family the shared addresses are covered too: a route may       *)
(* complete without naming them because a live sibling that published them *)
(* still does (sibling_retained_addrs, poll_withdrawal_transmit).  With    *)
(* two families the code's choice is not per family and this fails.        *)
THEOREM HostRecordsAreCovered ==
  ASSUME NEW fam, Families = {fam}
  PROVE  Spec => []HostRecordsCovered
<1>1. Init => RoundSpeaks /\ HostInv
  BY DEF Init, RoundSpeaks, HostInv, HostRecordsCovered, HostOnRound
<1>2. HostInv => HostRecordsCovered
  BY DEF HostInv
<1>3. Structure /\ RoundSpeaks /\ HostInv /\ [Next]_vars => HostInv'
  BY HostStep
<1> QED
  BY <1>1, <1>2, <1>3, RoundSpeaksStep, QueueMatchesTable, PTL DEF Spec

-----------------------------------------------------------------------------
(* Late echoes.                                                            *)

(***************************************************************************)
(* What answers for an identity that stopped being published: a row that   *)
(* outlasts its retention, or the item of the route it belonged to.        *)
(***************************************************************************)
RowAnswers(i, since) ==
  \E r \in relinquished : /\ r.id = i /\ r.expires_at \in Nat
                          /\ since + RelinquishedRetention <= r.expires_at

ItemAnswers(i) ==
  \E j \in DOMAIN withdrawals :
    /\ withdrawals[j].route # None
    /\ i \in Identities(withdrawals[j].origin, withdrawals[j].name, withdrawals[j].owned)

Retainable(since) ==
  now + RelinquishedRetention <= MaxInstant /\ now < since + RelinquishedRetention

Answered ==
  \A i \in DOMAIN ceased :
    /\ ceased[i] \in Nat /\ ceased[i] <= now
    /\ Retainable(ceased[i]) => RowAnswers(i, ceased[i]) \/ ItemAnswers(i)

(* Retaining: a fresh row for each identity, and the others' rows stay.    *)
LEMMA RetainedRows ==
  ASSUME WShape, NEW ids, relinquished' = retain_relinquished(relinquished, ids),
         NEW since \in Nat, since <= now, Retainable(since)
  PROVE  /\ \A i \in ids : RowAnswers(i, since)'
         /\ \A i : RowAnswers(i, since) => RowAnswers(i, since)'
<1> USE ClockAssumption, WithdrawalAssumption
<1>1. /\ now \in Nat /\ now + RelinquishedRetention <= MaxInstant
      /\ now + RelinquishedRetention \in Nat /\ since + RelinquishedRetention \in Nat
      /\ now < now + RelinquishedRetention
      /\ since + RelinquishedRetention <= now + RelinquishedRetention
  BY DEF WShape, Instant, Retainable
<1> DEFINE e == now + RelinquishedRetention
<1>2. relinquished' = {r \in relinquished : r.id \notin ids}
                        \cup {[id |-> i, expires_at |-> e] : i \in ids}
  <2>1. checked_add(now, RelinquishedRetention) = e
    BY <1>1 DEF checked_add
  <2>2. e \notin {None, now}
    BY <1>1
  <2> QED
    BY <2>1, <2>2 DEF retain_relinquished
<1>3. e \in Nat /\ since + RelinquishedRetention <= e
  BY <1>1
<1> HIDE DEF e
<1>4. ASSUME NEW i \in ids PROVE RowAnswers(i, since)'
  <2> DEFINE row == [id |-> i, expires_at |-> e]
  <2>1. row \in relinquished' /\ row.id = i /\ row.expires_at = e
    BY <1>2
  <2> HIDE DEF row
  <2> QED
    BY <1>3, <2>1 DEF RowAnswers
<1>5. ASSUME NEW i, RowAnswers(i, since) PROVE RowAnswers(i, since)'
  <2>1. CASE i \in ids
    BY <1>4, <2>1
  <2>2. CASE i \notin ids
    BY <1>2, <1>5, <2>2 DEF RowAnswers
  <2> QED
    BY <2>1, <2>2
<1> QED
  BY <1>4, <1>5

LEMMA CeasedNow ==
  ASSUME NEW ids
  PROVE  /\ DOMAIN Cease(ids) \subseteq DOMAIN ceased \cup ids
         /\ \A i \in DOMAIN Cease(ids) : Cease(ids)[i] = IF i \in ids THEN now ELSE ceased[i]
BY DEF Cease, Recent

LEMMA AnsweredStep == Structure /\ Answered /\ [Next]_vars => Answered'
<1> SUFFICES ASSUME Structure, Answered, [Next]_vars PROVE Answered'
  OBVIOUS
<1> USE ClockAssumption, WithdrawalAssumption
<1>0. now \in Nat /\ DOMAIN routes \subseteq Nat
  BY DEF Structure, WShape, Instant
<1>1. ASSUME NEW n \in RegNames, Register(n) PROVE Answered'
  BY <1>1 DEF Register, Answered, Retainable, RowAnswers, ItemAnswers
<1>2. ASSUME NEW h \in Live, NEW kinds \in EmitSets, NEW on \in SUBSET Families \ {{}},
             Transmitted(h, kinds, on)
      PROVE  Answered'
  <2>1. /\ UNCHANGED <<now, relinquished>>
        /\ DOMAIN ceased' \subseteq DOMAIN ceased
        /\ \A i \in DOMAIN ceased' : ceased'[i] = ceased[i]
    BY <1>2 DEF Transmitted
  <2>2. \A j \in DOMAIN withdrawals : withdrawals[j].route # None =>
          j \in DOMAIN withdrawals' /\ withdrawals'[j] = withdrawals[j]
    BY <1>2, TransmittedStep, Reclaimed DEF Structure, Reclaimable
  <2>3. \A i : ItemAnswers(i) => ItemAnswers(i)'
    BY <2>2 DEF ItemAnswers
  <2>4. \A i, s : /\ RowAnswers(i, s) => RowAnswers(i, s)'
                  /\ Retainable(s)' => Retainable(s)
    BY <2>1 DEF RowAnswers, Retainable
  <2> QED
    BY <2>1, <2>3, <2>4 DEF Answered, Retainable, RowAnswers
<1>3. ASSUME NEW h \in Live, Defeated(h) PROVE Answered'
  <2> DEFINE ids == Identities(h, routes[h].name, Handoff(h))
  <2>1. now' = now /\ relinquished' = retain_relinquished(relinquished, ids) /\ ceased' = Cease(ids)
    BY <1>3 DEF Defeated, enqueue_rename_withdrawal
  <2>2. \A j \in DOMAIN withdrawals : j \in DOMAIN withdrawals' /\ withdrawals'[j] = withdrawals[j]
    <3>1. PICK item \in ItemType : withdrawals' = withdrawals \/ Enqueue(item)
      BY <1>3, DefeatedStep
    <3> QED
      BY <3>1, EnqueueStep DEF Structure
  <2>3. \A i : ItemAnswers(i) => ItemAnswers(i)'
    BY <2>2 DEF ItemAnswers
  <2> HIDE DEF ids
  <2> SUFFICES ASSUME NEW i \in DOMAIN ceased', NEW s, s = ceased'[i]
               PROVE  s \in Nat /\ s <= now
                      /\ (Retainable(s) => RowAnswers(i, s)' \/ ItemAnswers(i)')
    BY <2>1 DEF Answered, Retainable, RowAnswers
  <2>4. CASE i \in ids
    <3>1. s = now
      BY <2>1, <2>4, CeasedNow
    <3> QED
      BY <1>0, <2>1, <2>4, <3>1, RetainedRows DEF Structure
  <2>5. CASE i \notin ids
    <3>1. i \in DOMAIN ceased /\ s = ceased[i]
      BY <2>1, <2>5, CeasedNow
    <3>2. s \in Nat /\ s <= now /\ (Retainable(s) => RowAnswers(i, s) \/ ItemAnswers(i))
      BY <3>1 DEF Answered
    <3> QED
      BY <2>1, <2>3, <3>2, RetainedRows DEF Structure
  <2> QED
    BY <2>4, <2>5
<1>4. ASSUME NEW h \in Live, Unregister(h) PROVE Answered'
  <2> DEFINE item == NewItem(h, routes[h].name, routes[h].goodbye, h, FALSE)
             ids == Identities(h, routes[h].name, routes[h].goodbye)
  <2>1. UNCHANGED <<now, relinquished>> /\ ceased' = Cease(ids)
    BY <1>4 DEF Unregister
  <2>2. h # None /\ item \in ItemType /\ Enqueue(item)
    BY <1>4, UnregisterStep
  <2>3. item.route = h /\ ids = Identities(item.origin, item.name, item.owned)
    BY DEF NewItem
  <2> HIDE DEF item
  <2>4. /\ \A j \in DOMAIN withdrawals :
             j \in DOMAIN withdrawals' /\ withdrawals'[j] = withdrawals[j]
        /\ next_token \in DOMAIN withdrawals' /\ withdrawals'[next_token] = item
    BY <2>2, EnqueueStep DEF Structure
  <2>5. /\ \A i : ItemAnswers(i) => ItemAnswers(i)'
        /\ \A i \in ids : ItemAnswers(i)'
    BY <2>2, <2>3, <2>4 DEF ItemAnswers
  <2> HIDE DEF ids
  <2> SUFFICES ASSUME NEW i \in DOMAIN ceased', NEW s, s = ceased'[i]
               PROVE  s \in Nat /\ s <= now
                      /\ (Retainable(s) => RowAnswers(i, s) \/ ItemAnswers(i)')
    BY <2>1 DEF Answered, Retainable, RowAnswers
  <2>6. CASE i \in ids
    <3>1. s = now
      BY <2>1, <2>6, CeasedNow
    <3> QED
      BY <1>0, <2>5, <2>6, <3>1
  <2>7. CASE i \notin ids
    <3>1. i \in DOMAIN ceased /\ s = ceased[i]
      BY <2>1, <2>7, CeasedNow
    <3> QED
      BY <2>5, <3>1 DEF Answered
  <2> QED
    BY <2>6, <2>7
<1>5. ASSUME NEW h \in DOMAIN routes, ForceRemove(h) PROVE Answered'
  <2> DEFINE ids == Identities(h, routes[h].name, routes[h].goodbye)
  <2>1. /\ now' = now /\ relinquished' = retain_relinquished(relinquished, ids)
        /\ ceased' = IF routes[h].withdrawing THEN ceased ELSE Cease(ids)
    BY <1>5 DEF ForceRemove
  <2>2. /\ DOMAIN withdrawals' = {j \in DOMAIN withdrawals : withdrawals[j].route # h}
        /\ \A j \in DOMAIN withdrawals' : withdrawals'[j] = withdrawals[j]
    BY <1>5, ForceRemoveStructure
  <2>3. \A j \in DOMAIN withdrawals : withdrawals[j].route = h =>
          Identities(withdrawals[j].origin, withdrawals[j].name, withdrawals[j].owned) = ids
    BY <1>0 DEF Structure, ItemsMatchRoutes
  <2>4. \A i : ItemAnswers(i) => ItemAnswers(i)' \/ i \in ids
    BY <2>2, <2>3 DEF ItemAnswers
  <2> HIDE DEF ids
  <2> SUFFICES ASSUME NEW i \in DOMAIN ceased', NEW s, s = ceased'[i]
               PROVE  s \in Nat /\ s <= now
                      /\ (Retainable(s) => RowAnswers(i, s)' \/ ItemAnswers(i)')
    BY <2>1 DEF Answered, Retainable, RowAnswers
  <2>5. (s = now /\ i \in ids) \/ (i \in DOMAIN ceased /\ s = ceased[i])
    BY <2>1, CeasedNow
  <2>6. CASE s = now /\ i \in ids
    BY <1>0, <2>1, <2>6, RetainedRows DEF Structure
  <2>7. CASE i \in DOMAIN ceased /\ s = ceased[i]
    <3>1. s \in Nat /\ s <= now /\ (Retainable(s) => RowAnswers(i, s) \/ ItemAnswers(i))
      BY <2>7 DEF Answered
    <3> QED
      BY <2>1, <2>4, <3>1, RetainedRows DEF Structure
  <2> QED
    BY <2>5, <2>6, <2>7
<1>6. CASE PollWithdrawal
  <2>1. UNCHANGED <<now, relinquished, ceased>>
    BY <1>6 DEF PollWithdrawal
  <2>2. \A i : ItemAnswers(i) => ItemAnswers(i)'
    BY <1>6, PollStep DEF ItemAnswers, SameRecords
  <2> QED
    BY <2>1, <2>2 DEF Answered, Retainable, RowAnswers
<1>7. ASSUME NEW outcome \in [Families -> Outcomes], NoteWithdrawalResult(outcome)
      PROVE  Answered'
  <2>1. UNCHANGED <<now, relinquished, ceased>>
    BY <1>7 DEF NoteWithdrawalResult
  <2>2. \A i : ItemAnswers(i) => ItemAnswers(i)'
    BY <1>7, NoteStep DEF ItemAnswers, SameRecords
  <2> QED
    BY <2>1, <2>2 DEF Answered, Retainable, RowAnswers
<1>8. CASE DrainCompleted
  <2> DEFINE done == {j \in DOMAIN withdrawals : Completed(withdrawals[j])}
             ids == UNION {Identities(withdrawals[j].origin, withdrawals[j].name,
                                      withdrawals[j].owned) : j \in done}
  <2>1. /\ UNCHANGED <<now, ceased>>
        /\ relinquished' = retain_relinquished(relinquished, ids)
    BY <1>8 DEF DrainCompleted
  <2>2. /\ DOMAIN withdrawals' = DOMAIN withdrawals \ done
        /\ \A j \in DOMAIN withdrawals' : withdrawals'[j] = withdrawals[j]
    BY <1>8, DrainStep
  <2>3. \A i : ItemAnswers(i) => ItemAnswers(i)' \/ i \in ids
    <3> SUFFICES ASSUME NEW i, NEW j \in DOMAIN withdrawals, withdrawals[j].route # None,
                        i \in Identities(withdrawals[j].origin, withdrawals[j].name,
                                         withdrawals[j].owned)
                 PROVE  ItemAnswers(i)' \/ i \in ids
      BY DEF ItemAnswers
    <3>1. CASE j \in done
      BY <3>1
    <3>2. CASE j \notin done
      BY <2>2, <3>2 DEF ItemAnswers
    <3> QED
      BY <3>1, <3>2
  <2> HIDE DEF done, ids
  <2> SUFFICES ASSUME NEW i \in DOMAIN ceased, NEW s, s = ceased[i]
               PROVE  s \in Nat /\ s <= now
                      /\ (Retainable(s) => RowAnswers(i, s)' \/ ItemAnswers(i)')
    BY <2>1 DEF Answered, Retainable, RowAnswers
  <2>4. s \in Nat /\ s <= now /\ (Retainable(s) => RowAnswers(i, s) \/ ItemAnswers(i))
    BY DEF Answered
  <2> QED
    BY <2>1, <2>3, <2>4, RetainedRows DEF Structure
<1>9. CASE Tick
  <2>1. /\ now' = now + 1 /\ withdrawals' = withdrawals
        /\ relinquished' = {r \in relinquished : now' < r.expires_at}
        /\ DOMAIN ceased' \subseteq DOMAIN ceased
        /\ \A i \in DOMAIN ceased' : ceased'[i] = ceased[i]
    BY <1>9 DEF Tick, Recent
  <2> SUFFICES ASSUME NEW i \in DOMAIN ceased, NEW s, s = ceased[i],
                      now + 1 + RelinquishedRetention <= MaxInstant,
                      now + 1 < s + RelinquishedRetention
               PROVE  RowAnswers(i, s)' \/ ItemAnswers(i)'
    BY <1>0, <2>1 DEF Answered, Retainable, RowAnswers
  <2>2. s \in Nat /\ s <= now /\ (RowAnswers(i, s) \/ ItemAnswers(i))
    BY <1>0 DEF Answered, Retainable
  <2>3. RowAnswers(i, s) => RowAnswers(i, s)'
    BY <1>0, <2>1, <2>2 DEF RowAnswers
  <2>4. ItemAnswers(i) => ItemAnswers(i)'
    BY <2>1 DEF ItemAnswers
  <2> QED
    BY <2>2, <2>3, <2>4
<1>10. CASE UNCHANGED vars
  BY <1>10 DEF vars, Answered, Retainable, RowAnswers, ItemAnswers
<1> QED
  BY <1>1, <1>2, <1>3, <1>4, <1>5, <1>6, <1>7, <1>8, <1>9, <1>10 DEF Next

(* An echo of what the endpoint no longer publishes is recognised for the  *)
(* whole retention, whatever became of the route, its goodbye and its name *)
(* (retain_relinquished at each of its call sites, relinquished_asserts).  *)
THEOREM EchoesAreDisowned == Spec => []EchoesDisowned
<1>1. Init => Answered
  BY DEF Init, Answered
<1>2. Answered => EchoesDisowned
  BY DEF Answered, EchoesDisowned, Retainable, RowAnswers, ItemAnswers, relinquished_asserts
<1> QED
  BY <1>1, <1>2, AnsweredStep, QueueMatchesTable, PTL DEF Spec

-----------------------------------------------------------------------------
(* Names.                                                                  *)

(***************************************************************************)
(* Two routes never share a name, and a name held by a draining goodbye is *)
(* a dead route's at most.                                                 *)
(***************************************************************************)
NamesExclusive ==
  /\ \A g, h \in DOMAIN routes : routes[g].name = routes[h].name => g = h
  /\ \A h \in DOMAIN routes, j \in DOMAIN withdrawals :
       withdrawals[j].route = None /\ withdrawals[j].holds_name
         /\ withdrawals[j].name = routes[h].name => routes[h].dead

(***************************************************************************)
(* A suffix in use was chosen by a rename, so the next one is greater.     *)
(***************************************************************************)
SuffixesGrow ==
  \A h \in DOMAIN routes :
    routes[h].name \in 1 .. LastSuffix => routes[h].name <= routes[h].attempt

(***************************************************************************)
(* What is left of a detached goodbye of a name that was announced again   *)
(* in full is not published by the new holder.                             *)
(***************************************************************************)
Superseded ==
  \A h \in Live, j \in DOMAIN withdrawals :
    /\ routes[h].full /\ routes[h].name = withdrawals[j].name
    /\ withdrawals[j].route = None
    => \A g \in withdrawals[j].owned : g[1] \notin Published(h)

NamesInv == NamesExclusive /\ SuffixesGrow /\ Superseded

(* Steps after which routes and items keep their names, or go.             *)
LEMMA NamesKept ==
  ASSUME NamesInv, DOMAIN routes' \subseteq DOMAIN routes,
         \A h \in DOMAIN routes' :
           /\ routes'[h].name = routes[h].name /\ routes'[h].attempt = routes[h].attempt
           /\ routes'[h].dead = routes[h].dead /\ routes'[h].full = routes[h].full
           /\ ~routes'[h].withdrawing => ~routes[h].withdrawing,
         \A j \in DOMAIN withdrawals' : withdrawals'[j].route = None =>
           /\ j \in DOMAIN withdrawals /\ withdrawals[j].route = None
           /\ withdrawals'[j].name = withdrawals[j].name
           /\ withdrawals'[j].holds_name = withdrawals[j].holds_name
           /\ withdrawals'[j].owned \subseteq withdrawals[j].owned
  PROVE  NamesInv'
<1>1. NamesExclusive'
  BY DEF NamesInv, NamesExclusive
<1>2. SuffixesGrow'
  BY DEF NamesInv, SuffixesGrow
<1>3. Superseded'
  BY DEF NamesInv, Superseded, Live
<1> QED
  BY <1>1, <1>2, <1>3 DEF NamesInv

LEMMA RegisterNames ==
  ASSUME RegNames \cap (1 .. LastSuffix) = {}, Structure, NamesInv,
         NEW n \in RegNames, Register(n)
  PROVE  NamesInv'
<1>1. /\ DOMAIN routes' = DOMAIN routes \cup {next_handle} /\ next_handle \notin DOMAIN routes
      /\ \A h \in DOMAIN routes : routes'[h] = routes[h]
      /\ routes'[next_handle].name = n /\ routes'[next_handle].full = FALSE
      /\ withdrawals' = withdrawals
  BY DEF Register, Structure, WShape
<1>2. /\ \A h \in DOMAIN routes : routes[h].name # n
      /\ \A j \in DOMAIN withdrawals :
           withdrawals[j].route = None /\ withdrawals[j].holds_name => withdrawals[j].name # n
  <2>1. n \notin NamesInUse(None) /\ \A h \in DOMAIN routes : h # None
    BY ClockAssumption DEF Register, Structure, WShape
  <2> QED
    BY <2>1 DEF NamesInUse, HeldName
<1>3. NamesExclusive'
  BY <1>1, <1>2 DEF NamesInv, NamesExclusive
<1>4. SuffixesGrow'
  BY <1>1 DEF NamesInv, SuffixesGrow
<1>5. Superseded'
  BY <1>1 DEF NamesInv, Superseded, Live
<1> QED
  BY <1>3, <1>4, <1>5 DEF NamesInv

(* A complete announcement narrows every goodbye that could contradict it. *)
LEMMA TransmittedNames ==
  ASSUME Structure, NamesInv, NEW h \in Live, NEW kinds \in EmitSets,
         NEW on \in SUBSET Families, Transmitted(h, kinds, on)
  PROVE  NamesInv'
<1>1. /\ Live' = Live /\ DOMAIN routes' = DOMAIN routes /\ h \in DOMAIN routes
      /\ \A g \in DOMAIN routes : g # h => routes'[g] = routes[g]
      /\ routes'[h].name = routes[h].name /\ routes'[h].dead = routes[h].dead
      /\ routes'[h].attempt = routes[h].attempt
      /\ IF routes'[h].full
         THEN withdrawals' = reclaim_detached_goodbyes(withdrawals, h, routes[h].name)
         ELSE withdrawals' = withdrawals
  BY TransmittedStep DEF Live
<1>2. ~routes[h].dead
  BY DEF Transmitted
<1>3. \A j \in DOMAIN withdrawals : withdrawals[j] \in ItemType
  BY DEF Structure, WShape
<1>4. \A j \in DOMAIN withdrawals' :
        /\ j \in DOMAIN withdrawals
        /\ \/ withdrawals'[j] = withdrawals[j]
           \/ withdrawals'[j] = Narrowed(withdrawals[j], h)
        /\ routes'[h].full /\ Reclaimable(withdrawals[j], routes[h].name) =>
             withdrawals'[j] = Narrowed(withdrawals[j], h)
  BY <1>1, Reclaimed DEF Structure
<1>5. \A j \in DOMAIN withdrawals' :
        /\ withdrawals'[j].route = withdrawals[j].route
        /\ withdrawals'[j].name = withdrawals[j].name
        /\ withdrawals'[j].holds_name = withdrawals[j].holds_name
        /\ withdrawals'[j].owned \subseteq withdrawals[j].owned
        /\ routes'[h].full /\ Reclaimable(withdrawals[j], routes[h].name) =>
             \A g \in withdrawals'[j].owned : g[1] = "sub" /\ h \notin Subtyped
  BY <1>3, <1>4, NarrowedType
<1>6. NamesExclusive'
  BY <1>1, <1>4, <1>5 DEF NamesInv, NamesExclusive
<1>7. SuffixesGrow'
  BY <1>1 DEF NamesInv, SuffixesGrow
<1>8. Superseded'
  <2> SUFFICES ASSUME NEW g \in Live, NEW j \in DOMAIN withdrawals',
                      routes'[g].full, routes'[g].name = withdrawals'[j].name,
                      withdrawals'[j].route = None, NEW e \in withdrawals'[j].owned
               PROVE  e[1] \notin Published(g)
    BY <1>1 DEF Superseded
  <2>1. CASE g # h
    BY <1>1, <1>4, <1>5, <2>1 DEF NamesInv, Superseded, Live
  <2>2. CASE g = h
    <3>1. Reclaimable(withdrawals[j], routes[h].name)
      BY <1>1, <1>2, <1>4, <1>5, <2>2 DEF Reclaimable, NamesInv, NamesExclusive
    <3>2. e[1] = "sub" /\ h \notin Subtyped
      BY <1>5, <2>2, <3>1
    <3> QED
      BY <2>2, <3>2 DEF Published
  <2> QED
    BY <2>1, <2>2
<1> QED
  BY <1>6, <1>7, <1>8 DEF NamesInv

(* A rename takes a suffix nobody uses, or dies where it is.               *)
LEMMA DefeatedNames ==
  ASSUME Structure, NamesInv, NEW h \in Live, Defeated(h)
  PROVE  NamesInv'
<1> DEFINE a == Chosen(h)
           n == IF a > LastSuffix THEN routes[h].name ELSE a
           item == NewItem(h, routes[h].name, Handoff(h), None, HoldsName(h, n))
<1>1. /\ h \in DOMAIN routes /\ ~routes[h].dead /\ routes[h] \in RouteType
      /\ Live' = Live /\ DOMAIN routes' = DOMAIN routes
      /\ \A g \in DOMAIN routes : g # h => routes'[g] = routes[g]
      /\ routes'[h].name = n /\ routes'[h].attempt = a
      /\ routes'[h].dead = (a > LastSuffix) /\ routes'[h].full = FALSE
      /\ item \in ItemType
      /\ (UNCHANGED <<withdrawals, next_token>> \/ Enqueue(item))
  BY DefeatedStep
<1>2. a \in Nat /\ a > routes[h].attempt /\ (a \notin NamesInUse(h) \/ a > LastSuffix)
      /\ routes[h].attempt \in Nat /\ routes[h].name \in Nat /\ LastSuffix \in Nat
  BY <1>1, ChosenIsFree, WithdrawalAssumption DEF Structure, RouteType
<1>3. item.route = None /\ item.name = routes[h].name /\ item.holds_name = (n = routes[h].name)
  BY DEF NewItem, HoldsName
<1> HIDE DEF item
<1>4. \A j \in DOMAIN withdrawals' :
        \/ j \in DOMAIN withdrawals /\ withdrawals'[j] = withdrawals[j]
        \/ withdrawals'[j] = item
  BY <1>1, EnqueueStep DEF Structure
<1>5. a <= LastSuffix => a # routes[h].name
  BY <1>1, <1>2 DEF NamesInv, SuffixesGrow
<1> HIDE DEF a
<1>6. ~(a > LastSuffix) =>
        /\ \A g \in DOMAIN routes : g # h => routes[g].name # a
        /\ \A j \in DOMAIN withdrawals :
             withdrawals[j].route = None /\ withdrawals[j].holds_name => withdrawals[j].name # a
  BY <1>2 DEF NamesInUse, HeldName
<1>7. NamesExclusive'
  <2>1. ASSUME NEW g \in DOMAIN routes, g # h PROVE routes'[g].name # routes'[h].name
    BY <1>1, <1>6, <2>1 DEF NamesInv, NamesExclusive
  <2>2. \A f, g \in DOMAIN routes' : routes'[f].name = routes'[g].name => f = g
    BY <1>1, <2>1 DEF NamesInv, NamesExclusive
  <2>3. ASSUME NEW g \in DOMAIN routes', NEW j \in DOMAIN withdrawals',
               withdrawals'[j].route = None, withdrawals'[j].holds_name,
               withdrawals'[j].name = routes'[g].name
        PROVE  routes'[g].dead
    <3>1. CASE a > LastSuffix
      <4>1. routes'[h].dead /\ routes'[h].name = routes[h].name
        BY <1>1, <3>1
      <4>2. CASE withdrawals'[j] = item
        BY <1>1, <1>3, <2>1, <2>3, <4>1, <4>2
      <4>3. CASE j \in DOMAIN withdrawals /\ withdrawals'[j] = withdrawals[j]
        BY <1>1, <2>3, <4>1, <4>3 DEF NamesInv, NamesExclusive
      <4> QED
        BY <1>4, <4>2, <4>3
    <3>2. CASE ~(a > LastSuffix)
      <4>1. n = a /\ n # routes[h].name
        BY <1>2, <1>5, <3>2
      <4>2. withdrawals'[j] # item
        BY <1>3, <2>3, <4>1
      <4>3. j \in DOMAIN withdrawals /\ withdrawals'[j] = withdrawals[j]
        BY <1>4, <4>2
      <4>4. g # h
        BY <1>1, <1>6, <2>3, <3>2, <4>1, <4>3
      <4> QED
        BY <1>1, <2>3, <4>3, <4>4 DEF NamesInv, NamesExclusive
    <3> QED
      BY <3>1, <3>2
  <2> QED
    BY <2>2, <2>3 DEF NamesExclusive
<1>8. SuffixesGrow'
  BY <1>1, <1>2 DEF NamesInv, SuffixesGrow
<1>9. Superseded'
  <2> SUFFICES ASSUME NEW g \in Live, NEW j \in DOMAIN withdrawals',
                      routes'[g].full, routes'[g].name = withdrawals'[j].name,
                      withdrawals'[j].route = None, NEW e \in withdrawals'[j].owned
               PROVE  e[1] \notin Published(g)
    BY <1>1 DEF Superseded
  <2>1. g # h /\ g \in DOMAIN routes /\ routes'[g] = routes[g]
    BY <1>1 DEF Live
  <2>2. withdrawals'[j] # item
    BY <1>1, <1>3, <2>1 DEF NamesInv, NamesExclusive
  <2> QED
    BY <1>4, <2>1, <2>2 DEF NamesInv, Superseded
<1> QED
  BY <1>7, <1>8, <1>9 DEF NamesInv

LEMMA NamesStep ==
  ASSUME RegNames \cap (1 .. LastSuffix) = {}
  PROVE  Structure /\ NamesInv /\ [Next]_vars => NamesInv'
<1> SUFFICES ASSUME Structure, NamesInv, [Next]_vars PROVE NamesInv'
  OBVIOUS
<1>1. ASSUME NEW n \in RegNames, Register(n) PROVE NamesInv'
  BY <1>1, RegisterNames
<1>2. ASSUME NEW h \in Live, NEW kinds \in EmitSets, NEW on \in SUBSET Families \ {{}},
             Transmitted(h, kinds, on)
      PROVE  NamesInv'
  BY <1>2, TransmittedNames
<1>3. ASSUME NEW h \in Live, Defeated(h) PROVE NamesInv'
  BY <1>3, DefeatedNames
<1>4. ASSUME NEW h \in Live, Unregister(h) PROVE NamesInv'
  <2> DEFINE item == NewItem(h, routes[h].name, routes[h].goodbye, h, FALSE)
  <2>1. /\ DOMAIN routes' = DOMAIN routes
        /\ \A g \in DOMAIN routes : g # h => routes'[g] = routes[g]
        /\ routes'[h].withdrawing
        /\ routes'[h].name = routes[h].name /\ routes'[h].attempt = routes[h].attempt
        /\ routes'[h].dead = routes[h].dead /\ routes'[h].full = routes[h].full
        /\ h # None /\ item \in ItemType /\ Enqueue(item)
    BY <1>4, UnregisterStep
  <2>2. item.route = h
    BY DEF NewItem
  <2> HIDE DEF item
  <2>3. \A j \in DOMAIN withdrawals' :
          \/ j \in DOMAIN withdrawals /\ withdrawals'[j] = withdrawals[j]
          \/ withdrawals'[j] = item
    BY <2>1, EnqueueStep DEF Structure
  <2>4. \A j \in DOMAIN withdrawals' : withdrawals'[j].route = None =>
          j \in DOMAIN withdrawals /\ withdrawals'[j] = withdrawals[j]
    BY <2>1, <2>2, <2>3
  <2> QED
    BY <2>1, <2>4, NamesKept
<1>5. ASSUME NEW h \in DOMAIN routes, ForceRemove(h) PROVE NamesInv'
  <2>1. /\ DOMAIN routes' \subseteq DOMAIN routes
        /\ DOMAIN withdrawals' \subseteq DOMAIN withdrawals
        /\ \A g \in DOMAIN routes' : routes'[g] = routes[g]
        /\ \A j \in DOMAIN withdrawals' : withdrawals'[j] = withdrawals[j]
    BY <1>5, ForceRemoveStructure
  <2> QED
    BY <2>1, NamesKept
<1>6. CASE PollWithdrawal
  <2>1. /\ routes' = routes /\ DOMAIN withdrawals' = DOMAIN withdrawals
        /\ \A j \in DOMAIN withdrawals : SameRecords(withdrawals'[j], withdrawals[j])
    BY <1>6, PollStep
  <2> QED
    BY <2>1, NamesKept DEF SameRecords
<1>7. ASSUME NEW outcome \in [Families -> Outcomes], NoteWithdrawalResult(outcome)
      PROVE  NamesInv'
  <2>1. /\ routes' = routes /\ DOMAIN withdrawals' = DOMAIN withdrawals
        /\ \A j \in DOMAIN withdrawals : SameRecords(withdrawals'[j], withdrawals[j])
    BY <1>7, NoteStep
  <2> QED
    BY <2>1, NamesKept DEF SameRecords
<1>8. CASE DrainCompleted
  <2>1. /\ DOMAIN routes' \subseteq DOMAIN routes
        /\ DOMAIN withdrawals' \subseteq DOMAIN withdrawals
        /\ \A g \in DOMAIN routes' : routes'[g] = routes[g]
        /\ \A j \in DOMAIN withdrawals' : withdrawals'[j] = withdrawals[j]
    BY <1>8, DrainStep
  <2> QED
    BY <2>1, NamesKept
<1>9. CASE Tick
  <2>1. UNCHANGED <<routes, withdrawals>>
    BY <1>9 DEF Tick
  <2> QED
    BY <2>1, NamesKept
<1>10. CASE UNCHANGED vars
  <2>1. UNCHANGED <<routes, withdrawals>>
    BY <1>10 DEF vars
  <2> QED
    BY <2>1, NamesKept
<1> QED
  BY <1>1, <1>2, <1>3, <1>4, <1>5, <1>6, <1>7, <1>8, <1>9, <1>10 DEF Next

(* A goodbye never speaks over a live claim: not over a record a live      *)
(* route announced in full under that name, nor over an address a live     *)
(* sibling advertises (poll_withdrawal_transmit, sibling_retained_addrs,   *)
(* reclaim_detached_goodbyes, the choice of a new suffix), provided nobody *)
(* registers a suffixed name outright: the run service_rename shows such a *)
(* service renamed to the name it has, under the goodbye of that name.     *)
THEOREM NoGoodbyeOverLiveClaims ==
  ASSUME RegNames \cap (1 .. LastSuffix) = {}
  PROVE  Spec => NoGoodbyeOverLiveClaim
<1> DEFINE Quiet ==
      (round = None /\ round' # None) =>
        \A h \in Live : \A k \in round'.kinds :
          /\ (routes[h].full /\ routes[h].name = round'.name) => k \notin Published(h)
          /\ k = "host" => \A f \in Families : <<"host", f>> \notin routes[h].goodbye
<1>1. Init => NamesInv
  <2> SUFFICES ASSUME Init PROVE NamesInv
    OBVIOUS
  <2>1. DOMAIN routes = {} /\ DOMAIN withdrawals = {}
    BY DEF Init
  <2> QED
    BY <2>1 DEF NamesInv, NamesExclusive, SuffixesGrow, Superseded
<1>2. Structure /\ NamesInv /\ [Next]_vars => NamesInv'
  BY NamesStep
<1>3. Structure /\ NamesInv /\ [Next]_vars => [Quiet]_vars
  <2> SUFFICES ASSUME Structure, NamesInv, [Next]_vars, round = None, round' # None,
                      NEW h \in Live, NEW k \in round'.kinds
               PROVE  /\ (routes[h].full /\ routes[h].name = round'.name) => k \notin Published(h)
                      /\ k = "host" => \A f \in Families : <<"host", f>> \notin routes[h].goodbye
    OBVIOUS
  <2>1. PollWithdrawal
    BY DEF Next, vars, Register, Transmitted, Defeated, Unregister, ForceRemove,
           NoteWithdrawalResult, DrainCompleted, Tick
  <2> DEFINE item == withdrawals[round'.token]
  <2>2. /\ round'.token \in DOMAIN withdrawals
        /\ k \in Named(item) /\ round'.name = item.name
    BY <2>1, PollStep
  <2>3. PICK f \in Families : <<k, f>> \in item.owned
    BY <2>2 DEF Named, Owing
  <2>4. CASE item.route = None
    <3>1. k # "host"
      BY <2>2, <2>3, <2>4 DEF Structure, ItemsMatchRoutes
    <3>2. routes[h].full /\ routes[h].name = item.name => k \notin Published(h)
      BY <2>2, <2>3, <2>4 DEF NamesInv, Superseded
    <3> QED
      BY <2>2, <3>1, <3>2
  <2>5. CASE item.route # None
    <3>1. /\ item.route \in DOMAIN routes /\ routes[item.route].withdrawing
          /\ item.name = routes[item.route].name
      BY <2>2, <2>5 DEF Structure, ItemsMatchRoutes
    <3>2. h # item.route /\ h \in DOMAIN routes
      BY <3>1 DEF Live
    <3>3. routes[h].name # item.name
      BY <3>1, <3>2 DEF NamesInv, NamesExclusive
    <3>4. k = "host" => \A e \in Families : <<"host", e>> \notin routes[h].goodbye
      BY <2>2, <2>5, <3>2 DEF Named, HostRetained
    <3> QED
      BY <2>2, <3>3, <3>4
  <2> QED
    BY <2>4, <2>5
<1> QED
  BY <1>1, <1>2, <1>3, QueueMatchesTable, PTL DEF Spec, NoGoodbyeOverLiveClaim

-----------------------------------------------------------------------------
(* Spacing.                                                                *)

CopiesShape ==
  \A c \in copies : /\ c[1] \in Nat /\ c[1] < next_token /\ c[3] \in Nat
                    /\ c[3] <= now /\ now < c[3] + WITHDRAWAL_INTERVAL

(***************************************************************************)
(* An item that still owes a family it reached waits out the interval or   *)
(* goes to its ceiling.                                                    *)
(***************************************************************************)
Waits(c, item) ==
  c[2] \in Owing(item) =>
    \/ item.final_attempt
    \/ Sooner(c[3] + WITHDRAWAL_INTERVAL, item.ceiling_at) <= item.next_at

Measured(c) == c[3] + WITHDRAWAL_INTERVAL <= MaxInstant /\ c[1] \in DOMAIN withdrawals

Spaced ==
  \A c \in copies : Measured(c) =>
    /\ Waits(c, withdrawals[c[1]])
    /\ round # None /\ round.token = c[1] /\ c[2] \in round.debt =>
         withdrawals[c[1]].final_attempt

SpacedInv == CopiesShape /\ Spaced

(* Steps that only remove copies and items, or debts of items.             *)
LEMMA SpacedKept ==
  ASSUME SpacedInv, copies' \subseteq copies, next_token' \in {next_token, next_token + 1},
         next_token \in Nat, now' = now, round' = round,
         \A j \in DOMAIN withdrawals' : j # next_token =>
           /\ j \in DOMAIN withdrawals
           /\ Owing(withdrawals'[j]) \subseteq Owing(withdrawals[j])
           /\ withdrawals'[j].ceiling_at = withdrawals[j].ceiling_at
           /\ withdrawals'[j].next_at = withdrawals[j].next_at
           /\ withdrawals'[j].final_attempt = withdrawals[j].final_attempt
  PROVE  SpacedInv'
<1>1. CopiesShape'
  BY DEF SpacedInv, CopiesShape
<1>2. Spaced'
  <2> SUFFICES ASSUME NEW c \in copies', Measured(c)'
               PROVE  /\ Waits(c, withdrawals'[c[1]])
                      /\ round # None /\ round.token = c[1] /\ c[2] \in round.debt =>
                           withdrawals'[c[1]].final_attempt
    BY DEF Spaced, Waits, Owing
  <2>1. c \in copies /\ c[1] # next_token
    BY DEF SpacedInv, CopiesShape
  <2>2. Measured(c)
    BY <2>1 DEF Measured
  <2> QED
    BY <2>1, <2>2 DEF SpacedInv, Spaced, Measured, Waits
<1> QED
  BY <1>1, <1>2 DEF SpacedInv

(* A round opened within the interval of an accepted copy is the last one, *)
(* at the ceiling.                                                         *)
LEMMA PollSpaced ==
  ASSUME Structure, SpacedInv, PollWithdrawal
  PROVE  SpacedInv'
<1> USE ClockAssumption, WithdrawalAssumption
<1>0. now \in Nat
  BY DEF Structure, WShape, Instant
<1>1. /\ UNCHANGED <<now, next_token>>
      /\ DOMAIN withdrawals' = DOMAIN withdrawals
      /\ \A j \in DOMAIN withdrawals :
           /\ withdrawals[j] \in ItemType
           /\ Owing(withdrawals'[j]) \subseteq Owing(withdrawals[j])
           /\ withdrawals'[j].ceiling_at = withdrawals[j].ceiling_at
  BY PollStep DEF SameRecords
<1>2. copies' = copies
  BY DEF PollWithdrawal
<1>3. CopiesShape'
  BY <1>1, <1>2 DEF SpacedInv, CopiesShape
<1>4. Spaced'
  <2> SUFFICES ASSUME NEW c \in copies, Measured(c)
               PROVE  /\ Waits(c, withdrawals'[c[1]])
                      /\ round' # None /\ round'.token = c[1] /\ c[2] \in round'.debt =>
                           withdrawals'[c[1]].final_attempt
    BY <1>1, <1>2 DEF Spaced, Waits, Owing, Measured
  <2> DEFINE j == c[1]
             old == withdrawals[j]
             new == withdrawals'[j]
  <2>1. /\ c[3] \in Nat /\ now < c[3] + WITHDRAWAL_INTERVAL
        /\ c[3] + WITHDRAWAL_INTERVAL \in Nat /\ j \in DOMAIN withdrawals
    BY DEF SpacedInv, CopiesShape, Measured
  <2>2. old \in ItemType /\ Waits(c, old) /\ Owing(new) \subseteq Owing(old)
        /\ new.ceiling_at = old.ceiling_at
    BY <1>1, <2>1 DEF SpacedInv, Spaced
  <2>3. old.next_at \in Nat /\ old.ceiling_at \in Nat /\ old.final_attempt \in BOOLEAN
    BY <2>2 DEF ItemType, Instant
  <2>4. \/ new = old
        \/ new = Skip(old) /\ Selectable(old) /\ (round' = None \/ j # round'.token)
        \/ /\ new = [old EXCEPT !.final_attempt = @ \/ AtCeiling(old)]
           /\ round' = None \/ j = round'.token
    BY <2>1, PollStep
  <2>5. round' # None /\ round'.token = j =>
          /\ Selectable(old) /\ round'.debt = Owing(old)
          /\ new = [old EXCEPT !.final_attempt = @ \/ AtCeiling(old)]
    BY <2>1, PollStep
  <2> HIDE DEF j, old, new
  <2>6. CASE new = old
    <3>1. round' # None /\ round'.token = j /\ c[2] \in round'.debt => new.final_attempt
      <4> SUFFICES ASSUME round' # None, round'.token = j, c[2] \in round'.debt
                   PROVE  new.final_attempt
        OBVIOUS
      <4>1. Selectable(old) /\ c[2] \in Owing(old) /\ (AtCeiling(old) => new.final_attempt)
        BY <2>2, <2>3, <2>5 DEF ItemType
      <4> QED
        BY <1>0, <1>1, <2>1, <2>2, <2>3, <2>6, <4>1 DEF Selectable, AtCeiling, Waits, Sooner
    <3> QED
      BY <2>2, <2>6, <3>1 DEF old, new, j
  <2>7. CASE new = Skip(old) /\ Selectable(old) /\ (round' = None \/ j # round'.token)
    <3> DEFINE later == checked_add(now, WITHDRAWAL_RETRY_BACKOFF)
    <3>1. \/ new.owed = NothingOwed
          \/ new.final_attempt = TRUE
          \/ /\ later # None /\ ~AtCeiling(old) /\ new.next_at = later
             /\ new.final_attempt = old.final_attempt
      BY <2>2, <2>7 DEF Skip, ItemType
    <3>2. CASE new.owed = NothingOwed
      BY <2>7, <3>2 DEF Waits, Owing, NothingOwed, old, new, j
    <3>3. CASE new.final_attempt = TRUE
      BY <2>7, <3>3 DEF Waits, old, new, j
    <3>4. CASE /\ later # None /\ ~AtCeiling(old) /\ new.next_at = later
               /\ new.final_attempt = old.final_attempt
      <4>1. later = now + WITHDRAWAL_RETRY_BACKOFF /\ old.next_at <= now
        BY <2>7, <3>4 DEF checked_add, Selectable
      <4>2. Waits(c, new)
        BY <1>0, <1>1, <2>1, <2>2, <2>3, <3>4, <4>1 DEF Waits, Sooner
      <4> QED
        BY <2>7, <4>2 DEF new, j
    <3> QED
      BY <3>1, <3>2, <3>3, <3>4
  <2>8. CASE new = [old EXCEPT !.final_attempt = @ \/ AtCeiling(old)]
    <3>1. /\ new.next_at = old.next_at /\ new.owed = old.owed
          /\ new.final_attempt = (old.final_attempt \/ AtCeiling(old))
      BY <2>2, <2>8 DEF ItemType
    <3>2. Waits(c, new)
      BY <2>2, <3>1 DEF Waits, Owing
    <3>3. round' # None /\ round'.token = j /\ c[2] \in round'.debt => new.final_attempt
      <4> SUFFICES ASSUME round' # None, round'.token = j, c[2] \in round'.debt,
                          ~AtCeiling(old)
                   PROVE  old.final_attempt
        BY <3>1
      <4>1. Selectable(old) /\ c[2] \in Owing(old)
        BY <2>5
      <4> QED
        BY <1>0, <1>1, <2>1, <2>2, <2>3, <4>1 DEF Selectable, AtCeiling, Waits, Sooner
    <3> QED
      BY <3>2, <3>3 DEF new, j
  <2> QED
    BY <2>4, <2>6, <2>7, <2>8
<1> QED
  BY <1>3, <1>4 DEF SpacedInv

(* A confirmed copy sets the interval; a second one within it was the last *)
(* attempt.                                                                *)
LEMMA NoteSpaced ==
  ASSUME Structure, RoundSpeaks, SpacedInv, NEW outcome \in [Families -> Outcomes],
         NoteWithdrawalResult(outcome)
  PROVE  SpacedInv'
<1> USE ClockAssumption, WithdrawalAssumption
<1>0. now \in Nat
  BY DEF Structure, WShape, Instant
<1>1. /\ UNCHANGED <<now, next_token>> /\ round # None /\ round' = None
      /\ DOMAIN withdrawals' = DOMAIN withdrawals
      /\ \A j \in DOMAIN withdrawals :
           /\ withdrawals[j] \in ItemType
           /\ Owing(withdrawals'[j]) \subseteq Owing(withdrawals[j])
           /\ withdrawals'[j].ceiling_at = withdrawals[j].ceiling_at
           /\ withdrawals'[j].final_attempt = withdrawals[j].final_attempt
           /\ j # round.token => withdrawals'[j] = withdrawals[j]
           /\ j = round.token => withdrawals'[j] = Settled(withdrawals[j], outcome)
  BY NoteStep DEF SameRecords
<1>2. \A c \in copies' : \/ c \in copies
                         \/ \E f \in round.debt : /\ outcome[f] = "accepted"
                                                  /\ c = <<round.token, f, now>>
  BY DEF NoteWithdrawalResult
<1>3. CopiesShape'
  <2>1. round.token \in Nat /\ round.token < next_token
    BY <1>1 DEF Structure, WShape, RoundType
  <2> QED
    BY <1>0, <1>1, <1>2, <2>1 DEF SpacedInv, CopiesShape
<1>4. Spaced'
  <2> SUFFICES ASSUME NEW c \in copies', Measured(c)
               PROVE  Waits(c, withdrawals'[c[1]])
    BY <1>1 DEF Spaced, Waits, Owing, Measured
  <2> DEFINE j == c[1]
             old == withdrawals[j]
             new == withdrawals'[j]
  <2>1. j \in DOMAIN withdrawals /\ old \in ItemType /\ Owing(new) \subseteq Owing(old)
        /\ new.ceiling_at = old.ceiling_at /\ new.final_attempt = old.final_attempt
        /\ c[3] + WITHDRAWAL_INTERVAL <= MaxInstant
    BY <1>1 DEF Measured
  <2>2. CASE c \in copies /\ j # round.token
    BY <1>1, <2>1, <2>2 DEF SpacedInv, Spaced
  <2>3. CASE c \in copies /\ j = round.token
    <3>1. c[2] \in Owing(new) => c[2] \in round.debt
      BY <1>1, <2>1, <2>3 DEF RoundSpeaks
    <3>2. c[2] \in round.debt => old.final_attempt
      BY <1>1, <2>3 DEF SpacedInv, Spaced
    <3> QED
      BY <2>1, <3>1, <3>2 DEF Waits
  <2>4. CASE c \notin copies
    <3>1. PICK f \in round.debt : outcome[f] = "accepted" /\ c = <<round.token, f, now>>
      BY <1>2, <2>4
    <3>2. c[2] = f /\ c[3] = now /\ j = round.token /\ new = Settled(old, outcome)
      BY <1>1, <2>1, <3>1
    <3> HIDE DEF j, old, new
    <3>3. c[2] \in Owing(new) =>
            new.next_at = Sooner(now + WITHDRAWAL_INTERVAL, old.ceiling_at)
      <4> SUFFICES ASSUME f \in Owing(old)
                   PROVE  new.next_at = Sooner(now + WITHDRAWAL_INTERVAL, old.ceiling_at)
        BY <2>1, <3>2
      <4> DEFINE sent == {e \in Owing(old) : outcome[e] = "accepted"}
      <4>1. sent # {}
        BY <3>1
      <4>2. new.next_at = NextAt(old, sent # {})
        BY <2>1, <3>2 DEF Settled, ItemType
      <4>3. checked_add(now, WITHDRAWAL_INTERVAL) = now + WITHDRAWAL_INTERVAL
            /\ now + WITHDRAWAL_INTERVAL # None
        BY <1>0, <2>1, <3>2 DEF checked_add
      <4> HIDE DEF sent
      <4> QED
        BY <4>1, <4>2, <4>3 DEF NextAt, OrNow
    <3>4. old.ceiling_at \in Nat
      BY <2>1 DEF ItemType, Instant
    <3>5. Waits(c, new)
      BY <1>0, <2>1, <3>2, <3>3, <3>4 DEF Waits, Sooner
    <3> QED
      BY <3>5 DEF new, j
  <2> QED
    BY <2>2, <2>3, <2>4
<1> QED
  BY <1>3, <1>4 DEF SpacedInv

LEMMA SpacedStep == Structure /\ RoundSpeaks /\ SpacedInv /\ [Next]_vars => SpacedInv'
<1> SUFFICES ASSUME Structure, RoundSpeaks, SpacedInv, [Next]_vars PROVE SpacedInv'
  OBVIOUS
<1>0. next_token \in Nat /\ \A j \in DOMAIN withdrawals : withdrawals[j] \in ItemType
  BY DEF Structure, WShape
<1>1. ASSUME NEW n \in RegNames, Register(n) PROVE SpacedInv'
  <2>1. UNCHANGED <<now, withdrawals, next_token, round, copies>>
    BY <1>1 DEF Register
  <2> QED
    BY <1>0, <2>1, SpacedKept
<1>2. ASSUME NEW h \in Live, NEW kinds \in EmitSets, NEW on \in SUBSET Families \ {{}},
             Transmitted(h, kinds, on)
      PROVE  SpacedInv'
  <2>1. UNCHANGED <<now, next_token, round, copies>>
    BY <1>2 DEF Transmitted
  <2>2. \A j \in DOMAIN withdrawals' :
          /\ j \in DOMAIN withdrawals
          /\ withdrawals'[j] = withdrawals[j] \/ withdrawals'[j] = Narrowed(withdrawals[j], h)
    BY <1>2, TransmittedStep, Reclaimed DEF Structure
  <2>3. \A j \in DOMAIN withdrawals' :
          /\ Owing(withdrawals'[j]) \subseteq Owing(withdrawals[j])
          /\ withdrawals'[j].ceiling_at = withdrawals[j].ceiling_at
          /\ withdrawals'[j].next_at = withdrawals[j].next_at
          /\ withdrawals'[j].final_attempt = withdrawals[j].final_attempt
    BY <1>0, <2>2, NarrowedType
  <2> QED
    BY <1>0, <2>1, <2>2, <2>3, SpacedKept
<1>3. ASSUME NEW h \in Live, Defeated(h) PROVE SpacedInv'
  <2>1. UNCHANGED <<now, round, copies>>
    BY <1>3 DEF Defeated
  <2>2. PICK item \in ItemType : UNCHANGED <<withdrawals, next_token>> \/ Enqueue(item)
    BY <1>3, DefeatedStep
  <2>3. /\ next_token' \in {next_token, next_token + 1}
        /\ \A j \in DOMAIN withdrawals' : j # next_token =>
             j \in DOMAIN withdrawals /\ withdrawals'[j] = withdrawals[j]
    BY <2>2, EnqueueStep DEF Structure
  <2> QED
    BY <1>0, <2>1, <2>3, SpacedKept
<1>4. ASSUME NEW h \in Live, Unregister(h) PROVE SpacedInv'
  <2>1. UNCHANGED <<now, round, copies>>
    BY <1>4 DEF Unregister
  <2>2. PICK item \in ItemType : Enqueue(item)
    BY <1>4, UnregisterStep
  <2>3. /\ next_token' \in {next_token, next_token + 1}
        /\ \A j \in DOMAIN withdrawals' : j # next_token =>
             j \in DOMAIN withdrawals /\ withdrawals'[j] = withdrawals[j]
    BY <2>2, EnqueueStep DEF Structure
  <2> QED
    BY <1>0, <2>1, <2>3, SpacedKept
<1>5. ASSUME NEW h \in DOMAIN routes, ForceRemove(h) PROVE SpacedInv'
  <2>1. UNCHANGED <<now, next_token, round, copies>>
    BY <1>5 DEF ForceRemove
  <2>2. \A j \in DOMAIN withdrawals' : j \in DOMAIN withdrawals /\ withdrawals'[j] = withdrawals[j]
    BY <1>5, ForceRemoveStructure
  <2> QED
    BY <1>0, <2>1, <2>2, SpacedKept
<1>6. CASE PollWithdrawal
  BY <1>6, PollSpaced
<1>7. ASSUME NEW outcome \in [Families -> Outcomes], NoteWithdrawalResult(outcome)
      PROVE  SpacedInv'
  BY <1>7, NoteSpaced
<1>8. CASE DrainCompleted
  <2>1. UNCHANGED <<now, next_token, round>> /\ copies' \subseteq copies
    BY <1>8 DEF DrainCompleted
  <2>2. \A j \in DOMAIN withdrawals' : j \in DOMAIN withdrawals /\ withdrawals'[j] = withdrawals[j]
    BY <1>8, DrainStep
  <2> QED
    BY <1>0, <2>1, <2>2, SpacedKept
<1>9. CASE Tick
  <2>1. /\ UNCHANGED <<withdrawals, next_token, round>> /\ now' = now + 1 /\ now \in Nat
        /\ copies' = {c \in copies : now' - c[3] < WITHDRAWAL_INTERVAL}
    BY <1>9 DEF Tick, Structure, WShape, Instant
  <2>2. CopiesShape'
    BY <2>1, WithdrawalAssumption DEF SpacedInv, CopiesShape
  <2>3. Spaced'
    BY <2>1 DEF SpacedInv, Spaced, Measured, Waits, Owing
  <2> QED
    BY <2>2, <2>3 DEF SpacedInv
<1>10. CASE UNCHANGED vars
  <2>1. UNCHANGED <<now, withdrawals, next_token, round, copies>>
    BY <1>10 DEF vars
  <2> QED
    BY <1>0, <2>1, SpacedKept
<1> QED
  BY <1>1, <1>2, <1>3, <1>4, <1>5, <1>6, <1>7, <1>8, <1>9, <1>10 DEF Next

(* Copies of one goodbye on one family are an interval apart, however the  *)
(* other families fail and retry and however late a round is confirmed,    *)
(* but for the last one at the ceiling (note_withdrawal_result,            *)
(* poll_withdrawal_transmit).                                              *)
THEOREM GoodbyesAreSpaced == Spec => GoodbyesSpaced
<1> DEFINE Apart ==
      \A c \in copies' \ copies :
        (\E d \in copies : /\ d[1] = c[1] /\ d[2] = c[2]
                            /\ d[3] + WITHDRAWAL_INTERVAL <= MaxInstant)
          => c[1] \in DOMAIN withdrawals /\ withdrawals[c[1]].final_attempt
<1>1. Init => RoundSpeaks /\ SpacedInv
  BY DEF Init, RoundSpeaks, SpacedInv, CopiesShape, Spaced
<1>2. SpacedInv /\ [Next]_vars => [Apart]_vars
  <2> SUFFICES ASSUME SpacedInv, [Next]_vars, NEW c \in copies' \ copies, NEW d \in copies,
                      d[1] = c[1], d[2] = c[2], d[3] + WITHDRAWAL_INTERVAL <= MaxInstant
               PROVE  c[1] \in DOMAIN withdrawals /\ withdrawals[c[1]].final_attempt
    OBVIOUS
  <2>1. PICK outcome \in [Families -> Outcomes] : NoteWithdrawalResult(outcome)
    BY DEF Next, vars, Register, Transmitted, Defeated, Unregister, ForceRemove,
           PollWithdrawal, DrainCompleted, Tick
  <2>2. /\ round # None /\ round.token \in DOMAIN withdrawals
        /\ c[1] = round.token /\ c[2] \in round.debt
    BY <2>1 DEF NoteWithdrawalResult
  <2> QED
    BY <2>2 DEF SpacedInv, Spaced, Measured
<1> QED
  BY <1>1, <1>2, SpacedStep, RoundSpeaksStep, QueueMatchesTable, PTL DEF Spec, GoodbyesSpaced

=============================================================================
