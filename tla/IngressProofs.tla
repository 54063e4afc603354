---------------------------- MODULE IngressProofs ---------------------------
(***************************************************************************)
(* TLAPS proofs about what an endpoint makes of what it receives.  The two *)
(* memories it keeps: the conflict-flood limit, for every burst length,    *)
(* window and stream of conflicts, and the two tiers of relinquished       *)
(* records (Relinquished), which implement the screen's promise (Screen)   *)
(* for every set of families, identities and generations, every retention  *)
(* and both ceilings.  And the routing of one datagram, for every datagram *)
(* and every endpoint: the walk of RouteEvents, and the comparison of two  *)
(* proposals it may end in.                                                *)
(***************************************************************************)
EXTENDS ConflictFlood, Relinquished, Routing,
        FiniteSetTheorems, NaturalsInduction, SequenceTheorems, TLAPS

-----------------------------------------------------------------------------
(* The conflict-flood limit.                                               *)

LEN == CONFLICT_BURST_LEN

(***************************************************************************)
(* The slot written k conflicts before the newest.                         *)
(***************************************************************************)
Back(slot, k) == IF k < slot THEN slot - 1 - k ELSE slot - 1 - k + LEN

HistoryShape ==
  /\ clock \in Nat /\ history \in Seq(Nat)
  /\ \A i \in 1 .. Len(history) : history[i] <= clock
  /\ \A i \in 1 .. Len(history) : \A j \in i .. Len(history) : history[i] <= history[j]

FloodShape ==
  /\ flood \in [ring : [Slots -> Nat \cup {None}], slot : Slots,
                latched_at : Nat \cup {None}, accepted : SUBSET Owners]
  /\ raised \subseteq Owners
  /\ raised # {} => flood.accepted = raised

(***************************************************************************)
(* The conflicts since the flood last lapsed are those after the b-th: the *)
(* ring holds the last of them, none came a window late but the first, and *)
(* the epoch is the end of the first burst among them.                     *)
(***************************************************************************)
RingHolds(b) ==
  \A k \in Slots : flood.ring[Back(flood.slot, k)] =
                     IF k < Len(history) - b THEN history[Len(history) - k] ELSE None

RunUnbroken(b) ==
  \A j \in b + 1 .. Len(history) - 1 : history[j + 1] - history[j] <= CONFLICT_BURST_WINDOW

RunStarts(b) ==
  b > 0 => b < Len(history) /\ history[b + 1] - history[b] > CONFLICT_BURST_WINDOW

Bursts(b) == {j \in b + LEN .. Len(history) :
                history[j] - history[j - LEN + 1] <= CONFLICT_BURST_WINDOW}

LatchedOnce(b) ==
  IF flood.latched_at = None THEN Bursts(b) = {}
  ELSE \E j \in Bursts(b) : flood.latched_at = history[j] /\ \A i \in Bursts(b) : j <= i

RunSince(b) == RingHolds(b) /\ RunUnbroken(b) /\ RunStarts(b) /\ LatchedOnce(b)

FloodInv == HistoryShape /\ FloodShape /\ \E b \in 0 .. Len(history) : RunSince(b)

-----------------------------------------------------------------------------
(* The ring.                                                               *)

LEMMA NextSlot ==
  ASSUME NEW s \in Slots
  PROVE  /\ (s + 1) % LEN = IF s + 1 = LEN THEN 0 ELSE s + 1
         /\ (s + 1) % LEN \in Slots
BY FloodAssumption DEF Slots, LEN

LEMMA BackSlot ==
  ASSUME NEW s \in Slots, NEW k \in Slots
  PROVE  /\ Back(s, k) \in Slots
         /\ Back((s + 1) % LEN, 0) = s
         /\ k # 0 => Back((s + 1) % LEN, k) = Back(s, k - 1)
         /\ k # 0 => Back(s, k - 1) # s
         /\ Back(s, LEN - 1) = s
<1> DEFINE u == (s + 1) % LEN
<1>1. u = IF s + 1 = LEN THEN 0 ELSE s + 1
  BY NextSlot
<1>2. LEN \in Nat \ {0} /\ s \in 0 .. LEN - 1 /\ k \in 0 .. LEN - 1
  BY FloodAssumption DEF Slots, LEN
<1> HIDE DEF u
<1>3. /\ Back(s, k) \in 0 .. LEN - 1
      /\ Back(u, 0) = s
      /\ k # 0 => Back(u, k) = Back(s, k - 1)
      /\ k # 0 => Back(s, k - 1) # s
      /\ Back(s, LEN - 1) = s
  BY <1>1, <1>2 DEF Back
<1> QED
  BY <1>3 DEF u, Slots, LEN

LEMMA NewestIs ==
  ASSUME FloodShape
  PROVE  newest(flood) = flood.ring[Back(flood.slot, 0)]
<1>1. LEN \in Nat \ {0} /\ flood.slot \in 0 .. LEN - 1
  BY FloodAssumption DEF Slots, LEN, FloodShape
<1> QED
  BY <1>1 DEF newest, Back, LEN

LEMMA NewestOfRun ==
  ASSUME HistoryShape, FloodShape, NEW b \in 0 .. Len(history), RingHolds(b)
  PROVE  newest(flood) = IF b < Len(history) THEN history[Len(history)] ELSE None
<1>1. 0 \in Slots /\ Len(history) \in Nat
  BY FloodAssumption DEF Slots, HistoryShape
<1>2. flood.ring[Back(flood.slot, 0)] =
        IF 0 < Len(history) - b THEN history[Len(history) - 0] ELSE None
  BY <1>1 DEF RingHolds
<1> QED
  BY <1>1, <1>2, NewestIs

(* A conflict that is counted, after a lapse and within a run.             *)
LEMMA CountedFields ==
  ASSUME FloodShape, clock \in Nat, NEW X \in SUBSET Owners,
         flood' = Count([flood EXCEPT !.accepted = X], clock)
  PROVE  LET full == flood'.ring[flood'.slot] # None
                       /\ clock - flood'.ring[flood'.slot] <= CONFLICT_BURST_WINDOW
         IN /\ flood'.accepted = X
            /\ flood' = [ring |-> flood'.ring, slot |-> flood'.slot,
                         latched_at |-> flood'.latched_at, accepted |-> flood'.accepted]
            /\ Lapsed(flood, clock) =>
                 /\ flood'.ring = [i \in Slots |-> IF i = 0 THEN clock ELSE None]
                 /\ flood'.slot = (0 + 1) % LEN
                 /\ flood'.latched_at = IF full THEN clock ELSE None
            /\ ~Lapsed(flood, clock) =>
                 /\ flood'.ring = [flood.ring EXCEPT ![flood.slot] = clock]
                 /\ flood'.slot = (flood.slot + 1) % LEN
                 /\ flood'.latched_at = IF full /\ flood.latched_at = None THEN clock
                                        ELSE flood.latched_at
<1> DEFINE f == [flood EXCEPT !.accepted = X]
           base == IF Lapsed(f, clock) THEN [NewFlood EXCEPT !.accepted = f.accepted] ELSE f
           ring == [base.ring EXCEPT ![base.slot] = clock]
           slot == (base.slot + 1) % CONFLICT_BURST_LEN
           full == ring[slot] # None /\ clock - ring[slot] <= CONFLICT_BURST_WINDOW
           latched == IF full /\ base.latched_at = None THEN clock ELSE base.latched_at
<1>1. /\ f.ring = flood.ring /\ f.slot = flood.slot /\ f.latched_at = flood.latched_at
      /\ f.accepted = X
  BY DEF FloodShape
<1>2. Lapsed(f, clock) <=> Lapsed(flood, clock)
  BY <1>1 DEF Lapsed, newest
<1>3. Lapsed(flood, clock) =>
        /\ base.ring = [i \in Slots |-> None] /\ base.slot = 0 /\ base.latched_at = None
        /\ base.accepted = X
  BY <1>1, <1>2 DEF NewFlood
<1>4. ~Lapsed(flood, clock) =>
        /\ base.ring = flood.ring /\ base.slot = flood.slot
        /\ base.latched_at = flood.latched_at /\ base.accepted = X
  BY <1>1, <1>2
<1>5. flood' = [ring |-> ring, slot |-> slot, accepted |-> base.accepted, latched_at |-> latched]
  BY DEF Count
<1> HIDE DEF base
<1>6. /\ flood'.ring = ring /\ flood'.slot = slot /\ flood'.accepted = base.accepted
      /\ flood'.latched_at = latched
  <2> HIDE DEF ring, slot, latched
  <2> QED
    BY <1>5
<1>7. base.accepted = X
  BY <1>3, <1>4
<1>8. flood' = [ring |-> flood'.ring, slot |-> flood'.slot,
                latched_at |-> flood'.latched_at, accepted |-> flood'.accepted]
  <2> HIDE DEF ring, slot, latched
  <2> QED
    BY <1>5
<1>9. ASSUME Lapsed(flood, clock)
      PROVE  /\ flood'.ring = [i \in Slots |-> IF i = 0 THEN clock ELSE None]
             /\ flood'.slot = (0 + 1) % LEN
             /\ flood'.latched_at = IF full THEN clock ELSE None
  <2>1. ring = [i \in Slots |-> IF i = 0 THEN clock ELSE None]
    BY <1>3, <1>9
  <2>2. slot = (0 + 1) % LEN
    BY <1>3, <1>9 DEF LEN
  <2> HIDE DEF ring, slot, full
  <2>3. latched = IF full THEN clock ELSE None
    BY <1>3, <1>9
  <2> QED
    BY <1>6, <2>1, <2>2, <2>3
<1>10. ASSUME ~Lapsed(flood, clock)
       PROVE  /\ flood'.ring = [flood.ring EXCEPT ![flood.slot] = clock]
              /\ flood'.slot = (flood.slot + 1) % LEN
              /\ flood'.latched_at = IF full /\ flood.latched_at = None THEN clock
                                     ELSE flood.latched_at
  <2>1. ring = [flood.ring EXCEPT ![flood.slot] = clock]
    BY <1>4, <1>10
  <2>2. slot = (flood.slot + 1) % LEN
    BY <1>4, <1>10 DEF LEN
  <2> HIDE DEF ring, slot, full
  <2>3. latched = IF full /\ flood.latched_at = None THEN clock ELSE flood.latched_at
    BY <1>4, <1>10
  <2> QED
    BY <1>6, <2>1, <2>2, <2>3
<1>11. full <=> /\ flood'.ring[flood'.slot] # None
                /\ clock - flood'.ring[flood'.slot] <= CONFLICT_BURST_WINDOW
  <2> HIDE DEF ring, slot
  <2> QED
    BY <1>6
<1> HIDE DEF full
<1> QED
  BY <1>6, <1>7, <1>8, <1>9, <1>10, <1>11

-----------------------------------------------------------------------------
(* A conflict is counted.                                                  *)

(* One more conflict, at this instant.                                     *)
Grown ==
  /\ Len(history) \in Nat
  /\ Len(history') = Len(history) + 1
  /\ \A i \in 1 .. Len(history) : history'[i] = history[i] /\ history[i] \in Nat
  /\ history'[Len(history) + 1] = clock

LEMMA HistoryGrows ==
  ASSUME HistoryShape, history' = Append(history, clock), UNCHANGED clock
  PROVE  HistoryShape' /\ Grown
<1>1. Len(history) \in Nat /\ Len(history') = Len(history) + 1 /\ history' \in Seq(Nat)
  BY DEF HistoryShape
<1>2. \A i \in 1 .. Len(history) : history'[i] = history[i] /\ history[i] \in Nat
  BY DEF HistoryShape
<1>3. history'[Len(history) + 1] = clock
  BY DEF HistoryShape
<1>4. \A i \in 1 .. Len(history') : history'[i] <= clock
  <2> SUFFICES ASSUME NEW i \in 1 .. Len(history') PROVE history'[i] <= clock
    OBVIOUS
  <2>1. i \in 1 .. Len(history) \/ i = Len(history) + 1
    BY <1>1
  <2> QED
    BY <2>1, <1>2, <1>3 DEF HistoryShape
<1>5. \A i \in 1 .. Len(history') : \A j \in i .. Len(history') : history'[i] <= history'[j]
  <2> SUFFICES ASSUME NEW i \in 1 .. Len(history'), NEW j \in i .. Len(history')
               PROVE  history'[i] <= history'[j]
    OBVIOUS
  <2>1. CASE j = Len(history) + 1
    BY <2>1, <1>3, <1>4
  <2>2. CASE j # Len(history) + 1
    <3>1. i \in 1 .. Len(history) /\ j \in 1 .. Len(history) /\ j \in i .. Len(history)
      BY <2>2, <1>1
    <3>2. history[i] <= history[j]
      BY <3>1 DEF HistoryShape
    <3> QED
      BY <3>1, <3>2, <1>2
  <2> QED
    BY <2>1, <2>2
<1> QED
  BY <1>1, <1>2, <1>3, <1>4, <1>5 DEF HistoryShape, Grown

LEMMA CountedShape ==
  ASSUME HistoryShape, FloodShape, NEW X \in SUBSET Owners, UNCHANGED clock,
         flood' = Count([flood EXCEPT !.accepted = X], clock), raised' = X
  PROVE  FloodShape'
<1>1. flood.slot \in Slots /\ flood.ring \in [Slots -> Nat \cup {None}]
      /\ flood.latched_at \in Nat \cup {None} /\ clock \in Nat
  BY DEF FloodShape, HistoryShape
<1>2. 0 \in Slots
  BY FloodAssumption DEF Slots
<1>3. flood'.ring \in [Slots -> Nat \cup {None}]
  BY <1>1, <1>2, CountedFields
<1>4. flood'.slot \in Slots
  <2>1. flood'.slot = (0 + 1) % LEN \/ flood'.slot = (flood.slot + 1) % LEN
    BY <1>1, CountedFields
  <2>2. (0 + 1) % LEN \in Slots
    BY <1>2, NextSlot
  <2>3. (flood.slot + 1) % LEN \in Slots
    BY <1>1, NextSlot
  <2> QED
    BY <2>1, <2>2, <2>3
<1>5. flood'.latched_at \in Nat \cup {None}
  BY <1>1, CountedFields
<1>6. flood'.accepted = X
  BY <1>1, CountedFields
<1>7. flood' = [ring |-> flood'.ring, slot |-> flood'.slot,
                latched_at |-> flood'.latched_at, accepted |-> flood'.accepted]
  BY <1>1, CountedFields
<1>8. flood' \in [ring : [Slots -> Nat \cup {None}], slot : Slots,
                  latched_at : Nat \cup {None}, accepted : SUBSET Owners]
  BY <1>3, <1>4, <1>5, <1>6, <1>7
<1> QED
  BY <1>6, <1>8 DEF FloodShape

(* The latch of a run the newest conflict belongs to.                      *)
LEMMA LatchStep ==
  ASSUME HistoryShape, Grown, UNCHANGED clock,
         NEW b \in 0 .. Len(history), NEW full \in BOOLEAN,
         flood.latched_at \in Nat \cup {None}, LatchedOnce(b),
         full <=> Len(history') \in Bursts(b)',
         flood'.latched_at = IF full /\ flood.latched_at = None THEN clock ELSE flood.latched_at
  PROVE  LatchedOnce(b)'
<1> DEFINE n == Len(history)
<1>1. /\ n \in Nat /\ Len(history') = n + 1 /\ history'[n + 1] = clock
      /\ \A i \in 1 .. n : history'[i] = history[i]
  BY DEF Grown
<1>2. LEN \in Nat \ {0} /\ b \in Nat
  BY FloodAssumption DEF LEN
<1>3. \A j \in 1 .. n : j \in Bursts(b)' <=> j \in Bursts(b)
  <2> SUFFICES ASSUME NEW j \in 1 .. n PROVE j \in Bursts(b)' <=> j \in Bursts(b)
    OBVIOUS
  <2>1. CASE j \in b + LEN .. n
    <3>1. j - LEN + 1 \in 1 .. n
      BY <1>1, <1>2, <2>1
    <3>2. history'[j] = history[j] /\ history'[j - LEN + 1] = history[j - LEN + 1]
      BY <1>1, <3>1
    <3> QED
      BY <1>1, <1>2, <2>1, <3>2 DEF Bursts
  <2>2. CASE j \notin b + LEN .. n
    BY <1>1, <1>2, <2>2 DEF Bursts
  <2> QED
    BY <2>1, <2>2
<1>4. Bursts(b) \subseteq 1 .. n
  BY <1>1, <1>2 DEF Bursts
<1>5. Bursts(b)' \subseteq 1 .. n + 1
  BY <1>1, <1>2 DEF Bursts
<1>6. CASE flood.latched_at # None
  <2>1. PICK j \in Bursts(b) : flood.latched_at = history[j] /\ \A i \in Bursts(b) : j <= i
    BY <1>6 DEF LatchedOnce
  <2>2. j \in Bursts(b)' /\ flood'.latched_at = history'[j]
    BY <1>1, <1>3, <1>4, <1>6, <2>1
  <2>3. \A i \in Bursts(b)' : j <= i
    <3> SUFFICES ASSUME NEW i \in Bursts(b)' PROVE j <= i
      OBVIOUS
    <3>1. i \in 1 .. n \/ i = n + 1
      BY <1>1, <1>5
    <3> QED
      BY <3>1, <1>1, <1>3, <1>4, <2>1
  <2> QED
    BY <1>6, <2>2, <2>3 DEF LatchedOnce
<1>7. CASE flood.latched_at = None
  <2>1. Bursts(b)' \subseteq {n + 1}
    BY <1>1, <1>3, <1>5, <1>7 DEF LatchedOnce
  <2>2. CASE full
    <3>1. n + 1 \in Bursts(b)'
      BY <1>1, <2>2
    <3>2. flood'.latched_at = history'[n + 1]
      BY <1>1, <1>7, <2>2
    <3>3. \A i \in Bursts(b)' : n + 1 <= i
      BY <1>1, <2>1
    <3>4. flood'.latched_at # None
      BY <1>1, <3>2, ClockAssumption DEF HistoryShape
    <3> QED
      BY <3>1, <3>2, <3>3, <3>4 DEF LatchedOnce
  <2>3. CASE ~full
    <3>1. Bursts(b)' = {}
      BY <1>1, <2>1, <2>3
    <3> QED
      BY <1>7, <2>3, <3>1 DEF LatchedOnce
  <2> QED
    BY <2>2, <2>3
<1> QED
  BY <1>6, <1>7

LEMMA RingHoldsNext ==
  ASSUME NEW b \in Nat, NEW m \in Nat, Len(history') = m + 1
  PROVE  RingHolds(b)' <=>
           \A k \in Slots : flood'.ring[Back(flood'.slot, k)] =
                             IF k < m + 1 - b THEN history'[m + 1 - k] ELSE None
<1>1. RingHolds(b)' <=>
        \A k \in Slots : flood'.ring[Back(flood'.slot, k)] =
           IF k < Len(history') - b THEN history'[Len(history') - k] ELSE None
  BY DEF RingHolds, Back, Slots, LEN
<1> QED
  BY <1>1, FloodAssumption DEF Slots

(* The slot after the newest holds the conflict LEN - 1 before it.         *)
LEMMA FullIsBurst ==
  ASSUME Grown, NEW b \in 0 .. Len(history), clock \in Nat, flood'.slot \in Slots, RingHolds(b)'
  PROVE  (/\ flood'.ring[flood'.slot] # None
          /\ clock - flood'.ring[flood'.slot] <= CONFLICT_BURST_WINDOW)
         <=> Len(history') \in Bursts(b)'
<1> DEFINE n == Len(history)
           W == CONFLICT_BURST_WINDOW
<1>1. /\ n \in Nat /\ Len(history') = n + 1 /\ history'[n + 1] = clock
      /\ \A i \in 1 .. n : history'[i] = history[i] /\ history[i] \in Nat
  BY DEF Grown
<1>2. LEN \in Nat \ {0} /\ b \in 0 .. n /\ W \in Nat
  BY FloodAssumption DEF LEN
<1>3. LEN - 1 \in Slots
  BY <1>2 DEF Slots, LEN
<1>4. Back(flood'.slot, LEN - 1) = flood'.slot
  BY <1>3, BackSlot
<1>5. flood'.ring[flood'.slot] =
        IF LEN - 1 < n + 1 - b THEN history'[n + 1 - (LEN - 1)] ELSE None
  <2>1. b \in Nat /\ n \in Nat /\ Len(history') = n + 1
    BY <1>1, <1>2
  <2> HIDE DEF n
  <2>2. \A k \in Slots : flood'.ring[Back(flood'.slot, k)] =
                           IF k < n + 1 - b THEN history'[n + 1 - k] ELSE None
    BY <2>1, RingHoldsNext
  <2> QED
    BY <1>3, <1>4, <2>2
<1>6. /\ LEN - 1 < n + 1 - b <=> n + 1 \in b + LEN .. n + 1
      /\ n + 1 - (LEN - 1) = n + 1 - LEN + 1
  BY <1>1, <1>2
<1>7. n + 1 \in Bursts(b)' <=> /\ n + 1 \in b + LEN .. n + 1
                               /\ clock - history'[n + 1 - LEN + 1] <= W
  BY <1>1, <1>2 DEF Bursts, LEN
<1>8. n + 1 \in b + LEN .. n + 1 => history'[n + 1 - LEN + 1] # None
  <2>1. n + 1 \in b + LEN .. n + 1 => n + 1 - LEN + 1 \in 1 .. n + 1
    BY <1>1, <1>2
  <2>2. \A i \in 1 .. n + 1 : history'[i] \in Nat
    BY <1>1, <1>2
  <2> QED
    BY <2>1, <2>2, ClockAssumption
<1> QED
  BY <1>1, <1>5, <1>6, <1>7, <1>8

(* A conflict within a window of the last one goes on with the run.        *)
LEMMA RunGoesOn ==
  ASSUME HistoryShape, FloodShape, NEW b \in 0 .. Len(history), RunSince(b),
         ~Lapsed(flood, clock), NEW X \in SUBSET Owners, UNCHANGED clock,
         Grown,
         flood' = Count([flood EXCEPT !.accepted = X], clock)
  PROVE  RunSince(b)'
<1> DEFINE n == Len(history)
           W == CONFLICT_BURST_WINDOW
           full == /\ flood'.ring[flood'.slot] # None
                   /\ clock - flood'.ring[flood'.slot] <= W
<1>1. /\ n \in Nat /\ Len(history') = n + 1 /\ history'[n + 1] = clock
      /\ \A i \in 1 .. n : history'[i] = history[i] /\ history[i] \in Nat
  BY DEF Grown
<1>2. LEN \in Nat \ {0} /\ b \in 0 .. n /\ clock \in Nat /\ W \in Nat
  BY FloodAssumption DEF LEN, HistoryShape
<1>3. /\ flood.slot \in Slots /\ flood.ring \in [Slots -> Nat \cup {None}]
      /\ flood.latched_at \in Nat \cup {None}
  BY DEF FloodShape
<1>4. /\ flood'.ring = [flood.ring EXCEPT ![flood.slot] = clock]
      /\ flood'.slot = (flood.slot + 1) % LEN
      /\ flood'.latched_at = IF full /\ flood.latched_at = None THEN clock ELSE flood.latched_at
  BY <1>2, CountedFields
<1>5. /\ b < n => clock - history[n] <= W
      /\ b = n => b = 0
  <2>1. b < n => newest(flood) = history[n]
    BY <1>1, <1>2, NewestOfRun DEF RunSince
  <2>2. b < n => newest(flood) # None
    BY <2>1, <1>1, <1>2, ClockAssumption
  <2>3. b < n => ~(clock - history[n] > W)
    BY <2>1, <2>2 DEF Lapsed
  <2>4. b < n => history[n] \in Nat
    BY <1>1, <1>2
  <2> QED
    BY <1>1, <1>2, <2>3, <2>4 DEF RunSince, RunStarts
<1>6. RingHolds(b)'
  <2> SUFFICES ASSUME NEW k \in Slots
               PROVE  flood'.ring[Back(flood'.slot, k)] =
                        IF k < n + 1 - b THEN history'[n + 1 - k] ELSE None
    <3>1. b \in Nat /\ n \in Nat /\ Len(history') = n + 1
      BY <1>1, <1>2
    <3> HIDE DEF n
    <3> QED
      BY <3>1, RingHoldsNext
  <2>1. CASE k = 0
    <3>1. Back(flood'.slot, 0) = flood.slot
      BY <1>3, <1>4, <2>1, BackSlot
    <3>2. flood'.ring[flood.slot] = clock
      BY <1>3, <1>4
    <3>3. 0 < n + 1 - b /\ n + 1 - 0 = n + 1
      BY <1>1, <1>2
    <3> QED
      BY <1>1, <2>1, <3>1, <3>2, <3>3
  <2>2. CASE k # 0
    <3>1. k - 1 \in Slots
      BY <1>2, <2>2 DEF Slots, LEN
    <3>2. Back(flood'.slot, k) = Back(flood.slot, k - 1) /\ Back(flood.slot, k - 1) # flood.slot
      BY <1>3, <1>4, <2>2, BackSlot
    <3>3. Back(flood.slot, k - 1) \in Slots
      BY <1>3, <3>1, BackSlot
    <3>4. flood'.ring[Back(flood'.slot, k)] = flood.ring[Back(flood.slot, k - 1)]
      BY <1>3, <1>4, <3>2, <3>3
    <3>5. flood.ring[Back(flood.slot, k - 1)] = IF k - 1 < n - b THEN history[n - (k - 1)] ELSE None
      BY <3>1 DEF RunSince, RingHolds
    <3>6. /\ k - 1 < n - b <=> k < n + 1 - b
          /\ n - (k - 1) = n + 1 - k
      BY <1>1, <1>2 DEF Slots
    <3>7. k < n + 1 - b => history'[n + 1 - k] = history[n + 1 - k]
      <4>1. k < n + 1 - b => n + 1 - k \in 1 .. n
        BY <1>1, <1>2, <2>2, FloodAssumption DEF Slots
      <4> QED
        BY <1>1, <4>1
    <3> QED
      BY <3>4, <3>5, <3>6, <3>7
  <2> QED
    BY <2>1, <2>2
<1>7. RunUnbroken(b)'
  <2> SUFFICES ASSUME NEW j \in b + 1 .. n PROVE history'[j + 1] - history'[j] <= W
    BY <1>1, <1>2 DEF RunUnbroken
  <2>1. j \in 1 .. n /\ b < n
    BY <1>1, <1>2
  <2>2. CASE j = n
    BY <1>1, <1>5, <2>1, <2>2
  <2>3. CASE j # n
    <3>1. j \in b + 1 .. n - 1 /\ j + 1 \in 1 .. n
      BY <1>1, <1>2, <2>1, <2>3
    <3>2. history[j + 1] - history[j] <= W
      BY <3>1 DEF RunSince, RunUnbroken
    <3> QED
      BY <1>1, <2>1, <3>1, <3>2
  <2> QED
    BY <2>2, <2>3
<1>8. RunStarts(b)'
  <2> SUFFICES ASSUME b > 0 PROVE b < n + 1 /\ history'[b + 1] - history'[b] > W
    BY <1>1 DEF RunStarts
  <2>1. b < n /\ history[b + 1] - history[b] > W
    BY DEF RunSince, RunStarts
  <2>2. b \in 1 .. n /\ b + 1 \in 1 .. n
    BY <1>1, <1>2, <2>1
  <2> QED
    BY <1>1, <1>2, <2>1, <2>2
<1>9. full <=> Len(history') \in Bursts(b)'
  <2>1. flood'.slot \in Slots
    BY <1>3, <1>4, NextSlot
  <2> QED
    BY <1>2, <1>6, <2>1, FullIsBurst
<1>10. LatchedOnce(b)'
  <2> HIDE DEF full
  <2>1. full \in BOOLEAN
    BY DEF full
  <2> QED
    BY <1>3, <1>4, <1>9, <2>1, LatchStep DEF RunSince
<1> QED
  BY <1>6, <1>7, <1>8, <1>10 DEF RunSince

(* A conflict more than a window after the last one starts a run.          *)
LEMMA RunRestarts ==
  ASSUME HistoryShape, FloodShape, NEW b \in 0 .. Len(history), RunSince(b),
         Lapsed(flood, clock), NEW X \in SUBSET Owners, UNCHANGED clock, Grown,
         flood' = Count([flood EXCEPT !.accepted = X], clock)
  PROVE  \E c \in 0 .. Len(history') : RunSince(c)'
<1> DEFINE n == Len(history)
           W == CONFLICT_BURST_WINDOW
           full == /\ flood'.ring[flood'.slot] # None
                   /\ clock - flood'.ring[flood'.slot] <= W
<1>1. /\ n \in Nat /\ Len(history') = n + 1 /\ history'[n + 1] = clock
      /\ \A i \in 1 .. n : history'[i] = history[i] /\ history[i] \in Nat
  BY DEF Grown
<1>2. LEN \in Nat \ {0} /\ b \in 0 .. n /\ clock \in Nat /\ W \in Nat
  BY FloodAssumption DEF LEN, HistoryShape
<1>3. PICK c : c = n
  OBVIOUS
<1>4. /\ flood'.ring = [i \in Slots |-> IF i = 0 THEN clock ELSE None]
      /\ flood'.slot = (0 + 1) % LEN
      /\ flood'.latched_at = IF full THEN clock ELSE None
  BY <1>2, CountedFields
<1>5. b < n /\ clock - history[n] > W
  <2>1. newest(flood) = IF b < n THEN history[n] ELSE None
    BY <1>1, <1>2, NewestOfRun DEF RunSince
  <2> QED
    BY <2>1, <1>2 DEF Lapsed
<1>6. 0 \in Slots /\ flood'.slot \in Slots
  <2>1. 0 \in Slots
    BY <1>2 DEF Slots, LEN
  <2> QED
    BY <1>4, <2>1, NextSlot
<1>7. RingHolds(c)'
  <2> SUFFICES ASSUME NEW k \in Slots
               PROVE  flood'.ring[Back(flood'.slot, k)] =
                        IF k < n + 1 - c THEN history'[n + 1 - k] ELSE None
    <3>1. c \in Nat /\ n \in Nat /\ Len(history') = n + 1
      BY <1>1, <1>3
    <3> HIDE DEF n
    <3> QED
      BY <3>1, RingHoldsNext
  <2>1. k < n + 1 - c <=> k = 0
    BY <1>1, <1>3, FloodAssumption DEF Slots
  <2>2. CASE k = 0
    <3>1. Back(flood'.slot, 0) = 0
      BY <1>4, <1>6, <2>2, BackSlot
    <3>2. flood'.ring[0] = clock
      BY <1>4, <1>6
    <3>3. n + 1 - k = n + 1
      BY <1>1, <2>2
    <3> QED
      BY <1>1, <2>1, <2>2, <3>1, <3>2, <3>3
  <2>3. CASE k # 0
    <3>1. k - 1 \in Slots
      BY <1>2, <2>3 DEF Slots, LEN
    <3>2. Back(flood'.slot, k) = Back(0, k - 1) /\ Back(0, k - 1) # 0
      BY <1>4, <1>6, <2>3, BackSlot
    <3>3. Back(0, k - 1) \in Slots
      BY <1>6, <3>1, BackSlot
    <3>4. flood'.ring[Back(flood'.slot, k)] = None
      BY <1>4, <3>2, <3>3
    <3> QED
      BY <2>1, <2>3, <3>4
  <2> QED
    BY <2>2, <2>3
<1>8. RunUnbroken(c)'
  BY <1>1, <1>3 DEF RunUnbroken
<1>9. RunStarts(c)'
  <2> SUFFICES ASSUME n > 0 PROVE n < n + 1 /\ history'[n + 1] - history'[n] > W
    BY <1>1, <1>3 DEF RunStarts
  <2> QED
    BY <1>1, <1>5
<1>10. full <=> Len(history') \in Bursts(c)'
  <2>1. c \in 0 .. Len(history)
    BY <1>1, <1>3
  <2> QED
    BY <1>2, <1>6, <1>7, <2>1, FullIsBurst
<1>11. LatchedOnce(c)'
  <2> HIDE DEF full
  <2>1. Bursts(c)' \subseteq {n + 1}
    BY <1>1, <1>2, <1>3 DEF Bursts, LEN
  <2>2. CASE full
    <3>1. n + 1 \in Bursts(c)'
      BY <1>1, <1>10, <2>2
    <3>2. \A i \in Bursts(c)' : n + 1 <= i
      BY <1>1, <2>1
    <3>3. flood'.latched_at = history'[n + 1] /\ flood'.latched_at # None
      BY <1>1, <1>2, <1>4, <2>2, ClockAssumption
    <3> QED
      BY <3>1, <3>2, <3>3 DEF LatchedOnce
  <2>3. CASE ~full
    <3>1. Bursts(c)' = {}
      BY <1>1, <1>10, <2>1, <2>3
    <3> QED
      BY <1>4, <2>3, <3>1 DEF LatchedOnce
  <2> QED
    BY <2>2, <2>3
<1>12. c \in 0 .. Len(history')
  BY <1>1, <1>3
<1> QED
  BY <1>7, <1>8, <1>9, <1>11, <1>12 DEF RunSince

-----------------------------------------------------------------------------
(* The inductive invariant.                                                *)

LEMMA RunKept ==
  ASSUME UNCHANGED <<flood, history>>, NEW b, RunSince(b)
  PROVE  RunSince(b)'
<1>1. RingHolds(b)' <=> RingHolds(b)
  BY DEF RingHolds, Back, Slots, LEN
<1>2. (RunUnbroken(b)' <=> RunUnbroken(b)) /\ (RunStarts(b)' <=> RunStarts(b))
  BY DEF RunUnbroken, RunStarts
<1>3. LatchedOnce(b)' <=> LatchedOnce(b)
  BY DEF LatchedOnce, Bursts, LEN
<1> QED
  BY <1>1, <1>2, <1>3 DEF RunSince

LEMMA FloodInvInit == FloodInit => FloodInv
<1> SUFFICES ASSUME FloodInit PROVE FloodInv
  OBVIOUS
<1>1. LEN \in Nat \ {0} /\ Len(history) = 0 /\ history \in Seq(Nat)
  BY FloodAssumption DEF FloodInit, LEN
<1>2. HistoryShape
  BY <1>1 DEF FloodInit, HistoryShape
<1>3. FloodShape
  BY <1>1 DEF FloodInit, FloodShape, NewFlood, Slots, LEN
<1>4. RingHolds(0)
  <2> SUFFICES ASSUME NEW k \in Slots
               PROVE  flood.ring[Back(flood.slot, k)] =
                        IF k < Len(history) - 0 THEN history[Len(history) - k] ELSE None
    BY DEF RingHolds
  <2>1. ~(k < Len(history) - 0)
    BY <1>1 DEF Slots, LEN
  <2>2. Back(flood.slot, k) \in Slots
    BY <1>3, BackSlot DEF FloodShape
  <2> QED
    BY <2>1, <2>2 DEF FloodInit, NewFlood
<1>5. RunUnbroken(0) /\ RunStarts(0)
  BY <1>1 DEF RunUnbroken, RunStarts
<1>6. LatchedOnce(0)
  BY <1>1 DEF FloodInit, NewFlood, LatchedOnce, Bursts
<1> QED
  BY <1>1, <1>2, <1>3, <1>4, <1>5, <1>6 DEF FloodInv, RunSince

(* The name is new to the datagram: the conflict is counted.               *)
LEMMA CountedStep ==
  ASSUME FloodInv, NEW X \in SUBSET Owners, raised' = X, UNCHANGED clock,
         flood' = Count([flood EXCEPT !.accepted = X], clock),
         history' = Append(history, clock)
  PROVE  FloodInv'
<1>1. HistoryShape /\ FloodShape
  BY DEF FloodInv
<1>2. HistoryShape' /\ Grown
  BY <1>1, HistoryGrows
<1>3. FloodShape'
  BY <1>1, CountedShape
<1>4. PICK b \in 0 .. Len(history) : RunSince(b)
  BY DEF FloodInv
<1>5. CASE Lapsed(flood, clock)
  BY <1>1, <1>2, <1>3, <1>4, <1>5, RunRestarts DEF FloodInv
<1>6. CASE ~Lapsed(flood, clock)
  <2>1. RunSince(b)'
    BY <1>1, <1>2, <1>4, <1>6, RunGoesOn
  <2>2. b \in 0 .. Len(history')
    BY <1>2 DEF Grown
  <2> QED
    BY <1>2, <1>3, <2>1, <2>2 DEF FloodInv
<1> QED
  BY <1>5, <1>6

LEMMA FloodInvStep == FloodInv /\ [FloodNext]_floodVars => FloodInv'
<1> SUFFICES ASSUME FloodInv, [FloodNext]_floodVars PROVE FloodInv'
  OBVIOUS
<1>1. HistoryShape /\ FloodShape
  BY DEF FloodInv
<1>2. PICK b \in 0 .. Len(history) : RunSince(b)
  BY DEF FloodInv
<1>3. ASSUME UNCHANGED <<flood, history>>, clock' \in Nat, clock <= clock',
             raised' \subseteq Owners, raised' # {} => flood.accepted = raised'
      PROVE  FloodInv'
  <2>1. HistoryShape'
    BY <1>1, <1>3 DEF HistoryShape
  <2>2. FloodShape'
    BY <1>1, <1>3 DEF FloodShape
  <2>3. RunSince(b)'
    BY <1>2, <1>3, RunKept
  <2> QED
    BY <1>2, <1>3, <2>1, <2>2, <2>3 DEF FloodInv
<1>4. ASSUME NEW owner \in Owners, Conflict(owner)
      PROVE  FloodInv'
  <2>1. CASE owner \in raised
    <3>1. flood' = [flood EXCEPT !.accepted = flood.accepted]
      BY <1>1, <1>4, <2>1 DEF Conflict, accept, FloodShape
    <3>2. flood' = flood
      BY <1>1, <3>1 DEF FloodShape
    <3>3. raised' = raised /\ history' = history /\ clock' = clock
      BY <1>4, <2>1 DEF Conflict
    <3> QED
      BY <1>1, <1>3, <3>2, <3>3 DEF FloodShape, HistoryShape
  <2>2. CASE owner \notin raised
    <3>1. flood' = Count([flood EXCEPT !.accepted = raised \cup {owner}], clock)
      BY <1>1, <1>4, <2>2 DEF Conflict, accept, FloodShape
    <3>2. /\ raised' = raised \cup {owner} /\ history' = Append(history, clock)
          /\ clock' = clock /\ raised \cup {owner} \in SUBSET Owners
      BY <1>1, <1>4, <2>2 DEF Conflict, FloodShape
    <3> QED
      BY <3>1, <3>2, CountedStep
  <2> QED
    BY <2>1, <2>2
<1>5. CASE EndOfConflicts
  BY <1>1, <1>3, <1>5 DEF EndOfConflicts, HistoryShape
<1>6. CASE FloodTick
  BY <1>1, <1>3, <1>6 DEF FloodTick, HistoryShape
<1>7. CASE UNCHANGED floodVars
  BY <1>1, <1>3, <1>7 DEF floodVars, FloodShape, HistoryShape
<1> QED
  BY <1>4, <1>5, <1>6, <1>7 DEF FloodNext

-----------------------------------------------------------------------------
(* What the ring decides.                                                  *)

(* The bursts the flood has not paused since are those of the run.         *)
LEMMA BurstsOfTheRun ==
  ASSUME HistoryShape, NEW b \in 0 .. Len(history), RunSince(b), NEW j \in 1 .. Len(history)
  PROVE  BurstEndsAt(j) /\ UnbrokenSince(j)
           <=> j \in Bursts(b) /\ clock - history[Len(history)] <= CONFLICT_BURST_WINDOW
<1> DEFINE n == Len(history)
           W == CONFLICT_BURST_WINDOW
<1>1. LEN \in Nat \ {0} /\ W \in Nat /\ n \in Nat /\ b \in 0 .. n /\ j \in 1 .. n
  BY FloodAssumption DEF LEN, HistoryShape
<1>2. \A i \in 1 .. n : history[i] \in Nat
  BY DEF HistoryShape
<1>3. ASSUME j \in Bursts(b), clock - history[n] <= W
      PROVE  BurstEndsAt(j) /\ UnbrokenSince(j)
  <2>1. BurstEndsAt(j)
    BY <1>1, <1>3 DEF Bursts, BurstEndsAt, LEN
  <2>2. \A k \in j .. n - 1 : history[k + 1] - history[k] <= W
    BY <1>1, <1>3 DEF Bursts, RunSince, RunUnbroken
  <2> QED
    BY <1>3, <2>1, <2>2 DEF UnbrokenSince
<1>4. ASSUME BurstEndsAt(j), UnbrokenSince(j)
      PROVE  j \in Bursts(b) /\ clock - history[n] <= W
  <2>1. j >= LEN /\ history[j] - history[j - LEN + 1] <= W
    BY <1>4 DEF BurstEndsAt, LEN
  <2>2. j >= b + LEN
    <3> SUFFICES ASSUME ~(j >= b + LEN) PROVE FALSE
      OBVIOUS
    <3>1. b > 0
      BY <1>1, <2>1
    <3>2. b < n /\ history[b + 1] - history[b] > W
      BY <3>1 DEF RunSince, RunStarts
    <3>3. CASE j <= b
      <4>1. b \in j .. n - 1
        BY <1>1, <3>2, <3>3
      <4>2. history[b + 1] - history[b] <= W
        BY <1>4, <4>1 DEF UnbrokenSince
      <4>3. b \in 1 .. n /\ b + 1 \in 1 .. n
        BY <1>1, <3>1, <3>2
      <4> QED
        BY <1>1, <1>2, <3>2, <4>2, <4>3
    <3>4. CASE j > b
      <4>1. /\ j - LEN + 1 \in 1 .. n /\ b \in j - LEN + 1 .. n
            /\ b \in 1 .. n /\ b + 1 \in 1 .. n /\ j \in b + 1 .. n
        BY <1>1, <2>1, <3>1, <3>2, <3>4
      <4>2. history[j - LEN + 1] <= history[b] /\ history[b + 1] <= history[j]
        BY <4>1 DEF HistoryShape
      <4>3. PICK first, last, before, after : first = history[j - LEN + 1] /\ last = history[j]
                                              /\ before = history[b] /\ after = history[b + 1]
        OBVIOUS
      <4>4. first \in Nat /\ last \in Nat /\ before \in Nat /\ after \in Nat
        <5>1. j \in 1 .. n
          BY <1>1
        <5> QED
          BY <1>2, <4>1, <4>3, <5>1
      <4>5. first <= before /\ after <= last /\ after - before > W /\ last - first <= W
        BY <2>1, <3>2, <4>2, <4>3
      <4>6. W \in Nat
        BY <1>1
      <4> HIDE DEF W
      <4> QED
        BY <4>4, <4>5, <4>6
    <3> QED
      BY <1>1, <3>3, <3>4
  <2> QED
    BY <1>1, <1>4, <2>1, <2>2 DEF Bursts, UnbrokenSince
<1> QED
  BY <1>3, <1>4

(* The limit is in force when a conflict fell within the last window and   *)
(* the run has latched.                                                    *)
LEMMA InForceIs ==
  ASSUME HistoryShape, FloodShape, NEW b \in 0 .. Len(history), RunSince(b)
  PROVE  /\ in_force(flood, clock) <=>
              /\ b < Len(history)
              /\ clock - history[Len(history)] <= CONFLICT_BURST_WINDOW
              /\ flood.latched_at # None
         /\ in_force(flood, clock) => latch_epoch(flood, clock) = flood.latched_at
         /\ Len(history) > 0 => b < Len(history)
<1>1. newest(flood) = IF b < Len(history) THEN history[Len(history)] ELSE None
  BY NewestOfRun DEF RunSince
<1>2. Len(history) \in Nat /\ b \in Nat
  BY DEF HistoryShape
<1>3. b < Len(history) => history[Len(history)] # None
  <2>1. b < Len(history) => Len(history) \in 1 .. Len(history)
    BY <1>2
  <2> QED
    BY <2>1, ClockAssumption DEF HistoryShape
<1>4. Len(history) > 0 => b < Len(history)
  BY <1>2 DEF RunSince, RunStarts
<1> QED
  BY <1>1, <1>3, <1>4 DEF in_force, latch_epoch

LEMMA InvDecidesLimit == FloodInv => LimitIsExact
<1> SUFFICES ASSUME FloodInv PROVE LimitIsExact
  OBVIOUS
<1>1. HistoryShape /\ FloodShape
  BY DEF FloodInv
<1>2. PICK b \in 0 .. Len(history) : RunSince(b)
  BY DEF FloodInv
<1>3. LEN \in Nat \ {0} /\ Len(history) \in Nat /\ b \in Nat
  BY <1>1, FloodAssumption DEF LEN, HistoryShape
<1>4. Bursts(b) \subseteq 1 .. Len(history)
  BY <1>3 DEF Bursts
<1>5. flood.latched_at # None <=> Bursts(b) # {}
  BY <1>2 DEF RunSince, LatchedOnce
<1>6. LimitApplies <=> /\ Bursts(b) # {}
                       /\ clock - history[Len(history)] <= CONFLICT_BURST_WINDOW
  BY <1>1, <1>2, <1>4, BurstsOfTheRun DEF LimitApplies
<1>7. Bursts(b) # {} => b < Len(history)
  BY <1>3 DEF Bursts
<1> QED
  BY <1>1, <1>2, <1>5, <1>6, <1>7, InForceIs DEF LimitIsExact

LEMMA InvFixesEpoch == FloodInv => EpochIsFirstBurst
<1> SUFFICES ASSUME FloodInv, in_force(flood, clock) PROVE EpochIsFirstBurst
  BY DEF EpochIsFirstBurst
<1>1. HistoryShape /\ FloodShape
  BY DEF FloodInv
<1>2. PICK b \in 0 .. Len(history) : RunSince(b)
  BY DEF FloodInv
<1>3. LEN \in Nat \ {0} /\ Len(history) \in Nat /\ b \in Nat
  BY <1>1, FloodAssumption DEF LEN, HistoryShape
<1>4. /\ clock - history[Len(history)] <= CONFLICT_BURST_WINDOW /\ flood.latched_at # None
      /\ latch_epoch(flood, clock) = flood.latched_at
  BY <1>1, <1>2, InForceIs
<1>5. PICK f \in Bursts(b) : flood.latched_at = history[f] /\ \A i \in Bursts(b) : f <= i
  BY <1>2, <1>4 DEF RunSince, LatchedOnce
<1>6. Bursts(b) \subseteq 1 .. Len(history)
  BY <1>3 DEF Bursts
<1>7. \A j \in 1 .. Len(history) : BurstEndsAt(j) /\ UnbrokenSince(j) <=> j \in Bursts(b)
  BY <1>1, <1>2, <1>4, BurstsOfTheRun
<1> DEFINE P(j) == /\ BurstEndsAt(j) /\ UnbrokenSince(j)
                   /\ \A i \in 1 .. j - 1 : ~(BurstEndsAt(i) /\ UnbrokenSince(i))
<1>8. P(f) /\ f \in 1 .. Len(history)
  <2>1. \A i \in 1 .. f - 1 : i \in 1 .. Len(history) /\ ~(f <= i)
    BY <1>3, <1>6
  <2> QED
    BY <1>5, <1>6, <1>7, <2>1
<1>9. \A j \in 1 .. Len(history) : P(j) => j = f
  <2> SUFFICES ASSUME NEW j \in 1 .. Len(history), P(j) PROVE j = f
    OBVIOUS
  <2>1. f <= j
    BY <1>5, <1>7
  <2>2. ~(f \in 1 .. j - 1)
    BY <1>8
  <2> QED
    BY <1>3, <1>8, <2>1, <2>2
<1> HIDE DEF P
<1>10. (CHOOSE j \in 1 .. Len(history) : P(j)) = f
  BY <1>8, <1>9
<1> QED
  BY <1>4, <1>5, <1>10 DEF EpochIsFirstBurst, P

-----------------------------------------------------------------------------
(* ConflictFlood's ring keeps CONFLICT_BURST_LEN instants and an epoch and *)
(* forgets the rest; its two state variables and the whole history of      *)
(* conflicts stay in the relation FloodInv.                                *)
THEOREM RingMatchesHistory == FloodSpec => []FloodInv
BY FloodInvInit, FloodInvStep, PTL DEF FloodSpec

(* The back-off limit of RFC 6762 section 8.1 is in force exactly when a   *)
(* burst fell within one window and the flood has not paused since,        *)
(* whatever the burst length, the window and the stream of conflicts.      *)
THEOREM LimitExact == FloodSpec => []LimitIsExact
BY RingMatchesHistory, InvDecidesLimit, PTL

(* The epoch ConflictFlood::latch_epoch reports is the end of the first    *)
(* burst since the last pause: later conflicts never move it.              *)
THEOREM EpochFixed == FloodSpec => []EpochIsFirstBurst
BY RingMatchesHistory, InvFixesEpoch, PTL

-----------------------------------------------------------------------------
(* The relinquished records.                                               *)

Exposures == [Families -> SUBSET Identities]

(***************************************************************************)
(* No expiry lies further ahead than one retention.                        *)
(***************************************************************************)
ShapeOf(R, I, since) ==
  /\ since \in Instant
  /\ R \subseteq [generation : Exposures, expires_at : Nat]
  /\ \A r \in R : r.expires_at <= since + Retention
  /\ DOMAIN I \subseteq Identities
  /\ \A i \in DOMAIN I : I[i] \in [Families -> Nat \cup {None}]
  /\ \A i \in DOMAIN I : \A f \in Families : I[i][f] # None => I[i][f] <= since + Retention

ScreenShape == ShapeOf(rows, identities, instant)

-----------------------------------------------------------------------------
(* The open windows of one record on one family.                           *)

(* The last of a set of instants.                                          *)
Latest(W) == IF W = {} THEN None ELSE CHOOSE t \in W : \A u \in W : u <= t

LEMMA LastIs ==
  ASSUME NEW W \in SUBSET Nat, NEW m \in W, \A u \in W : u <= m
  PROVE  Latest(W) = m
<1> DEFINE P(t) == \A u \in W : u <= t
<1>1. P(m)
  OBVIOUS
<1>2. \A t \in W : P(t) => t = m
  OBVIOUS
<1> HIDE DEF P
<1>3. (CHOOSE t \in W : P(t)) = m
  BY <1>1, <1>2
<1> QED
  BY <1>3 DEF Latest, P

LEMMA LeastExists ==
  ASSUME NEW S \in SUBSET Nat, S # {}
  PROVE  \E x \in S : \A y \in S : x <= y
<1>1. PICK x \in S : \A y \in S : ~(<<y, x>> \in OpToRel(<, Nat))
  BY NatLessThanWellFounded, WFMin
<1>2. \A y \in S : x <= y
  <2> TAKE y \in S
  <2>1. x \in Nat /\ y \in Nat
    OBVIOUS
  <2>2. ~(y < x)
    BY <1>1, <2>1 DEF OpToRel
  <2> QED
    BY <2>1, <2>2
<1> QED
  BY <1>2

LEMMA LastExists ==
  ASSUME NEW W \in SUBSET Nat, W # {}, NEW B \in Nat, \A t \in W : t <= B
  PROVE  Latest(W) \in W /\ \A t \in W : t <= Latest(W)
<1> DEFINE D == {B - t : t \in W}
<1>1. D \in SUBSET Nat
  <2> SUFFICES ASSUME NEW t \in W PROVE B - t \in Nat
    OBVIOUS
  <2>1. t \in Nat /\ t <= B
    OBVIOUS
  <2> QED
    BY <2>1
<1>2. D # {}
  OBVIOUS
<1>3. PICK d \in D : \A e \in D : d <= e
  BY <1>1, <1>2, LeastExists
<1>4. PICK m \in W : d = B - m
  OBVIOUS
<1>5. \A t \in W : t <= m
  <2> SUFFICES ASSUME NEW t \in W PROVE t <= m
    OBVIOUS
  <2>1. B - t \in D
    OBVIOUS
  <2>2. B - m <= B - t
    BY <1>3, <1>4, <2>1
  <2>3. t \in Nat /\ m \in Nat
    OBVIOUS
  <2> HIDE DEF D
  <2> QED
    BY <2>2, <2>3
<1>6. Latest(W) = m
  BY <1>5, LastIs
<1> QED
  BY <1>5, <1>6

(* Expiry t of the rows R or of the identities I is yet to come.           *)
StillKept(R, I, since, f, i, t) ==
  /\ since < t
  /\ \/ \E r \in R : i \in r.generation[f] /\ t = r.expires_at
     \/ i \in DOMAIN I /\ t = I[i][f] /\ t # None

Answer(R, I, since, f, i) == Latest({t \in Nat : StillKept(R, I, since, f, i, t)})

LEMMA OpenBounded ==
  ASSUME NEW R, NEW I, NEW since, ShapeOf(R, I, since), NEW f \in Families, NEW i, NEW t,
         StillKept(R, I, since, f, i, t)
  PROVE  t \in Nat /\ since < t /\ t <= since + Retention
<1>1. CASE \E r \in R : i \in r.generation[f] /\ t = r.expires_at
  BY <1>1 DEF StillKept, ShapeOf
<1>2. CASE i \in DOMAIN I /\ t = I[i][f] /\ t # None
  BY <1>2 DEF StillKept, ShapeOf
<1> QED
  BY <1>1, <1>2 DEF StillKept

LEMMA DisownedIs ==
  ASSUME NEW f \in Families, NEW i
  PROVE  /\ ScreenShape => Disowned(f, i) = Answer(rows, identities, instant, f, i)
         /\ ScreenShape' => Disowned(f, i)' = Answer(rows', identities', instant', f, i)
<1>1. /\ \A t : t \in Windows(f, i) <=> StillKept(rows, identities, instant, f, i, t)
      /\ \A t : t \in Windows(f, i)' <=> StillKept(rows', identities', instant', f, i, t)
  BY DEF Windows, StillKept
<1>2. /\ Disowned(f, i) = Latest(Windows(f, i))
      /\ Disowned(f, i)' = Latest(Windows(f, i)')
  BY DEF Disowned, Latest
<1>3. ScreenShape => Windows(f, i) = {t \in Nat : StillKept(rows, identities, instant, f, i, t)}
  BY <1>1, OpenBounded DEF ScreenShape
<1>4. ScreenShape' =>
        Windows(f, i)' = {t \in Nat : StillKept(rows', identities', instant', f, i, t)}
  BY <1>1, OpenBounded DEF ScreenShape
<1> QED
  BY <1>2, <1>3, <1>4 DEF Answer

(* A window a whole retention long is the last.                            *)
LEMMA AnswerWhole ==
  ASSUME NEW R, NEW I, NEW since, ShapeOf(R, I, since), NEW f \in Families, NEW i,
         StillKept(R, I, since, f, i, since + Retention)
  PROVE  Answer(R, I, since, f, i) = since + Retention
<1> DEFINE W == {t \in Nat : StillKept(R, I, since, f, i, t)}
<1>1. since + Retention \in W /\ \A u \in W : u <= since + Retention
  BY OpenBounded
<1> QED
  BY <1>1, LastIs DEF Answer

LEMMA AnswerSame ==
  ASSUME NEW R, NEW I, NEW R2, NEW I2, NEW since, NEW f, NEW i,
         \A t : StillKept(R, I, since, f, i, t) <=> StillKept(R2, I2, since, f, i, t)
  PROVE  Answer(R, I, since, f, i) = Answer(R2, I2, since, f, i)
BY DEF Answer

LEMMA AnswerLast ==
  ASSUME NEW R, NEW I, NEW since, ShapeOf(R, I, since), NEW f \in Families, NEW i
  PROVE  LET a == Answer(R, I, since, f, i)
         IN /\ (\A t : ~StillKept(R, I, since, f, i, t)) => a = None
            /\ (\E t : StillKept(R, I, since, f, i, t)) =>
                 a \in Nat /\ StillKept(R, I, since, f, i, a) /\ \A t : StillKept(R, I, since, f, i, t) => t <= a
<1> DEFINE W == {t \in Nat : StillKept(R, I, since, f, i, t)}
<1>1. \A t : StillKept(R, I, since, f, i, t) => t \in Nat /\ t <= since + Retention
  BY OpenBounded
<1>2. since + Retention \in Nat
  BY RelinquishedAssumption, ClockAssumption DEF ShapeOf, Instant
<1>3. W = {} => Answer(R, I, since, f, i) = None
  BY DEF Answer, Latest
<1>4. W # {} => Latest(W) \in W /\ \A t \in W : t <= Latest(W)
  BY <1>1, <1>2, LastExists
<1> QED
  BY <1>1, <1>3, <1>4 DEF Answer

(* The last window closes when its instant comes.                          *)
LEMMA AnswerLater ==
  ASSUME NEW R, NEW I, NEW since, ShapeOf(R, I, since), ShapeOf(R, I, since + 1),
         NEW f \in Families, NEW i
  PROVE  Answer(R, I, since + 1, f, i) =
           IF Due(Answer(R, I, since, f, i), since + 1) THEN None ELSE Answer(R, I, since, f, i)
<1> DEFINE a == Answer(R, I, since, f, i)
           b == Answer(R, I, since + 1, f, i)
<1>1. since \in Nat
  BY ClockAssumption DEF ShapeOf, Instant
<1>2. \A t : StillKept(R, I, since, f, i, t) => t \in Nat
  BY OpenBounded
<1>3. \A t : StillKept(R, I, since + 1, f, i, t) => t \in Nat
  BY OpenBounded
<1>4. \A t \in Nat : StillKept(R, I, since + 1, f, i, t) <=> StillKept(R, I, since, f, i, t) /\ since + 1 < t
  BY <1>1 DEF StillKept
<1>5. CASE \A t : ~StillKept(R, I, since, f, i, t)
  <2>1. \A t : ~StillKept(R, I, since + 1, f, i, t)
    BY <1>3, <1>4, <1>5
  <2> QED
    BY <1>5, <2>1, AnswerLast DEF Due
<1>6. CASE \E t : StillKept(R, I, since, f, i, t)
  <2>1. a \in Nat /\ StillKept(R, I, since, f, i, a) /\ \A t : StillKept(R, I, since, f, i, t) => t <= a
    BY <1>6, AnswerLast
  <2>2. a # None
    BY <2>1, ClockAssumption
  <2> HIDE DEF a
  <2>3. CASE a <= since + 1
    <3>1. \A t : ~StillKept(R, I, since + 1, f, i, t)
      BY <1>1, <1>2, <1>3, <1>4, <2>1, <2>3
    <3>2. b = None
      BY <3>1, AnswerLast
    <3> QED
      BY <2>2, <2>3, <3>2 DEF Due, a
  <2>4. CASE ~(a <= since + 1)
    <3>1. StillKept(R, I, since + 1, f, i, a)
      BY <1>1, <1>4, <2>1, <2>4
    <3>2. b \in Nat /\ StillKept(R, I, since + 1, f, i, b) /\ a <= b
      BY <3>1, AnswerLast
    <3>3. b <= a
      BY <1>4, <2>1, <3>2
    <3>4. b = a
      BY <2>1, <3>2, <3>3
    <3> QED
      BY <2>4, <3>4 DEF Due, a
  <2> QED
    BY <2>3, <2>4
<1> QED
  BY <1>5, <1>6

-----------------------------------------------------------------------------
(* The three ways a generation is retained.                                *)

(* Every record of g but the refused is answered for from now on for a     *)
(* whole retention; nothing else is opened, closed or moved.               *)
Answers(R, I, g, refused) ==
  \A f \in Families, i \in Identities :
    IF i \in g[f] \ refused THEN StillKept(R, I, instant, f, i, instant + Retention)
    ELSE \A t : StillKept(R, I, instant, f, i, t) <=> StillKept(rows, identities, instant, f, i, t)

LEMMA Ahead ==
  ASSUME ScreenShape
  PROVE  /\ instant \in Nat /\ Retention \in Nat /\ instant + Retention \in Nat
         /\ LiveRows \subseteq rows
         /\ \A r \in LiveRows : r.expires_at \in Nat /\ r.expires_at <= instant + Retention
BY RelinquishedAssumption, ClockAssumption DEF ScreenShape, ShapeOf, Instant, LiveRows

LEMMA OpenOfLiveRows ==
  ASSUME ScreenShape, NEW I, NEW f, NEW i, NEW t
  PROVE  StillKept(LiveRows, I, instant, f, i, t) <=> StillKept(rows, I, instant, f, i, t)
BY DEF StillKept, LiveRows

(* The identical generation is already on a row.                           *)
LEMMA MergedRow ==
  ASSUME ScreenShape, NEW g \in Exposures, NEW e, e = instant + Retention,
         NEW R, R = {IF r.generation = g THEN [r EXCEPT !.expires_at = Later(@, e)] ELSE r :
                       r \in LiveRows},
         \E r \in LiveRows : r.generation = g
  PROVE  /\ ShapeOf(R, identities, instant)
         /\ Retention > 0 => Answers(R, identities, g, {})
<1>1. /\ instant \in Nat /\ Retention \in Nat /\ e \in Nat
      /\ LiveRows \subseteq rows
      /\ \A r \in LiveRows : r.expires_at \in Nat /\ r.expires_at <= e
  BY Ahead
<1>2. LiveRows \subseteq [generation : Exposures, expires_at : Nat]
  BY <1>1 DEF ScreenShape, ShapeOf
<1> DEFINE N(r) == IF r.generation = g THEN [r EXCEPT !.expires_at = Later(@, e)] ELSE r
<1>3. \A r \in LiveRows :
        /\ N(r) \in [generation : Exposures, expires_at : Nat]
        /\ N(r).generation = r.generation
        /\ N(r).expires_at = IF r.generation = g THEN e ELSE r.expires_at
  <2> SUFFICES ASSUME NEW r \in LiveRows
               PROVE  /\ N(r) \in [generation : Exposures, expires_at : Nat]
                      /\ N(r).generation = r.generation
                      /\ N(r).expires_at = IF r.generation = g THEN e ELSE r.expires_at
    OBVIOUS
  <2>1. r \in [generation : Exposures, expires_at : Nat] /\ r.expires_at <= e
    BY <1>1, <1>2
  <2>2. Later(r.expires_at, e) = e
    BY <1>1, <2>1 DEF Later
  <2>3. [r EXCEPT !.expires_at = Later(@, e)] = [r EXCEPT !.expires_at = e]
    BY <2>2
  <2> QED
    BY <1>1, <2>1, <2>3
<1> HIDE DEF N
<1>4. R = {N(r) : r \in LiveRows}
  BY DEF N
<1>5. ShapeOf(R, identities, instant)
  <2>1. R \subseteq [generation : Exposures, expires_at : Nat]
    BY <1>3, <1>4
  <2>2. \A r \in R : r.expires_at <= instant + Retention
    BY <1>1, <1>3, <1>4
  <2> QED
    BY <2>1, <2>2 DEF ScreenShape, ShapeOf
<1>6. ASSUME Retention > 0 PROVE Answers(R, identities, g, {})
  <2> SUFFICES ASSUME NEW f \in Families, NEW i \in Identities
               PROVE  IF i \in g[f] \ {} THEN StillKept(R, identities, instant, f, i, instant + Retention)
                      ELSE \A t : StillKept(R, identities, instant, f, i, t)
                                    <=> StillKept(rows, identities, instant, f, i, t)
    BY DEF Answers
  <2>1. CASE i \in g[f]
    <3>1. PICK r \in LiveRows : r.generation = g
      OBVIOUS
    <3>2. N(r) \in R /\ N(r).generation = g /\ N(r).expires_at = e
      BY <1>3, <1>4, <3>1
    <3>3. instant < e
      BY <1>1, <1>6
    <3> QED
      BY <2>1, <3>2, <3>3 DEF StillKept
  <2>2. CASE i \notin g[f]
    <3>1. \A t : (\E r \in R : i \in r.generation[f] /\ t = r.expires_at)
                 <=> (\E r \in LiveRows : i \in r.generation[f] /\ t = r.expires_at)
      BY <1>3, <1>4, <2>2
    <3>2. \A t : StillKept(R, identities, instant, f, i, t)
                 <=> StillKept(LiveRows, identities, instant, f, i, t)
      BY <3>1 DEF StillKept
    <3> QED
      BY <2>2, <3>2, OpenOfLiveRows
  <2> QED
    BY <2>1, <2>2
<1> QED
  BY <1>5, <1>6

(* A row of its own.                                                       *)
LEMMA NewRow ==
  ASSUME ScreenShape, NEW g \in Exposures, NEW R,
         R = LiveRows \cup {[generation |-> g, expires_at |-> instant + Retention]}
  PROVE  /\ ShapeOf(R, identities, instant)
         /\ Retention > 0 => Answers(R, identities, g, {})
<1> DEFINE n == [generation |-> g, expires_at |-> instant + Retention]
<1>1. /\ instant \in Nat /\ Retention \in Nat /\ instant + Retention \in Nat
      /\ LiveRows \subseteq rows
  BY Ahead
<1>2. n \in [generation : Exposures, expires_at : Nat] /\ n.expires_at = instant + Retention
      /\ n.generation = g
  BY <1>1
<1> HIDE DEF n
<1>3. R = LiveRows \cup {n}
  BY DEF n
<1>4. ShapeOf(R, identities, instant)
  <2>1. R \subseteq [generation : Exposures, expires_at : Nat]
    BY <1>1, <1>2, <1>3 DEF ScreenShape, ShapeOf
  <2>2. \A r \in R : r.expires_at <= instant + Retention
    BY <1>1, <1>2, <1>3 DEF ScreenShape, ShapeOf
  <2> QED
    BY <2>1, <2>2 DEF ScreenShape, ShapeOf
<1>5. ASSUME Retention > 0 PROVE Answers(R, identities, g, {})
  <2> SUFFICES ASSUME NEW f \in Families, NEW i \in Identities
               PROVE  IF i \in g[f] \ {} THEN StillKept(R, identities, instant, f, i, instant + Retention)
                      ELSE \A t : StillKept(R, identities, instant, f, i, t)
                                    <=> StillKept(rows, identities, instant, f, i, t)
    BY DEF Answers
  <2>1. CASE i \in g[f]
    <3>1. instant < instant + Retention
      BY <1>1, <1>5
    <3> QED
      BY <1>2, <1>3, <2>1, <3>1 DEF StillKept
  <2>2. CASE i \notin g[f]
    <3>1. \A t : StillKept(R, identities, instant, f, i, t)
                 <=> StillKept(LiveRows, identities, instant, f, i, t)
      BY <1>2, <1>3, <2>2 DEF StillKept
    <3> QED
      BY <2>2, <3>1, OpenOfLiveRows
  <2> QED
    BY <2>1, <2>2
<1> QED
  BY <1>4, <1>5

(* A record is turned away only when the identities fill their tier.       *)
LEMMA AdmittedFills ==
  ASSUME NEW g \in Exposures, NEW held \in SUBSET Identities,
         Carried(g) \ (held \cup Admitted(g, held)) # {}
  PROVE  Cardinality(held \cup Admitted(g, held)) >= MAX_RELINQUISHED_IDENTITIES
<1> DEFINE new == Carried(g) \ held
           A == Admitted(g, held)
           B == new \ A
           early == g[FirstFamily]
           Preceding(i) == {j \in new : Precedes(g, j, i)}
<1>1. /\ IsFiniteSet(Identities) /\ Identities \subseteq Nat /\ FirstFamily \in Families
      /\ MAX_RELINQUISHED_IDENTITIES \in Nat
  BY RelinquishedAssumption
<1>2. Carried(g) \subseteq Identities
  BY DEF Carried, Exposures
<1>3. B # {} /\ B \in SUBSET Nat /\ B \cap early \in SUBSET Nat
  BY <1>1, <1>2
<1>4. PICK i \in B : \A j \in B : ~Precedes(g, j, i)
  <2>1. CASE B \cap early # {}
    <3>1. PICK i \in B \cap early : \A j \in B \cap early : i <= j
      BY <1>3, <2>1, LeastExists
    <3>2. \A j \in B : ~Precedes(g, j, i)
      BY <1>3, <3>1 DEF Precedes
    <3> QED
      BY <3>1, <3>2
  <2>2. CASE B \cap early = {}
    <3>1. PICK i \in B : \A j \in B : i <= j
      BY <1>3, LeastExists
    <3>2. \A j \in B : ~Precedes(g, j, i)
      BY <1>3, <2>2, <3>1 DEF Precedes
    <3> QED
      BY <3>1, <3>2
  <2> QED
    BY <2>1, <2>2
<1>5. Preceding(i) \subseteq A
  BY <1>4
<1>6. ~(Cardinality(Preceding(i)) + Cardinality(held) < MAX_RELINQUISHED_IDENTITIES)
  BY <1>4 DEF Admitted
<1>7. A \subseteq new
  BY DEF Admitted
<1>8. IsFiniteSet(A) /\ IsFiniteSet(held)
  <2>1. A \subseteq Identities
    BY <1>2, <1>7
  <2> QED
    BY <1>1, <2>1, FS_Subset
<1> HIDE DEF A, B, new, early, Preceding
<1>9. IsFiniteSet(Preceding(i)) /\ Cardinality(Preceding(i)) <= Cardinality(A)
  BY <1>5, <1>8, FS_Subset
<1>10. held \cap A = {}
  BY <1>7 DEF new
<1>11. Cardinality(held \cup A) = Cardinality(held) + Cardinality(A)
  <2>1. Cardinality(held \cup A) = Cardinality(held) + Cardinality(A) - Cardinality(held \cap A)
    BY <1>8, FS_Union
  <2>2. Cardinality(held \cap A) = 0
    BY <1>10, FS_EmptySet
  <2>3. Cardinality(held) \in Nat /\ Cardinality(A) \in Nat
    BY <1>8, FS_CardinalityType
  <2> QED
    BY <2>1, <2>2, <2>3
<1>12. /\ Cardinality(held) \in Nat /\ Cardinality(A) \in Nat
       /\ Cardinality(Preceding(i)) \in Nat
  BY <1>8, <1>9, FS_CardinalityType
<1>13. Cardinality(held \cup A) >= MAX_RELINQUISHED_IDENTITIES
  BY <1>1, <1>6, <1>9, <1>11, <1>12
<1> QED
  BY <1>13 DEF A

(* The records kept after a spill, and their expiries.                     *)
Held == DOMAIN LiveIdentities

Kept(g) == Held \cup Admitted(g, Held)

Spilled(g) ==
  [i \in Kept(g) |->
     LET old == IF i \in Held THEN LiveIdentities[i] ELSE Unseen
     IN IF i \in Carried(g) THEN Merge(old, g, i, instant + Retention) ELSE old]

LEMMA SpilledIs ==
  ASSUME ScreenShape, NEW g \in Exposures
  PROVE  /\ Held = {j \in DOMAIN identities : identity_live(identities[j], instant)}
         /\ Kept(g) \subseteq Identities /\ Held \subseteq Kept(g)
         /\ DOMAIN Spilled(g) = Kept(g)
         /\ \A i \in Kept(g) : Spilled(g)[i] \in [Families -> Nat \cup {None}]
         /\ \A i \in Kept(g), f \in Families :
              Spilled(g)[i][f] = IF i \in g[f] THEN instant + Retention
                                 ELSE IF i \in Held THEN identities[i][f] ELSE None
<1> DEFINE e == instant + Retention
           old(i) == IF i \in Held THEN LiveIdentities[i] ELSE Unseen
<1>1. instant \in Nat /\ Retention \in Nat /\ e \in Nat
  BY Ahead
<1>2. Held = {j \in DOMAIN identities : identity_live(identities[j], instant)}
  BY DEF Held, LiveIdentities
<1>3. \A i \in Held : LiveIdentities[i] = identities[i]
  BY DEF Held, LiveIdentities
<1>4. Carried(g) \subseteq Identities
  BY DEF Carried, Exposures
<1>5. Kept(g) \subseteq Identities /\ Held \subseteq Kept(g)
  BY <1>2, <1>4 DEF Kept, Admitted, ScreenShape, ShapeOf
<1>6. DOMAIN Spilled(g) = Kept(g)
  BY DEF Spilled
<1>7. ASSUME NEW i \in Kept(g)
      PROVE  /\ Spilled(g)[i] \in [Families -> Nat \cup {None}]
             /\ \A f \in Families :
                  Spilled(g)[i][f] = IF i \in g[f] THEN e
                                     ELSE IF i \in Held THEN identities[i][f] ELSE None
  <2>1. Spilled(g)[i] = IF i \in Carried(g) THEN Merge(old(i), g, i, e) ELSE old(i)
    BY DEF Spilled
  <2>2. /\ old(i) \in [Families -> Nat \cup {None}]
        /\ \A f \in Families : old(i)[f] # None => old(i)[f] <= e
        /\ \A f \in Families : old(i)[f] = IF i \in Held THEN identities[i][f] ELSE None
    <3>1. CASE i \in Held
      BY <1>2, <1>3, <3>1 DEF ScreenShape, ShapeOf
    <3>2. CASE i \notin Held
      BY <3>2 DEF Unseen
    <3> QED
      BY <3>1, <3>2
  <2> HIDE DEF old
  <2>3. \A f \in Families : Merge(old(i), g, i, e)[f] = IF i \in g[f] THEN e ELSE old(i)[f]
    <3> SUFFICES ASSUME NEW f \in Families
                 PROVE  Merge(old(i), g, i, e)[f] = IF i \in g[f] THEN e ELSE old(i)[f]
      OBVIOUS
    <3>1. old(i)[f] \in Nat \cup {None} /\ (old(i)[f] # None => old(i)[f] <= e)
      BY <2>2
    <3>2. old(i)[f] # None => Later(old(i)[f], e) = e
      BY <1>1, <3>1 DEF Later
    <3>3. Merge(old(i), g, i, e)[f] =
            IF i \in g[f] THEN IF old(i)[f] = None THEN e ELSE Later(old(i)[f], e) ELSE old(i)[f]
      BY DEF Merge
    <3> QED
      BY <3>2, <3>3
  <2>4. Merge(old(i), g, i, e) = [f \in Families |-> Merge(old(i), g, i, e)[f]]
    BY DEF Merge
  <2>5. Merge(old(i), g, i, e) \in [Families -> Nat \cup {None}]
    BY <1>1, <2>2, <2>3, <2>4
  <2>6. i \notin Carried(g) => \A f \in Families : i \notin g[f]
    BY DEF Carried
  <2> QED
    BY <2>1, <2>2, <2>3, <2>5, <2>6
<1> QED
  BY <1>2, <1>5, <1>6, <1>7

LEMMA SpillAnswers ==
  ASSUME ScreenShape, NEW g \in Exposures
  PROVE  /\ ShapeOf(LiveRows, Spilled(g), instant)
         /\ Retention > 0 => Answers(LiveRows, Spilled(g), g, Carried(g) \ Kept(g))
<1> DEFINE e == instant + Retention
           S == Spilled(g)
           K == Kept(g)
<1>1. instant \in Nat /\ Retention \in Nat /\ e \in Nat /\ LiveRows \subseteq rows
  BY Ahead
<1>2. e # None
  BY <1>1, ClockAssumption
<1>3. /\ Held = {j \in DOMAIN identities : identity_live(identities[j], instant)}
      /\ K \subseteq Identities /\ Held \subseteq K /\ DOMAIN S = K
      /\ \A i \in K : S[i] \in [Families -> Nat \cup {None}]
      /\ \A i \in K, f \in Families :
           S[i][f] = IF i \in g[f] THEN e ELSE IF i \in Held THEN identities[i][f] ELSE None
  BY SpilledIs
<1> HIDE DEF S, K
<1>4. ShapeOf(LiveRows, S, instant)
  <2>1. \A i \in K, f \in Families : S[i][f] # None => S[i][f] <= instant + Retention
    BY <1>1, <1>3 DEF ScreenShape, ShapeOf
  <2> QED
    BY <1>1, <1>3, <2>1 DEF ScreenShape, ShapeOf
<1>5. ASSUME Retention > 0 PROVE Answers(LiveRows, S, g, Carried(g) \ K)
  <2> SUFFICES ASSUME NEW f \in Families, NEW i \in Identities
               PROVE  IF i \in g[f] \ (Carried(g) \ K) THEN StillKept(LiveRows, S, instant, f, i, e)
                      ELSE \A t : StillKept(LiveRows, S, instant, f, i, t)
                                    <=> StillKept(rows, identities, instant, f, i, t)
    BY DEF Answers
  <2>1. i \in g[f] => i \in Carried(g)
    BY DEF Carried
  <2>2. CASE i \in g[f] \ (Carried(g) \ K)
    <3>1. i \in K /\ S[i][f] = e
      BY <1>3, <2>1, <2>2
    <3>2. instant < e
      BY <1>1, <1>5
    <3> QED
      BY <1>2, <1>3, <2>2, <3>1, <3>2 DEF StillKept
  <2>3. CASE i \notin g[f] \ (Carried(g) \ K)
    <3> SUFFICES ASSUME NEW t
                 PROVE  StillKept(LiveRows, S, instant, f, i, t) <=> StillKept(rows, identities, instant, f, i, t)
      BY <2>3
    <3>1. i \in K => i \notin g[f]
      BY <2>3
    <3>2. (/\ instant < t /\ i \in DOMAIN S /\ t = S[i][f] /\ t # None)
          <=> (/\ instant < t /\ i \in DOMAIN identities /\ t = identities[i][f] /\ t # None)
      <4>1. CASE i \in Held
        BY <1>3, <3>1, <4>1
      <4>2. CASE i \notin Held
        <5>1. i \in K => S[i][f] = None
          BY <1>3, <3>1, <4>2
        <5>2. ~(instant < t /\ i \in DOMAIN identities /\ t = identities[i][f] /\ t # None)
          BY <1>3, <4>2 DEF identity_live
        <5> QED
          BY <1>3, <5>1, <5>2
      <4> QED
        BY <4>1, <4>2
    <3>3. StillKept(LiveRows, S, instant, f, i, t) <=> StillKept(LiveRows, identities, instant, f, i, t)
      BY <3>2 DEF StillKept
    <3> QED
      BY <3>3, OpenOfLiveRows
  <2> QED
    BY <2>2, <2>3
<1> QED
  BY <1>4, <1>5 DEF S, K

(* Every record the compact tier keeps is being answered for.              *)
LEMMA KeptAreAnswered ==
  ASSUME ScreenShape, NEW g \in Exposures, Retention > 0, NEW i \in Kept(g)
  PROVE  \E f \in Families : Answer(LiveRows, Spilled(g), instant, f, i) # None
<1>1. /\ Held = {j \in DOMAIN identities : identity_live(identities[j], instant)}
      /\ Kept(g) \subseteq Identities /\ DOMAIN Spilled(g) = Kept(g)
      /\ \A f \in Families :
           Spilled(g)[i][f] = IF i \in g[f] THEN instant + Retention
                              ELSE IF i \in Held THEN identities[i][f] ELSE None
  BY SpilledIs
<1>2. instant \in Nat /\ Retention \in Nat /\ instant < instant + Retention
      /\ instant + Retention # None
  BY Ahead, ClockAssumption
<1>3. \E f \in Families : \E t : StillKept(LiveRows, Spilled(g), instant, f, i, t)
  <2>1. CASE i \in Carried(g)
    <3>1. PICK f \in Families : i \in g[f]
      BY <2>1 DEF Carried
    <3> QED
      BY <1>1, <1>2, <3>1 DEF StillKept
  <2>2. CASE i \notin Carried(g)
    <3>1. i \in Held
      BY <2>2 DEF Kept, Admitted
    <3>2. PICK f \in Families : identities[i][f] # None /\ instant < identities[i][f]
      BY <1>1, <3>1 DEF identity_live
    <3>3. i \notin g[f]
      BY <2>2 DEF Carried
    <3> QED
      BY <1>1, <3>1, <3>2, <3>3 DEF StillKept
  <2> QED
    BY <2>1, <2>2
<1>4. ShapeOf(LiveRows, Spilled(g), instant)
  BY SpillAnswers
<1> QED
  BY <1>3, <1>4, AnswerLast, ClockAssumption

-----------------------------------------------------------------------------
(* The steps, seen from the promise.                                       *)

LEMMA RetainStep ==
  ASSUME ScreenShape, NEW g \in Generations, Retain(g)
  PROVE  /\ ScreenShape' /\ given' = g /\ g \in Exposures /\ UNCHANGED instant
         /\ instant + Retention <= MaxInstant
         /\ \E refused \in SUBSET Carried(g) :
              /\ refused # {} =>
                   Cardinality({i \in Identities : \E f \in Families : Disowned(f, i)' # None})
                     >= MAX_RELINQUISHED_IDENTITIES
              /\ \A f \in Families, i \in Identities :
                   Disowned(f, i)' = IF i \in g[f] \ refused
                                     THEN IF Retention > 0 THEN instant + Retention ELSE None
                                     ELSE Disowned(f, i)
<1> DEFINE e == instant + Retention
<1>1. instant \in Nat /\ Retention \in Nat /\ e \in Nat /\ e # None
  BY Ahead, ClockAssumption
<1>2. g \in Exposures /\ given' = g /\ instant' = instant
  BY RelinquishedAssumption DEF Retain, Exposures
<1>3. checked_add(instant, Retention) = e /\ e <= MaxInstant
  BY DEF Retain, checked_add
<1>4. PICK refused \in SUBSET Carried(g) :
        /\ ShapeOf(rows', identities', instant)
        /\ Retention > 0 => Answers(rows', identities', g, refused)
        /\ refused # {} /\ Retention > 0 =>
             Cardinality({i \in Identities : \E f \in Families :
                            Answer(rows', identities', instant, f, i) # None})
               >= MAX_RELINQUISHED_IDENTITIES
  <2>1. CASE /\ \E r \in LiveRows : r.generation = g
             /\ rows' = {IF r.generation = g THEN [r EXCEPT !.expires_at = Later(@, e)] ELSE r :
                           r \in LiveRows}
             /\ identities' = identities
    <3>1. /\ ShapeOf(rows', identities, instant)
          /\ Retention > 0 => Answers(rows', identities, g, {})
      BY <1>2, <2>1, MergedRow
    <3> QED
      BY <2>1, <3>1
  <2>2. CASE /\ rows' = LiveRows \cup {[generation |-> g, expires_at |-> e]}
             /\ identities' = identities
    <3>1. /\ ShapeOf(rows', identities, instant)
          /\ Retention > 0 => Answers(rows', identities, g, {})
      BY <1>2, <2>2, NewRow
    <3> QED
      BY <2>2, <3>1
  <2>3. CASE rows' = LiveRows /\ identities' = Spilled(g)
    <3>1. /\ ShapeOf(rows', identities', instant)
          /\ Retention > 0 => Answers(rows', identities', g, Carried(g) \ Kept(g))
      BY <1>2, <2>3, SpillAnswers
    <3>2. ASSUME Carried(g) \ Kept(g) # {}, Retention > 0
          PROVE  Cardinality({i \in Identities : \E f \in Families :
                                Answer(rows', identities', instant, f, i) # None})
                   >= MAX_RELINQUISHED_IDENTITIES
      <4> DEFINE L == {i \in Identities : \E f \in Families :
                         Answer(rows', identities', instant, f, i) # None}
      <4>1. Kept(g) \subseteq Identities /\ Held \subseteq Identities
        BY <1>2, SpilledIs
      <4>2. Kept(g) \subseteq L
        BY <1>2, <2>3, <3>2, <4>1, KeptAreAnswered
      <4>3. Cardinality(Kept(g)) >= MAX_RELINQUISHED_IDENTITIES
        BY <1>2, <3>2, <4>1, AdmittedFills DEF Kept
      <4>4. IsFiniteSet(Identities) /\ L \subseteq Identities
            /\ MAX_RELINQUISHED_IDENTITIES \in Nat
        BY RelinquishedAssumption
      <4> HIDE DEF L
      <4>5. IsFiniteSet(L) /\ IsFiniteSet(Kept(g))
        BY <4>1, <4>4, FS_Subset
      <4>6. Cardinality(Kept(g)) <= Cardinality(L)
        BY <4>2, <4>5, FS_Subset
      <4>7. Cardinality(L) \in Nat /\ Cardinality(Kept(g)) \in Nat
        BY <4>5, FS_CardinalityType
      <4>8. Cardinality(L) >= MAX_RELINQUISHED_IDENTITIES
        BY <4>3, <4>4, <4>6, <4>7
      <4> QED
        BY <4>8 DEF L
    <3> QED
      BY <3>1, <3>2
  <2>4. Spill(g, e) => rows' = LiveRows /\ identities' = Spilled(g)
    BY DEF Spill, retain_relinquished_identities, Spilled, Kept, Held
  <2> QED
    BY <1>3, <2>1, <2>2, <2>3, <2>4 DEF Retain
<1>5. ScreenShape'
  BY <1>2, <1>4 DEF ScreenShape
<1>6. \A f \in Families, i \in Identities :
        /\ Disowned(f, i) = Answer(rows, identities, instant, f, i)
        /\ Disowned(f, i)' = Answer(rows', identities', instant, f, i)
  BY <1>2, <1>5, DisownedIs
<1> DEFINE Full == Cardinality({i \in Identities : \E f \in Families : Disowned(f, i)' # None})
                     >= MAX_RELINQUISHED_IDENTITIES
           Moved(X) == \A f \in Families, i \in Identities :
                         Disowned(f, i)' = IF i \in g[f] \ X
                                           THEN IF Retention > 0 THEN e ELSE None
                                           ELSE Disowned(f, i)
<1>7. ASSUME Retention > 0 PROVE (refused # {} => Full) /\ Moved(refused)
  <2>1. ASSUME NEW f \in Families, NEW i \in Identities
        PROVE  Disowned(f, i)' = IF i \in g[f] \ refused THEN e ELSE Disowned(f, i)
    <3>1. CASE i \in g[f] \ refused
      <4>1. StillKept(rows', identities', instant, f, i, e)
        BY <1>4, <1>7, <3>1 DEF Answers
      <4> QED
        BY <1>4, <1>6, <3>1, <4>1, AnswerWhole
    <3>2. CASE i \notin g[f] \ refused
      <4>1. \A t : StillKept(rows', identities', instant, f, i, t)
                     <=> StillKept(rows, identities, instant, f, i, t)
        BY <1>4, <1>7, <3>2 DEF Answers
      <4>2. Answer(rows', identities', instant, f, i) = Answer(rows, identities, instant, f, i)
        BY <4>1, AnswerSame
      <4> QED
        BY <1>6, <3>2, <4>2
    <3> QED
      BY <3>1, <3>2
  <2>2. {i \in Identities : \E f \in Families : Disowned(f, i)' # None} =
        {i \in Identities : \E f \in Families : Answer(rows', identities', instant, f, i) # None}
    BY <1>6
  <2>3. refused # {} => Full
    BY <1>4, <1>7, <2>2
  <2> QED
    BY <1>7, <2>1, <2>3
<1>8. ASSUME Retention = 0 PROVE Moved({})
  <2>1. ASSUME NEW f \in Families, NEW i \in Identities
        PROVE  Disowned(f, i)' = None /\ Disowned(f, i) = None
    <3>1. \A t : ~StillKept(rows, identities, instant, f, i, t)
      BY <1>1, <1>8, OpenBounded DEF ScreenShape
    <3>2. \A t : ~StillKept(rows', identities', instant, f, i, t)
      BY <1>1, <1>4, <1>8, OpenBounded
    <3> QED
      BY <1>4, <1>6, <3>1, <3>2, AnswerLast DEF ScreenShape
  <2>2. \A f \in Families, i \in Identities :
          Disowned(f, i)' = IF i \in g[f] \ {} THEN None ELSE Disowned(f, i)
    BY <2>1
  <2> QED
    BY <1>8, <2>2
<1> HIDE DEF Full, Moved
<1>9. \E X \in SUBSET Carried(g) : (X # {} => Full) /\ Moved(X)
  BY <1>1, <1>7, <1>8
<1> QED
  BY <1>2, <1>3, <1>5, <1>9 DEF Full, Moved

LEMMA SweepStep ==
  ASSUME ScreenShape, SweepRelinquished
  PROVE  /\ ScreenShape' /\ UNCHANGED <<instant, given>>
         /\ \A f \in Families, i \in Identities : Disowned(f, i)' = Disowned(f, i)
<1>1. rows' = LiveRows /\ identities' = LiveIdentities /\ UNCHANGED <<instant, given>>
  BY DEF SweepRelinquished
<1>2. /\ DOMAIN LiveIdentities = {j \in DOMAIN identities : identity_live(identities[j], instant)}
      /\ \A i \in DOMAIN LiveIdentities : LiveIdentities[i] = identities[i]
  BY DEF LiveIdentities
<1>3. ShapeOf(LiveRows, LiveIdentities, instant)
  BY <1>2, Ahead DEF ScreenShape, ShapeOf
<1>4. ScreenShape'
  BY <1>1, <1>3 DEF ScreenShape
<1>5. ASSUME NEW f \in Families, NEW i \in Identities
      PROVE  Disowned(f, i)' = Disowned(f, i)
  <2>1. \A t : StillKept(LiveRows, LiveIdentities, instant, f, i, t)
               <=> StillKept(LiveRows, identities, instant, f, i, t)
    BY <1>2 DEF StillKept, identity_live
  <2>2. \A t : StillKept(LiveRows, LiveIdentities, instant, f, i, t)
               <=> StillKept(rows, identities, instant, f, i, t)
    BY <2>1, OpenOfLiveRows
  <2>3. Answer(LiveRows, LiveIdentities, instant, f, i) = Answer(rows, identities, instant, f, i)
    BY <2>2, AnswerSame
  <2> QED
    BY <1>1, <1>4, <2>3, DisownedIs
<1> QED
  BY <1>1, <1>4, <1>5

LEMMA TickStep ==
  ASSUME ScreenShape, ScreenTick
  PROVE  /\ ScreenShape' /\ instant' = instant + 1 /\ UNCHANGED given
         /\ \A f \in Families, i \in Identities :
              Disowned(f, i)' = IF Due(Disowned(f, i), instant') THEN None ELSE Disowned(f, i)
<1>1. /\ instant < MaxInstant /\ instant' = instant + 1
      /\ rows' = rows /\ identities' = identities /\ given' = given
  BY DEF ScreenTick
<1>2. instant \in Nat /\ Retention \in Nat
  BY Ahead
<1>3. ShapeOf(rows, identities, instant + 1)
  <2>1. instant + 1 \in Instant
    BY <1>1, <1>2, ClockAssumption DEF Instant
  <2>2. \A r \in rows : r.expires_at <= instant + 1 + Retention
    BY <1>2 DEF ScreenShape, ShapeOf
  <2>3. \A i \in DOMAIN identities : \A f \in Families :
          identities[i][f] # None => identities[i][f] <= instant + 1 + Retention
    BY <1>2 DEF ScreenShape, ShapeOf
  <2> QED
    BY <2>1, <2>2, <2>3 DEF ScreenShape, ShapeOf
<1>4. ScreenShape'
  BY <1>1, <1>3 DEF ScreenShape
<1>5. ASSUME NEW f \in Families, NEW i \in Identities
      PROVE  Disowned(f, i)' = IF Due(Disowned(f, i), instant + 1) THEN None ELSE Disowned(f, i)
  <2>1. Disowned(f, i) = Answer(rows, identities, instant, f, i)
    BY DisownedIs
  <2>2. Disowned(f, i)' = Answer(rows, identities, instant + 1, f, i)
    BY <1>1, <1>4, DisownedIs
  <2> QED
    BY <1>3, <2>1, <2>2, AnswerLater DEF ScreenShape
<1> QED
  BY <1>1, <1>4, <1>5

LEMMA ScreenInitShape ==
  ASSUME ScreenInit
  PROVE  ScreenShape /\ \A f \in Families, i \in Identities : Disowned(f, i) = None
<1>1. instant = 0 /\ rows = {} /\ DOMAIN identities = {}
  BY DEF ScreenInit
<1>2. ScreenShape
  BY <1>1, ClockAssumption DEF ScreenShape, ShapeOf, Instant
<1>3. \A f \in Families, i \in Identities : Disowned(f, i) = None
  BY <1>1 DEF Disowned, Windows
<1> QED
  BY <1>2, <1>3

-----------------------------------------------------------------------------
(* The refinement: initial states map to initial states, and every step    *)
(* to a step of the promise or to a stutter.                               *)

LEMMA PromiseInit == ScreenInit => Promise!Init
<1> SUFFICES ASSUME ScreenInit PROVE Promise!Init
  OBVIOUS
<1>1. \A f \in Families, i \in Identities : Disowned(f, i) = None
  BY ScreenInitShape
<1>2. window = [f \in Families |-> [i \in Identities |-> None]]
  BY <1>1 DEF window
<1> QED
  BY <1>2 DEF Promise!Init, Promise!Nothing, ScreenInit

LEMMA PromiseStep == ScreenShape /\ [ScreenNext]_screenVars => [Promise!Next]_(Promise!vars)
<1> SUFFICES ASSUME ScreenShape, [ScreenNext]_screenVars PROVE [Promise!Next]_(Promise!vars)
  OBVIOUS
<1>1. window' = [f \in Families |-> [i \in Identities |-> Disowned(f, i)']]
  BY DEF window
<1>2. ASSUME NEW g \in Generations, Retain(g) PROVE Promise!Relinquish
  <2>1. /\ given' = g /\ g \in Exposures /\ UNCHANGED instant /\ instant + Retention <= MaxInstant
    BY <1>2, RetainStep
  <2>2. PICK refused \in SUBSET Carried(g) :
          /\ refused # {} =>
               Cardinality({i \in Identities : \E f \in Families : Disowned(f, i)' # None})
                 >= MAX_RELINQUISHED_IDENTITIES
          /\ \A f \in Families, i \in Identities :
               Disowned(f, i)' = IF i \in g[f] \ refused
                                 THEN IF Retention > 0 THEN instant + Retention ELSE None
                                 ELSE Disowned(f, i)
    BY <1>2, RetainStep
  <2>3. refused \in SUBSET Promise!Carried(given')
    BY <2>1 DEF Carried, Promise!Carried
  <2>4. Promise!Live(window') = {i \in Identities : \E f \in Families : Disowned(f, i)' # None}
    BY <1>1 DEF Promise!Live
  <2>5. window' = Promise!Promised(given', refused, window)
    <3>1. \A f \in Families, i \in Identities : window[f][i] = Disowned(f, i)
      BY DEF window
    <3> QED
      BY <1>1, <2>1, <2>2, <3>1 DEF Promise!Promised, Promise!Until
  <2>6. refused # {} => Cardinality(Promise!Live(window')) >= MAX_RELINQUISHED_IDENTITIES
    BY <2>2, <2>4
  <2>7. given' \in [Families -> SUBSET Identities]
    BY <2>1 DEF Exposures
  <2> QED
    <3>1. \E X \in SUBSET Promise!Carried(given') :
            /\ X # {} => Cardinality(Promise!Live(window')) >= MAX_RELINQUISHED_IDENTITIES
            /\ window' = Promise!Promised(given', X, window)
      BY <2>3, <2>5, <2>6
    <3>2. \A S : Promise!Cardinality(S) = Cardinality(S)
      BY DEF Promise!Cardinality, Cardinality
    <3> QED
      BY <2>1, <2>7, <3>1, <3>2 DEF Promise!Relinquish
<1>3. ASSUME SweepRelinquished PROVE UNCHANGED Promise!vars
  <2>1. /\ UNCHANGED <<instant, given>>
        /\ \A f \in Families, i \in Identities : Disowned(f, i)' = Disowned(f, i)
    BY <1>3, SweepStep
  <2>2. window' = window
    BY <1>1, <2>1 DEF window
  <2> QED
    BY <2>1, <2>2 DEF Promise!vars
<1>4. ASSUME ScreenTick PROVE Promise!Tick
  <2>1. /\ instant' = instant + 1 /\ UNCHANGED given
        /\ \A f \in Families, i \in Identities :
             Disowned(f, i)' = IF Due(Disowned(f, i), instant') THEN None ELSE Disowned(f, i)
    BY <1>4, TickStep
  <2>2. window' = [f \in Families |-> [i \in Identities |->
                     IF Due(window[f][i], instant') THEN None ELSE window[f][i]]]
    <3>1. \A f \in Families, i \in Identities : window[f][i] = Disowned(f, i)
      BY DEF window
    <3> QED
      BY <1>1, <2>1, <3>1
  <2> QED
    BY <2>1, <2>2 DEF Promise!Tick, Promise!Due, Due
<1>5. ASSUME UNCHANGED screenVars PROVE UNCHANGED Promise!vars
  <2>1. window' = window
    BY <1>5 DEF screenVars, window, Disowned, Windows
  <2> QED
    BY <1>5, <2>1 DEF screenVars, Promise!vars
<1> QED
  BY <1>2, <1>3, <1>4, <1>5 DEF ScreenNext, Promise!Next

LEMMA ShapeStep == ScreenShape /\ [ScreenNext]_screenVars => ScreenShape'
<1> SUFFICES ASSUME ScreenShape, [ScreenNext]_screenVars PROVE ScreenShape'
  OBVIOUS
<1>1. CASE UNCHANGED screenVars
  BY <1>1 DEF screenVars, ScreenShape, ShapeOf
<1> QED
  BY <1>1, RetainStep, SweepStep, TickStep DEF ScreenNext

(* Endpoint::retain_relinquished and sweep_relinquished never let an       *)
(* expiry lie further ahead than one retention, in either tier: the        *)
(* invariant the refinement rests on.                                      *)
THEOREM WindowsWithinRetention == ScreenSpec => []ScreenShape
BY ScreenInitShape, ShapeStep, PTL DEF ScreenSpec

(* Rows and identities together are the promise of Screen: through merges, *)
(* spills at the ceiling of the rows, refusals at the ceiling of the       *)
(* identities and sweeps, each record is disowned on each family that      *)
(* carried it for one whole retention, on no other family and not longer.  *)
THEOREM TiersKeepPromise == ScreenSpec => KeepsPromise
<1>1. ScreenInit => Promise!Init
  BY PromiseInit
<1>2. ScreenShape /\ [ScreenNext]_screenVars => [Promise!Next]_(Promise!vars)
  BY PromiseStep
<1> QED
  BY <1>1, <1>2, WindowsWithinRetention, PTL DEF ScreenSpec, KeepsPromise, Promise!Spec

-----------------------------------------------------------------------------
(* Routing one datagram: what is read of it.                               *)

(* The least of a set of indices is the one the code finds first.          *)
LEMMA MinIsLeast ==
  ASSUME NEW S \in SUBSET Nat, S # {}
  PROVE  Min(S) \in S /\ \A x \in S : Min(S) <= x
<1>1. PICK n \in S : \A x \in S : n <= x
  BY LeastExists
<1> QED
  BY <1>1 DEF Min

(* What is known of the sections of a datagram.                            *)
Legible(m) == \A section \in DOMAIN Before : ASequence(m[section])

(* Where a section is first unreadable, or 0.                              *)
LEMMA FirstJunk ==
  ASSUME NEW s, ASequence(s), NEW n, n = SelectInSeq(s, LAMBDA e : e = Junk)
  PROVE  \/ n = 0 /\ \A i \in 1 .. Len(s) : s[i] # Junk
         \/ n \in 1 .. Len(s) /\ s[n] = Junk /\ \A i \in 1 .. n - 1 : s[i] # Junk
<1>1. Len(s) \in Nat
  BY DEF ASequence
<1>2. PICK I : I = {i \in 1 .. Len(s) : s[i] = Junk}
  OBVIOUS
<1>3. n = IF I # {} THEN Min(I) ELSE 0
  BY <1>2 DEF SelectInSeq
<1>4. CASE I = {}
  BY <1>2, <1>3, <1>4
<1>5. CASE I # {}
  <2>1. I \in SUBSET Nat
    BY <1>1, <1>2
  <2>2. n \in I /\ \A i \in I : n <= i
    BY <1>3, <1>5, <2>1, MinIsLeast
  <2>3. \A i \in 1 .. n - 1 : s[i] # Junk
    <3>1. ASSUME NEW i \in 1 .. n - 1, s[i] = Junk PROVE FALSE
      <4>1. i \in I
        BY <1>1, <1>2, <2>2, <3>1
      <4>2. n \in Nat /\ n <= i
        BY <2>1, <2>2, <4>1
      <4> QED
        BY <4>2
    <3> QED
      BY <3>1
  <2> QED
    BY <1>2, <2>2, <2>3
<1> QED
  BY <1>4, <1>5

(* Iterating a section yields its entries up to the first that is Junk.    *)
LEMMA ReadYields ==
  ASSUME NEW m, Legible(m), NEW section \in DOMAIN Before
  PROVE  /\ Len(Read(m, section)) \in Nat /\ DOMAIN Read(m, section) = 1 .. Len(Read(m, section))
         /\ \A i \in 1 .. Len(Read(m, section)) :
              /\ i \in DOMAIN m[section] /\ Read(m, section)[i] = m[section][i]
              /\ Read(m, section)[i] = Junk => i = Len(Read(m, section))
<1>1. PICK s : s = m[section] /\ ASequence(s)
  BY DEF Legible
<1>2. Len(s) \in Nat /\ DOMAIN s = 1 .. Len(s) /\ s \in Seq(ToSet(s))
  BY <1>1 DEF ASequence
<1>3. PICK n : n = SelectInSeq(s, LAMBDA e : e = Junk)
  OBVIOUS
<1>4. \/ n = 0 /\ \A i \in 1 .. Len(s) : s[i] # Junk
      \/ n \in 1 .. Len(s) /\ s[n] = Junk /\ \A i \in 1 .. n - 1 : s[i] # Junk
  BY <1>1, <1>3, FirstJunk
<1>5. \/ Read(m, section) = <<>>
      \/ Read(m, section) = IF n = 0 THEN s ELSE SubSeq(s, 1, n)
  BY <1>1, <1>3 DEF Read
<1>6. CASE Read(m, section) = <<>>
  BY <1>6
<1>7. CASE n = 0 /\ Read(m, section) = s
  BY <1>1, <1>2, <1>4, <1>7
<1>8. CASE n # 0 /\ Read(m, section) = SubSeq(s, 1, n)
  <2>1. n \in 1 .. Len(s) /\ \A i \in 1 .. n - 1 : s[i] # Junk
    BY <1>4, <1>8
  <2>2. /\ Len(SubSeq(s, 1, n)) = n /\ DOMAIN SubSeq(s, 1, n) = 1 .. n
        /\ \A i \in 1 .. n : SubSeq(s, 1, n)[i] = s[i]
    BY <1>2, <2>1
  <2> QED
    BY <1>1, <1>2, <1>8, <2>1, <2>2
<1> QED
  BY <1>5, <1>6, <1>7, <1>8

(* Nothing is read past a section that cannot be read to its end.          *)
LEMMA NothingReadPast ==
  ASSUME NEW m, Legible(m), NEW section \in DOMAIN Before, NEW i \in DOMAIN Read(m, section),
         Read(m, section)[i] = Junk, NEW later \in DOMAIN Before, section \in Before[later]
  PROVE  Read(m, later) = <<>>
<1>1. i \in DOMAIN m[section] /\ m[section][i] = Junk
  BY ReadYields
<1> QED
  BY <1>1 DEF Read

-----------------------------------------------------------------------------
(* The walk, and what it has been past.                                    *)

(* The sections a walk has left when it stands in this one.                *)
Past == [questions |-> {}, answers |-> {"questions"}, proposals |-> {"questions", "answers"},
         authority |-> {"questions", "answers", "proposals"},
         additional |-> {"questions", "answers", "proposals", "authority"},
         done |-> {"questions", "answers", "proposals", "authority", "additional"}]

(* The entry the walk stands on is the event's.                            *)
AtHand(a, e) == e.section = a.section /\ e.idx = a.idx

(* What the walk, standing at `a`, has already been past.                  *)
Seen(a, e) ==
  \/ e.section \in Past[a.section]
  \/ e.section = a.section /\ e.idx < a.idx
  \/ AtHand(a, e) /\ e.what = "Answer" /\ a.served /\ e.to < a.query_cursor
  \/ AtHand(a, e) /\ e.what # "Answer" /\ (a.served \/ e.to < a.cursor)

(* Where a walk may stand.                                                 *)
Position(a) ==
  /\ a = [section |-> a.section, idx |-> a.idx, cursor |-> a.cursor, served |-> a.served,
          query_cursor |-> a.query_cursor]
  /\ a.section \in DOMAIN Past
  /\ a.idx \in Nat \ {0} /\ a.cursor \in Nat \ {0} /\ a.query_cursor \in Nat \ {0}
  /\ a.served \in BOOLEAN
  /\ a.served => a.section \in {"answers", "additional"}
  /\ ~a.served => a.query_cursor = 1
  /\ a.section = "proposals" => a.idx = 1

(* What `handle` has settled for the walk.                                 *)
Handled == /\ table \in Tables /\ packet \in Packets
           /\ fed = IF admitted.observation /\ msg.is_response THEN EagerAnswers(msg, table.queries) ELSE {}
           /\ msg.is_response /\ ~all_denied(admitted) => FromMdnsPort

(* The screen's memory is of the record it names.                          *)
Remembers ==
  \A s \in DOMAIN Before : \A i \in DOMAIN Read(msg, s) :
    screen.slot = <<s, i>> => screen.relinquished = Read(msg, s)[i].relinquished

(***************************************************************************)
(* Of all that is owed, the walk has routed what it has been past, once    *)
(* each.                                                                   *)
(***************************************************************************)
RoutedSoFar ==
  /\ routed \in Seq(Events)
  /\ \A i, j \in 1 .. Len(routed) : routed[i] = routed[j] => i = j
  /\ ToSet(routed) = {e \in Events : Concerns(e) /\ Seen(at, e)}

(* The inductive invariant of the walk.                                    *)
RoutingInv ==
  at.section # "idle" =>
    \/ at.section = "done" /\ all_denied(admitted)
    \/ /\ ~all_denied(admitted) /\ Position(at) /\ Handled /\ Remembers /\ RoutedSoFar

(* No step of the walk touches what is routed over.                        *)
Undisturbed == UNCHANGED <<table, packet, admitted, fed, quieted>>

(* So what is read off it does not change,                                 *)
LEMMA SameMessage ==
  ASSUME Undisturbed
  PROVE  /\ msg' = msg /\ FromMdnsPort' = FromMdnsPort /\ Services' = Services /\ Events' = Events
         /\ (Handled' <=> Handled) /\ all_denied(admitted)' = all_denied(admitted)
         /\ \A k : service(k)' = service(k)
<1>1. msg' = msg
  BY DEF Undisturbed, msg
<1>2. FromMdnsPort' = FromMdnsPort
  BY DEF Undisturbed, FromMdnsPort
<1>3. Services' = Services
  BY DEF Undisturbed, Services
<1>4. Events' = Events
  BY <1>1 DEF Undisturbed, Events, EntrySlots
<1>5. Handled' <=> Handled
  BY <1>1, <1>2 DEF Undisturbed, Handled
<1>6. \A k : service(k)' = service(k)
  BY DEF Undisturbed, service
<1> QED
  BY <1>1, <1>2, <1>3, <1>4, <1>5, <1>6 DEF Undisturbed

(* nor does what concerns whom.                                            *)
LEMMA SameConcerns ==
  ASSUME Undisturbed, NEW e
  PROVE  Concerns(e)' <=> Concerns(e)
<1>1. /\ msg' = msg /\ FromMdnsPort' = FromMdnsPort /\ Services' = Services
      /\ \A k : service(k)' = service(k)
      /\ table' = table /\ admitted' = admitted /\ fed' = fed
  BY SameMessage DEF Undisturbed
<1>2. AnswersNothing' = AnswersNothing
  BY <1>1 DEF AnswersNothing, could_be_a_probe
<1>3. \A i : Readable("questions", i)' = Readable("questions", i)
  BY <1>1 DEF Readable
<1>4. Record(e)' = Record(e) /\ IsRecord(e)' = IsRecord(e)
  BY <1>1 DEF Record, IsRecord, Readable
<1>5. Contests(e)' = Contests(e)
  BY <1>1, <1>4 DEF Contests
<1>6. \A q : questioned(q)' = questioned(q)
  BY <1>1 DEF questioned
<1>7. \A r : (DOMAIN known_answer(r))' = DOMAIN known_answer(r)
  BY <1>1 DEF known_answer
<1>8. Proposes' = Proposes /\ proposed_to' = proposed_to
  BY <1>1 DEF Proposes, proposed_to
<1>9. \A k, r : HostClash(k, r)' = HostClash(k, r)
  BY <1>1 DEF HostClash
<1> QED
  BY <1>1, <1>2, <1>3, <1>4, <1>5, <1>6, <1>7, <1>8, <1>9 DEF Concerns

(***************************************************************************)
(* An event names a slot of one of the tables and an entry of the          *)
(* datagram,                                                               *)
(***************************************************************************)
LEMMA EventShape ==
  ASSUME Handled, NEW e \in Events
  PROVE  /\ e = [to |-> e.to, what |-> e.what, section |-> e.section, idx |-> e.idx]
         /\ e.to \in Nat \ {0} /\ e.idx \in Nat \ {0} /\ e.what \in Kinds
         /\ e.section \in DOMAIN Before \cup {"proposals"}
         /\ e.section \in DOMAIN Before => e.idx \in DOMAIN msg[e.section]
<1>1. PICK k \in DOMAIN table.services \cup DOMAIN table.queries, what \in Kinds, slot \in EntrySlots :
        e = [to |-> k, what |-> what, section |-> slot[1], idx |-> slot[2]]
  BY DEF Events, Event
<1>2. k \in Nat \ {0}
  <2>1. ASequence(table.services) /\ ASequence(table.queries)
    BY RoutingAssumption DEF Handled
  <2>2. PICK s, q : s = table.services /\ q = table.queries /\ s \in Seq(ToSet(s)) /\ q \in Seq(ToSet(q))
    BY <2>1 DEF ASequence
  <2> QED
    BY <1>1, <2>2
<1>3. \/ slot[1] \in DOMAIN Before /\ slot[2] \in DOMAIN msg[slot[1]]
      \/ slot[1] = "proposals" /\ slot[2] = 1
  BY <1>1 DEF EntrySlots
<1>4. \A s \in DOMAIN Before : DOMAIN msg[s] \subseteq Nat \ {0}
  <2>1. TAKE s \in DOMAIN Before
  <2>2. PICK q : q = msg[s] /\ q \in Seq(ToSet(q))
    BY RoutingAssumption DEF Handled, msg, ASequence
  <2> QED
    BY <2>2
<1>5. "proposals" \notin DOMAIN Before
  BY DEF Before
<1>6. slot[2] \in Nat \ {0}
  BY <1>3, <1>4
<1> QED
  BY <1>1, <1>2, <1>3, <1>5, <1>6

(* and whatever names one of each is an event.                             *)
LEMMA AnEvent ==
  ASSUME NEW k \in DOMAIN table.services \cup DOMAIN table.queries, NEW what \in Kinds, NEW s, NEW i,
         \/ s \in DOMAIN Before /\ i \in DOMAIN msg[s]
         \/ s = "proposals" /\ i = 1
  PROVE  [to |-> k, what |-> what, section |-> s, idx |-> i] \in Events
<1>1. <<s, i>> \in EntrySlots
  BY DEF EntrySlots
<1>2. PICK slot : slot = <<s, i>>
  OBVIOUS
<1>3. slot \in EntrySlots /\ slot[1] = s /\ slot[2] = i
  BY <1>1, <1>2
<1>4. Event(k, what, slot) \in Events
  BY <1>3 DEF Events
<1> QED
  BY <1>3, <1>4 DEF Event

(* A step that routes nothing passes nothing by.                           *)
LEMMA Passed ==
  ASSUME RoutedSoFar, Undisturbed, routed' = routed,
         \A e \in Events : Concerns(e) => (Seen(at', e) <=> Seen(at, e))
  PROVE  RoutedSoFar'
<1>1. \A e \in Events : Concerns(e)' <=> Concerns(e)
  BY SameConcerns
<1>2. \A e : Seen(at, e)' <=> Seen(at', e)
  BY DEF Seen
<1>3. Events' = Events
  BY SameMessage
<1> QED
  BY <1>1, <1>2, <1>3 DEF RoutedSoFar

(* An event routed as the walk passes it.                                  *)
LEMMA Appended ==
  ASSUME RoutedSoFar, Undisturbed, NEW f \in Events, routed' = Append(routed, f),
         Concerns(f), ~Seen(at, f),
         \A e \in Events : Concerns(e) => (Seen(at', e) <=> Seen(at, e) \/ e = f)
  PROVE  RoutedSoFar'
<1>1. \A e \in Events : Concerns(e)' <=> Concerns(e)
  BY SameConcerns
<1>2. \A e : Seen(at, e)' <=> Seen(at', e)
  BY DEF Seen
<1>3. Events' = Events
  BY SameMessage
<1>4. PICK E, C, D, r, q :
        /\ E = Events /\ r = routed /\ q = routed'
        /\ C = {e \in Events : Concerns(e) /\ Seen(at, e)}
        /\ D = {e \in Events : Concerns(e) /\ Seen(at', e)}
  OBVIOUS
<1>5. D = C \cup {f} /\ f \notin C
  BY <1>4
<1>6. D = {e \in Events' : Concerns(e)' /\ Seen(at, e)'}
  BY <1>1, <1>2, <1>3, <1>4
<1>7. r \in Seq(E) /\ q = Append(r, f) /\ ToSet(r) = C /\ f \in E
      /\ \A i, j \in 1 .. Len(r) : r[i] = r[j] => i = j
  BY <1>4 DEF RoutedSoFar
<1>8. /\ q \in Seq(E) /\ Len(q) = Len(r) + 1 /\ Len(r) \in Nat
      /\ \A i \in 1 .. Len(r) : q[i] = r[i]
      /\ q[Len(r) + 1] = f
  BY <1>7
<1>9. ToSet(q) = D
  <2>1. DOMAIN q = 1 .. Len(r) + 1 /\ DOMAIN r = 1 .. Len(r)
    BY <1>7, <1>8
  <2>2. C = {r[i] : i \in 1 .. Len(r)}
    BY <1>7, <2>1 DEF ToSet
  <2>3. \A i \in DOMAIN q : q[i] \in D
    BY <1>5, <1>8, <2>1, <2>2
  <2>4. \A e \in D : \E i \in DOMAIN q : q[i] = e
    <3>1. TAKE e \in D
    <3>2. CASE e = f
      BY <1>8, <2>1, <3>2
    <3>3. CASE e \in C
      <4>1. PICK i \in 1 .. Len(r) : r[i] = e
        BY <2>2, <3>3
      <4> QED
        BY <1>8, <2>1, <4>1
    <3> QED
      BY <1>5, <3>2, <3>3
  <2> QED
    BY <2>3, <2>4 DEF ToSet
<1>10. \A i \in 1 .. Len(r) : r[i] \in C
  BY <1>7 DEF ToSet
<1>11. \A i, j \in 1 .. Len(q) : q[i] = q[j] => i = j
  <2>1. SUFFICES ASSUME NEW i \in 1 .. Len(q), NEW j \in 1 .. Len(q), q[i] = q[j] PROVE i = j
    OBVIOUS
  <2>2. CASE i \in 1 .. Len(r) /\ j \in 1 .. Len(r)
    BY <1>7, <1>8, <2>1, <2>2
  <2>3. CASE i = Len(r) + 1 /\ j \in 1 .. Len(r)
    BY <1>5, <1>8, <1>10, <2>1, <2>3
  <2>4. CASE j = Len(r) + 1 /\ i \in 1 .. Len(r)
    BY <1>5, <1>8, <1>10, <2>1, <2>4
  <2> QED
    BY <1>8, <2>2, <2>3, <2>4
<1> QED
  BY <1>3, <1>4, <1>6, <1>8, <1>9, <1>11 DEF RoutedSoFar

-----------------------------------------------------------------------------
(* The moves of the cursors.                                               *)

(* Slots and entries are numbered from 1.                                  *)
Whole(e) == e.to \in Nat \ {0} /\ e.idx \in Nat \ {0}

(* Going on to the next entry leaves behind what was at hand.              *)
LEMMA NextPasses ==
  ASSUME NEW a, Position(a), a.section # "proposals",
         NEW b, b = [Enter(a.section) EXCEPT !.idx = a.idx + 1]
  PROVE  /\ Position(b)
         /\ \A e : Whole(e) => (Seen(b, e) <=> Seen(a, e) \/ AtHand(a, e))
<1>1. b = [section |-> a.section, idx |-> a.idx + 1, cursor |-> 1, served |-> FALSE, query_cursor |-> 1]
  BY DEF Enter
<1>2. Position(b)
  <2>1. /\ b.section = a.section /\ b.idx = a.idx + 1 /\ b.cursor = 1 /\ b.served = FALSE
        /\ b.query_cursor = 1 /\ a.section \in DOMAIN Past /\ a.idx \in Nat \ {0}
    BY <1>1 DEF Position
  <2>2. b = [section |-> b.section, idx |-> b.idx, cursor |-> b.cursor, served |-> b.served,
             query_cursor |-> b.query_cursor]
    BY <1>1
  <2>3. b.idx \in Nat \ {0} /\ b.cursor \in Nat \ {0} /\ b.query_cursor \in Nat \ {0}
    BY <2>1
  <2>4. b.served \in BOOLEAN /\ ~b.served
    BY <2>1, Zenon
  <2> QED
    BY <2>1, <2>2, <2>3, <2>4 DEF Position
<1>3. ASSUME NEW e, Whole(e) PROVE Seen(b, e) <=> Seen(a, e) \/ AtHand(a, e)
  <2>1. /\ b.section = a.section /\ b.idx = a.idx + 1 /\ b.cursor = 1 /\ b.served = FALSE /\ b.query_cursor = 1
        /\ e.to \in Nat /\ e.to # 0 /\ e.idx \in Nat /\ a.idx \in Nat
    BY <1>1, <1>3 DEF Position, Whole
  <2>2. Seen(b, e) <=> e.section \in Past[a.section] \/ (e.section = a.section /\ e.idx < a.idx + 1)
    <3>1. ~b.served /\ ~(e.to < b.cursor) /\ ~(e.to < b.query_cursor)
      BY <2>1
    <3> QED
      BY <2>1, <3>1 DEF Seen
  <2>3. e.idx < a.idx + 1 <=> e.idx < a.idx \/ e.idx = a.idx
    BY <2>1
  <2>4. Seen(a, e) \/ AtHand(a, e) <=>
          e.section \in Past[a.section] \/ (e.section = a.section /\ (e.idx < a.idx \/ e.idx = a.idx))
    BY DEF Seen, AtHand
  <2> QED
    BY <2>2, <2>3, <2>4
<1> QED
  BY <1>2, <1>3

(* Entering a section leaves behind the ones before it and nothing more.   *)
LEMMA EnterPasses ==
  ASSUME NEW s \in DOMAIN Past, NEW b, b = Enter(s)
  PROVE  Position(b) /\ \A e : Whole(e) => (Seen(b, e) <=> e.section \in Past[s])
<1>1. b = [section |-> s, idx |-> 1, cursor |-> 1, served |-> FALSE, query_cursor |-> 1]
  BY DEF Enter
<1>2. Position(b)
  BY <1>1 DEF Position
<1>3. ASSUME NEW e, Whole(e) PROVE Seen(b, e) <=> e.section \in Past[s]
  BY <1>1, <1>3 DEF Seen, Whole
<1> QED
  BY <1>2, <1>3

(* The service pass over, what is at hand is behind but for the queries.   *)
LEMMA ServedPasses ==
  ASSUME NEW a, Position(a), ~a.served, a.section \in {"answers", "additional"},
         NEW b, b = [a EXCEPT !.served = TRUE]
  PROVE  /\ Position(b)
         /\ \A e : Whole(e) => (Seen(b, e) <=> Seen(a, e) \/ (AtHand(a, e) /\ e.what # "Answer"))
<1>1. /\ b = [section |-> a.section, idx |-> a.idx, cursor |-> a.cursor, served |-> TRUE, query_cursor |-> 1]
      /\ a.idx \in Nat \ {0} /\ a.cursor \in Nat \ {0} /\ a.section \in DOMAIN Past
  BY DEF Position
<1>2. Position(b)
  BY <1>1 DEF Position
<1>3. ASSUME NEW e, Whole(e) PROVE Seen(b, e) <=> Seen(a, e) \/ (AtHand(a, e) /\ e.what # "Answer")
  BY <1>1, <1>3 DEF Seen, Whole, AtHand
<1> QED
  BY <1>2, <1>3

(* The cursors leave behind the services, or the queries, up to them.      *)
LEMMA CursorPasses ==
  ASSUME NEW a, Position(a), ~a.served, NEW n \in Nat, a.cursor <= n,
         NEW b, b = [a EXCEPT !.cursor = n + 1]
  PROVE  /\ Position(b)
         /\ \A e : Whole(e) =>
              (Seen(b, e) <=> Seen(a, e) \/ (AtHand(a, e) /\ e.what # "Answer" /\ e.to <= n))
<1>1. /\ b = [section |-> a.section, idx |-> a.idx, cursor |-> n + 1, served |-> FALSE,
              query_cursor |-> a.query_cursor]
      /\ a.idx \in Nat \ {0} /\ a.cursor \in Nat \ {0} /\ a.section \in DOMAIN Past
      /\ a.query_cursor = 1 /\ a.section = "proposals" => a.idx = 1
  BY DEF Position
<1>2. Position(b)
  BY <1>1 DEF Position
<1>3. ASSUME NEW e, Whole(e)
      PROVE  Seen(b, e) <=> Seen(a, e) \/ (AtHand(a, e) /\ e.what # "Answer" /\ e.to <= n)
  <2>1. e.to \in Nat /\ (e.to < n + 1 <=> e.to <= n) /\ (e.to < a.cursor => e.to <= n)
    BY <1>1, <1>3 DEF Whole
  <2> QED
    BY <1>1, <2>1 DEF Seen, AtHand
<1> QED
  BY <1>2, <1>3

(* The query pass passes the answers its cursor passes.                    *)
LEMMA QueryCursorPasses ==
  ASSUME NEW a, Position(a), a.served, NEW n \in Nat, a.query_cursor <= n,
         NEW b, b = [a EXCEPT !.query_cursor = n + 1]
  PROVE  /\ Position(b)
         /\ \A e : Whole(e) =>
              (Seen(b, e) <=> Seen(a, e) \/ (AtHand(a, e) /\ e.what = "Answer" /\ e.to <= n))
<1>1. /\ b = [section |-> a.section, idx |-> a.idx, cursor |-> a.cursor, served |-> TRUE,
              query_cursor |-> n + 1]
      /\ a.idx \in Nat \ {0} /\ a.cursor \in Nat \ {0} /\ a.section \in {"answers", "additional"}
      /\ a.query_cursor \in Nat \ {0} /\ a.section \in DOMAIN Past
  BY DEF Position
<1>2. Position(b)
  <2>1. /\ b.section = a.section /\ b.idx = a.idx /\ b.cursor = a.cursor /\ b.served = TRUE
        /\ b.query_cursor = n + 1
    BY <1>1
  <2>2. b.served \in BOOLEAN /\ b.served
    BY <2>1, Zenon
  <2>4. b.query_cursor \in Nat \ {0}
    BY <2>1
  <2>5. b = [section |-> b.section, idx |-> b.idx, cursor |-> b.cursor, served |-> b.served,
             query_cursor |-> b.query_cursor]
    BY <1>1, <2>1
  <2>3. a.section # "proposals"
    BY <1>1
  <2> QED
    BY <1>1, <2>1, <2>2, <2>3, <2>4, <2>5 DEF Position
<1>3. ASSUME NEW e, Whole(e)
      PROVE  Seen(b, e) <=> Seen(a, e) \/ (AtHand(a, e) /\ e.what = "Answer" /\ e.to <= n)
  <2>1. e.to \in Nat /\ (e.to < n + 1 <=> e.to <= n) /\ (e.to < a.query_cursor => e.to <= n)
    BY <1>1, <1>3 DEF Whole
  <2>2. a.served = TRUE
    BY DEF Position
  <2> QED
    BY <1>1, <2>1, <2>2 DEF Seen, AtHand
<1> QED
  BY <1>2, <1>3

(* What the invariant says of a walk under way.                            *)
Holding == ~all_denied(admitted) /\ Position(at) /\ Handled /\ Remembers /\ RoutedSoFar

(* Every event is so numbered.                                             *)
LEMMA WholeEvents == Handled => \A e \in Events : Whole(e)
  BY EventShape DEF Whole

(* A step of the walk holds the invariant if these three parts hold.       *)
LEMMA StillHolding ==
  ASSUME Holding, Undisturbed, Position(at'), Remembers', RoutedSoFar'
  PROVE  Holding'
<1>1. Handled' /\ ~all_denied(admitted)'
  BY SameMessage DEF Holding
<1>2. Position(at)'
  BY DEF Position
<1> QED
  BY <1>1, <1>2 DEF Holding

(* An entry with nothing left to tell may be left.                         *)
LEMMA NextKeeps ==
  ASSUME Holding, Undisturbed, NextEntry, UNCHANGED routed, Remembers', at.section # "proposals",
         \A e \in Events : Concerns(e) /\ AtHand(at, e) => Seen(at, e)
  PROVE  Holding'
<1>1. /\ Position(at')
      /\ \A e \in Events : Seen(at', e) <=> Seen(at, e) \/ AtHand(at, e)
  <2>1. Position(at) /\ \A e \in Events : Whole(e)
    BY WholeEvents DEF Holding
  <2>2. at' = [Enter(at.section) EXCEPT !.idx = at.idx + 1]
    BY DEF NextEntry
  <2> QED
    BY <2>1, <2>2, NextPasses
<1>2. RoutedSoFar'
  <2>1. RoutedSoFar /\ \A e \in Events : Concerns(e) => (Seen(at', e) <=> Seen(at, e))
    BY <1>1 DEF Holding
  <2> QED
    BY <2>1, Passed
<1> QED
  BY <1>1, <1>2, StillHolding

(* A section may be left for one that stands behind exactly what is done.  *)
LEMMA LeaveKeeps ==
  ASSUME Holding, Undisturbed, NEW s \in DOMAIN Past, Leave(s),
         \A e \in Events : Concerns(e) => (Seen(at, e) <=> e.section \in Past[s])
  PROVE  Holding'
<1>1. Position(at') /\ \A e \in Events : Seen(at', e) <=> e.section \in Past[s]
  <2>1. at' = Enter(s) /\ \A e \in Events : Whole(e)
    BY WholeEvents DEF Holding, Leave
  <2> QED
    BY <2>1, EnterPasses
<1>2. RoutedSoFar'
  <2>1. RoutedSoFar /\ routed' = routed /\ \A e \in Events : Concerns(e) => (Seen(at', e) <=> Seen(at, e))
    BY <1>1 DEF Holding, Leave
  <2> QED
    BY <2>1, Passed
<1>3. Remembers'
  <2>1. msg' = msg /\ screen' = screen /\ Remembers
    BY SameMessage DEF Holding, Leave
  <2> QED
    BY <2>1 DEF Remembers
<1> QED
  BY <1>1, <1>2, <1>3, StillHolding

(* `hears` is what the services are told of the entry at hand.             *)
Hears(hears) ==
  /\ DOMAIN hears \subseteq DOMAIN table.services
  /\ \A k \in DOMAIN hears : hears[k] \in Kinds \ {"Answer"}
  /\ \A e \in Events :
       AtHand(at, e) /\ e.what # "Answer" => (Concerns(e) <=> e.to \in DOMAIN hears /\ e.what = hears[e.to])

(* The walk stands on something.                                           *)
Standing ==
  \/ at.section \in DOMAIN Before /\ at.idx \in DOMAIN msg[at.section]
  \/ at.section = "proposals" /\ at.idx = 1

(* The slots of a table are numbered from 1.                               *)
LEMMA SlotsAreNat ==
  ASSUME Handled, NEW K, K \subseteq DOMAIN table.services \/ K \subseteq DOMAIN table.queries
  PROVE  K \subseteq Nat \ {0}
<1>1. ASequence(table.services) /\ ASequence(table.queries)
  BY RoutingAssumption DEF Handled
<1>2. PICK s, q : s = table.services /\ q = table.queries /\ s \in Seq(ToSet(s)) /\ q \in Seq(ToSet(q))
  BY <1>1 DEF ASequence
<1> QED
  BY <1>2

(* Telling the first slot not yet told keeps the invariant.                *)
LEMMA DispatchKeeps ==
  ASSUME Holding, Undisturbed, ~at.served, Standing, Remembers', NEW hears, Hears(hears),
         Unserved(DOMAIN hears, at.cursor) # {},
         dispatch(Min(Unserved(DOMAIN hears, at.cursor)), hears[Min(Unserved(DOMAIN hears, at.cursor))])
  PROVE  Holding'
<1>1. PICK n : n = Min(Unserved(DOMAIN hears, at.cursor))
  OBVIOUS
<1>2. n \in Unserved(DOMAIN hears, at.cursor) /\ \A k \in Unserved(DOMAIN hears, at.cursor) : n <= k
  <2>1. DOMAIN hears \subseteq Nat \ {0}
    BY SlotsAreNat DEF Hears, Holding
  <2>2. Unserved(DOMAIN hears, at.cursor) \in SUBSET Nat
    BY <2>1 DEF Unserved
  <2> QED
    BY <1>1, <2>2, MinIsLeast
<1>3. n \in DOMAIN hears /\ n \in Nat /\ n \in DOMAIN table.services /\ at.cursor <= n /\ at.cursor \in Nat
  <2>1. n \in DOMAIN hears /\ n >= at.cursor /\ at.cursor \in Nat
    BY <1>2 DEF Unserved, Holding, Position
  <2>2. n \in Nat
    BY <2>1, SlotsAreNat DEF Hears, Holding
  <2> QED
    BY <2>1, <2>2 DEF Hears
<1>4. PICK f : f = [to |-> n, what |-> hears[n], section |-> at.section, idx |-> at.idx]
  OBVIOUS
<1>5. f \in Events /\ AtHand(at, f) /\ f.what # "Answer" /\ f.to = n
  <2>1. hears[n] \in Kinds /\ hears[n] # "Answer"
    BY <1>3 DEF Hears
  <2>2. f \in Events
    BY <1>3, <1>4, <2>1, AnEvent DEF Standing
  <2> QED
    BY <1>4, <2>1, <2>2 DEF AtHand
<1>6. Concerns(f)
  BY <1>3, <1>4, <1>5 DEF Hears
<1>7. ~Seen(at, f)
  <2>1. at.section \notin Past[at.section] /\ at.idx \in Nat
    BY DEF Holding, Position, Past
  <2> QED
    BY <1>3, <1>4, <1>5, <2>1 DEF Seen
<1>8. /\ Position(at')
      /\ \A e \in Events : Seen(at', e) <=> Seen(at, e) \/ (AtHand(at, e) /\ e.what # "Answer" /\ e.to <= n)
  <2>1. Position(at) /\ \A e \in Events : Whole(e)
    BY WholeEvents DEF Holding
  <2>2. at' = [at EXCEPT !.cursor = n + 1]
    BY <1>1 DEF dispatch
  <2> QED
    BY <1>3, <2>1, <2>2, CursorPasses
<1>9. \A e \in Events : Concerns(e) => (Seen(at', e) <=> Seen(at, e) \/ e = f)
  <2>1. SUFFICES ASSUME NEW e \in Events, Concerns(e) PROVE Seen(at', e) <=> Seen(at, e) \/ e = f
    OBVIOUS
  <2>2. CASE e = f
    BY <1>5, <1>3, <1>8, <2>2
  <2>3. CASE e # f /\ AtHand(at, e) /\ e.what # "Answer" /\ e.to <= n
    <3>1. e.to \in DOMAIN hears /\ e.what = hears[e.to] /\ e.to \in Nat
      <4>1. e.to \in DOMAIN hears /\ e.what = hears[e.to]
        BY <2>1, <2>3 DEF Hears
      <4>2. Whole(e)
        BY <2>1, WholeEvents DEF Holding
      <4> QED
        BY <4>1, <4>2 DEF Whole
    <3>2. e.to # n
      <4>1. e = [to |-> e.to, what |-> e.what, section |-> e.section, idx |-> e.idx]
        BY <2>1, EventShape DEF Holding
      <4> QED
        BY <1>4, <2>3, <3>1, <4>1 DEF AtHand
    <3>3. e.to < at.cursor
      <4>1. e.to \notin Unserved(DOMAIN hears, at.cursor)
        BY <1>2, <1>3, <2>3, <3>1, <3>2
      <4> QED
        BY <1>3, <3>1, <4>1 DEF Unserved
    <3>4. Seen(at, e)
      BY <2>3, <3>3 DEF Seen, AtHand
    <3> QED
      BY <1>8, <2>1, <3>4
  <2>4. CASE e # f /\ ~(AtHand(at, e) /\ e.what # "Answer" /\ e.to <= n)
    BY <1>8, <2>1, <2>4
  <2> QED
    BY <2>2, <2>3, <2>4
<1>10. RoutedSoFar'
  <2>1. RoutedSoFar /\ routed' = Append(routed, f)
    BY <1>1, <1>4 DEF Holding, dispatch
  <2> QED
    BY <1>5, <1>6, <1>7, <1>9, <2>1, Appended
<1> QED
  BY <1>8, <1>10, StillHolding

(* Once no service is left to tell, every one concerned has been told.     *)
LEMMA AllTold ==
  ASSUME Holding, NEW hears, Hears(hears), Unserved(DOMAIN hears, at.cursor) = {},
         NEW e \in Events, Concerns(e), AtHand(at, e), e.what # "Answer"
  PROVE  Seen(at, e) /\ e.to < at.cursor
<1>1. e.to \in DOMAIN hears
  BY DEF Hears
<1>2. Whole(e)
  BY WholeEvents DEF Holding
<1>3. e.to < at.cursor
  BY <1>1, <1>2 DEF Unserved, Whole, Holding, Position
<1> QED
  BY <1>3 DEF Seen, AtHand

-----------------------------------------------------------------------------
(* Who hears of an entry.                                                  *)

(* The answer remembered for a record is the one the record would give.    *)
LEMMA MemoryIsRight ==
  ASSUME Remembers, at.section \in DOMAIN Before, Entry(at.section)
  PROVE  relinquished_screens(entry) = entry.relinquished
  BY DEF Remembers, Entry, relinquished_screens, Slot, entry, Here

(* Screening a record leaves the memory right.                             *)
LEMMA MemoryKept ==
  ASSUME Remembers, Undisturbed, at.section \in DOMAIN Before, Entry(at.section),
         Screened(entry) \/ screen' = screen
  PROVE  Remembers'
<1>1. msg' = msg
  BY SameMessage
<1>2. CASE screen' = screen
  BY <1>1, <1>2 DEF Remembers
<1>3. CASE screen' = [slot |-> Slot, relinquished |-> relinquished_screens(entry)]
  <2>1. relinquished_screens(entry) = entry.relinquished
    BY MemoryIsRight
  <2>2. ASSUME NEW s \in DOMAIN Before, NEW i \in DOMAIN Read(msg, s), screen'.slot = <<s, i>>
        PROVE  screen'.relinquished = Read(msg, s)[i].relinquished
    <3>1. s = at.section /\ i = at.idx
      BY <1>3, <2>2 DEF Slot
    <3> QED
      BY <1>3, <2>1, <3>1 DEF entry, Here
  <2> QED
    BY <1>1, <2>2 DEF Remembers
<1> QED
  BY <1>2, <1>3 DEF Screened

(* A readable entry is something to stand on,                              *)
LEMMA StandsOnEntry ==
  ASSUME Holding, at.section \in DOMAIN Before, Entry(at.section)
  PROVE  Standing /\ at.idx \in DOMAIN Here /\ entry # Junk
<1>1. Legible(msg)
  BY RoutingAssumption DEF Holding, Handled, msg, Legible
<1>2. at.idx \in DOMAIN Read(msg, at.section)
  BY DEF Entry, Here
<1>3. at.idx \in DOMAIN msg[at.section]
  BY <1>1, <1>2, ReadYields
<1> QED
  BY <1>3 DEF Standing, Entry

(* and it is the record of every event that names it.                      *)
LEMMA AtHandIsRecord ==
  ASSUME at.section \in DOMAIN Before, Entry(at.section), NEW e, AtHand(at, e)
  PROVE  /\ Record(e) = entry /\ Readable(e.section, e.idx)
         /\ IsRecord(e) <=> at.section \in {"answers", "authority", "additional"} /\ entry.ttl # 0
<1>1. Record(e) = entry
  BY DEF Record, entry, Here, AtHand
<1>2. Readable(e.section, e.idx)
  BY DEF Entry, Readable, Here, entry, AtHand
<1> QED
  BY <1>1, <1>2 DEF IsRecord, AtHand

(* A question is told to those whose question it is.                       *)
LEMMA HearsQuestion ==
  ASSUME Holding, Entry("questions"), ~AnswersNothing
  PROVE  Hears([k \in questioned(entry) |-> "Question"])
<1>1. at.section = "questions"
  BY DEF Entry
<1>2. questioned(entry) \subseteq DOMAIN table.services
  BY DEF questioned, Services
<1>3. ASSUME NEW e \in Events, AtHand(at, e), e.what # "Answer"
      PROVE  Concerns(e) <=> e.to \in questioned(entry) /\ e.what = "Question"
  <2>1. /\ Record(e) = entry /\ Readable(e.section, e.idx) /\ ~IsRecord(e) /\ e.section = "questions"
        /\ ~Contests(e)
    BY <1>1, <1>3, AtHandIsRecord DEF AtHand, Before, Contests
  <2>2. e.what \in Kinds
    BY <1>3, EventShape DEF Holding
  <2> QED
    BY <1>3, <2>1, <2>2 DEF Concerns, Kinds
<1> QED
  BY <1>2, <1>3 DEF Hears, Kinds

(* A proposal is told to those it proposes for.                            *)
LEMMA HearsProposal ==
  ASSUME Holding, at.section = "proposals", Proposes
  PROVE  Hears([k \in proposed_to |-> "ProbeProposal"])
<1>1. at.idx = 1
  BY DEF Holding, Position
<1>2. proposed_to \subseteq DOMAIN table.services
  BY DEF proposed_to, Services
<1>3. ASSUME NEW e \in Events, AtHand(at, e), e.what # "Answer"
      PROVE  Concerns(e) <=> e.to \in proposed_to /\ e.what = "ProbeProposal"
  <2>1. e.section = "proposals" /\ e.idx = 1 /\ ~IsRecord(e) /\ ~Contests(e)
    BY <1>1, <1>3 DEF AtHand, IsRecord, Contests
  <2>2. e.what \in Kinds
    BY <1>3, EventShape DEF Holding
  <2> QED
    BY <1>3, <2>1, <2>2 DEF Concerns, Kinds
<1> QED
  BY <1>2, <1>3 DEF Hears, Kinds

(* A record of a section the services are told of.                         *)
TellsServices ==
  /\ at.section \in {"answers", "authority", "additional"} /\ Entry(at.section) /\ entry.ttl # 0
  /\ at.section = "additional" => msg.is_response
  /\ at.section = "authority" => AuthorityHeard

(* The service pass tells each service what it is owed of a record.        *)
LEMMA HearsRecord ==
  ASSUME Holding, TellsServices
  PROVE  Hears(ForServices(entry, entry.relinquished))
<1>1. PICK r : r = entry
  OBVIOUS
<1>2. PICK hears : hears = ForServices(r, r.relinquished)
  OBVIOUS
<1>3. at.section \in DOMAIN Before /\ at.section \in {"answers", "authority", "additional"} /\ r.ttl # 0
      /\ Entry(at.section) /\ (at.section = "additional" => msg.is_response)
  BY <1>1 DEF TellsServices, Before
<1>4. ASSUME NEW e \in Events, AtHand(at, e), e.what # "Answer"
      PROVE  /\ Record(e) = r /\ IsRecord(e) /\ e.section = at.section
             /\ e.what \in Kinds \ {"Answer"}
  <2>1. Record(e) = r /\ IsRecord(e)
    BY <1>1, <1>3, <1>4, AtHandIsRecord
  <2>2. e.what \in Kinds
    BY <1>4, EventShape DEF Holding
  <2> QED
    BY <1>4, <2>1, <2>2 DEF AtHand
<1>5. CASE (at.section # "authority" /\ msg.is_response /\ admitted.adjudication)
           \/ (at.section = "authority" /\ msg.is_response)
  <2>1. hears = next_service_conflict(r, r.relinquished) /\ admitted.adjudication /\ FromMdnsPort
    BY <1>2, <1>5 DEF ForServices, TellsServices, AuthorityHeard, Holding, Handled
  <2>2. CASE r.class # "IN"
    <3>1. DOMAIN hears = {}
      BY <2>1, <2>2 DEF next_service_conflict
    <3>2. ASSUME NEW e \in Events, AtHand(at, e), e.what # "Answer" PROVE ~Concerns(e)
      <4>1. ~Contests(e)
        BY <1>4, <2>2, <3>2 DEF Contests
      <4> QED
        BY <1>3, <1>4, <1>5, <3>2, <4>1 DEF Concerns, Kinds
    <3> QED
      BY <1>1, <1>2, <3>1, <3>2 DEF Hears
  <2>3. CASE r.class = "IN"
    <3>1. PICK host, instance : host = {k \in Services : HostClash(k, r)}
                                /\ instance = {k \in Services : names_match(service(k).name, r.name)}
      OBVIOUS
    <3>2. hears = [k \in (IF r.relinquished THEN instance ELSE host \cup instance) |->
                     IF k \notin host THEN "Instance"
                     ELSE IF r.relinquished THEN "InstanceAndHost" ELSE "HostConflict"]
      BY <2>1, <2>3, <3>1 DEF next_service_conflict
    <3>3. /\ DOMAIN hears \subseteq DOMAIN table.services
          /\ \A k \in DOMAIN hears : hears[k] \in Kinds \ {"Answer"}
      BY <3>1, <3>2 DEF Services, Kinds
    <3>4. ASSUME NEW e \in Events, AtHand(at, e), e.what # "Answer"
          PROVE  Concerns(e) <=> e.to \in DOMAIN hears /\ e.what = hears[e.to]
      <4>1. Contests(e) <=> e.to \in Services
        BY <1>4, <1>5, <2>1, <2>3, <3>4 DEF Contests
      <4>2. e.what \in {"HostConflict", "Instance", "InstanceAndHost"} \/ ~Concerns(e)
        BY <1>3, <1>4, <1>5, <3>4 DEF Concerns, Kinds
      <4>3. \A k \in DOMAIN hears : hears[k] \in {"HostConflict", "Instance", "InstanceAndHost"}
        BY <3>2
      <4>4. /\ e.to \in host <=> e.to \in Services /\ HostClash(e.to, r)
            /\ e.to \in instance <=> e.to \in Services /\ names_match(service(e.to).name, r.name)
        BY <3>1
      <4>5. CASE e.what = "HostConflict"
        <5>1. Concerns(e) <=> e.to \in host /\ ~r.relinquished
          BY <1>4, <3>4, <4>1, <4>4, <4>5 DEF Concerns
        <5> QED
          BY <3>2, <4>5, <5>1
      <4>6. CASE e.what = "Instance"
        <5>1. Concerns(e) <=> e.to \in instance /\ e.to \notin host
          BY <1>4, <1>5, <3>4, <4>1, <4>4, <4>6 DEF Concerns
        <5> QED
          BY <3>2, <4>6, <5>1
      <4>7. CASE e.what = "InstanceAndHost"
        <5>1. Concerns(e) <=> e.to \in instance /\ e.to \in host /\ r.relinquished
          BY <1>4, <1>5, <3>4, <4>1, <4>4, <4>7 DEF Concerns
        <5> QED
          BY <3>2, <4>7, <5>1
      <4> QED
        BY <4>2, <4>3, <4>5, <4>6, <4>7
    <3> QED
      BY <1>1, <1>2, <3>3, <3>4 DEF Hears
  <2> QED
    BY <2>2, <2>3
<1>6. CASE at.section # "authority" /\ msg.is_response /\ ~admitted.adjudication
  <2>1. DOMAIN hears = {}
    BY <1>2, <1>6 DEF ForServices
  <2>2. ASSUME NEW e \in Events, AtHand(at, e), e.what # "Answer" PROVE ~Concerns(e)
    BY <1>3, <1>4, <1>6, <2>2 DEF Concerns, Kinds, Contests
  <2> QED
    BY <1>1, <1>2, <2>1, <2>2 DEF Hears
<1>7. CASE at.section = "answers" /\ ~msg.is_response
  <2>1. hears = IF admitted.quieting THEN known_answer(r) ELSE [k \in {} |-> ""]
    BY <1>2, <1>7 DEF ForServices
  <2>2. /\ DOMAIN known_answer(r) \subseteq DOMAIN table.services
        /\ \A k \in DOMAIN known_answer(r) : known_answer(r)[k] = "KnownAnswer"
    BY DEF known_answer, Services
  <2>3. ASSUME NEW e \in Events, AtHand(at, e), e.what # "Answer"
        PROVE  Concerns(e) <=> /\ e.what = "KnownAnswer" /\ admitted.quieting
                               /\ e.to \in DOMAIN known_answer(r)
    <3>1. ~Contests(e)
      BY <1>4, <1>7, <2>3 DEF Contests
    <3> QED
      BY <1>3, <1>4, <1>7, <2>3, <3>1 DEF Concerns, Kinds
  <2>4. CASE admitted.quieting
    BY <1>1, <1>2, <2>1, <2>2, <2>3, <2>4 DEF Hears, Kinds
  <2>5. CASE ~admitted.quieting
    BY <1>1, <1>2, <2>1, <2>3, <2>5 DEF Hears, Kinds
  <2> QED
    BY <2>4, <2>5
<1>8. CASE at.section = "authority" /\ ~msg.is_response
  <2>1. hears = next_host_conflict(r, r.relinquished) /\ admitted.adjudication /\ FromMdnsPort
    BY <1>2, <1>8 DEF ForServices, TellsServices, AuthorityHeard
  <2>2. ASSUME NEW e \in Events, AtHand(at, e), e.what # "Answer"
        PROVE  Concerns(e) <=> /\ e.what = "HostConflict" /\ e.to \in Services /\ r.class = "IN"
                               /\ HostClash(e.to, r) /\ ~r.relinquished
    <3>1. Contests(e) <=> r.class = "IN" /\ e.to \in Services
      BY <1>4, <1>8, <2>1, <2>2 DEF Contests
    <3> QED
      BY <1>4, <1>8, <2>2, <3>1 DEF Concerns, Kinds
  <2>3. CASE r.class # "IN" \/ r.relinquished
    <3>1. DOMAIN hears = {}
      BY <2>1, <2>3 DEF next_host_conflict
    <3> QED
      BY <1>1, <1>2, <2>2, <2>3, <3>1 DEF Hears
  <2>4. CASE r.class = "IN" /\ ~r.relinquished
    <3>1. hears = [k \in {j \in Services : HostClash(j, r)} |-> "HostConflict"]
      BY <2>1, <2>4 DEF next_host_conflict
    <3>2. /\ DOMAIN hears \subseteq DOMAIN table.services
          /\ \A k \in DOMAIN hears : hears[k] = "HostConflict"
          /\ \A k : k \in DOMAIN hears <=> k \in Services /\ HostClash(k, r)
      BY <3>1 DEF Services
    <3> QED
      BY <1>1, <1>2, <2>2, <2>4, <3>2 DEF Hears, Kinds
  <2> QED
    BY <2>3, <2>4
<1> QED
  BY <1>3, <1>5, <1>6, <1>7, <1>8

-----------------------------------------------------------------------------
(* The two passes over a record.                                           *)

(* The answers fed to the queries are those of two sections of a response. *)
LEMMA AnswersFed ==
  ASSUME Handled, NEW e, e.what = "Answer", Concerns(e)
  PROVE  /\ msg.is_response /\ admitted.observation /\ e.section \in {"answers", "additional"}
         /\ e.to \in DOMAIN table.queries /\ e.to \in Asked(Record(e))
<1>1. <<e.to, e.section, e.idx>> \in fed /\ table.queries[e.to].state = "open"
  BY DEF Concerns
<1>2. msg.is_response /\ admitted.observation /\ fed = EagerAnswers(msg, table.queries)
  BY <1>1 DEF Handled
<1>3. PICK k \in DOMAIN table.queries, section \in {"answers", "additional"} : \E i \in DOMAIN Read(msg, section) :
        /\ <<e.to, e.section, e.idx>> = <<k, section, i>>
        /\ names_match(table.queries[k].name, Read(msg, section)[i].name)
        /\ qry_query_accepts(table.queries[k], Read(msg, section)[i])
  BY <1>1, <1>2 DEF EagerAnswers
<1>5. PICK i \in DOMAIN Read(msg, section) :
        /\ <<e.to, e.section, e.idx>> = <<k, section, i>>
        /\ names_match(table.queries[k].name, Read(msg, section)[i].name)
        /\ qry_query_accepts(table.queries[k], Read(msg, section)[i])
  BY <1>3
<1>4. e.to = k /\ e.section = section /\ e.idx = i
  BY <1>5
<1> QED
  BY <1>1, <1>2, <1>3, <1>5, <1>4 DEF Asked, Record

(* and what a query still open asked for was fed to it.                    *)
LEMMA FeedsTheAsked ==
  ASSUME Handled, msg.is_response, admitted.observation, at.section \in {"answers", "additional"},
         Entry(at.section), entry.ttl # 0, NEW e, AtHand(at, e), e.what = "Answer", e.to \in Asked(entry)
  PROVE  Concerns(e)
<1>1. Record(e) = entry /\ IsRecord(e)
  <2>1. at.section \in DOMAIN Before
    BY DEF Before
  <2> QED
    BY <2>1, AtHandIsRecord
<1>2. /\ e.to \in DOMAIN table.queries /\ table.queries[e.to].state = "open"
      /\ names_match(table.queries[e.to].name, entry.name) /\ qry_query_accepts(table.queries[e.to], entry)
  BY DEF Asked
<1>3. PICK k, section, i : k = e.to /\ section = e.section /\ i = e.idx
  OBVIOUS
<1>4. /\ section \in {"answers", "additional"} /\ i \in DOMAIN Read(msg, section)
      /\ Read(msg, section)[i] = entry /\ Read(msg, section)[i] # Junk
  BY <1>3 DEF AtHand, Entry, Here, entry
<1>5. <<k, section, i>> \in EagerAnswers(msg, table.queries)
  <2>1. PICK E : E = {<<k, section, x>> : x \in {j \in DOMAIN Read(msg, section) :
            LET r == Read(msg, section)[j]
            IN /\ r # Junk /\ Open(table.queries[k])
               /\ names_match(table.queries[k].name, r.name) /\ qry_query_accepts(table.queries[k], r)}}
    OBVIOUS
  <2>2. i \in {j \in DOMAIN Read(msg, section) :
            LET r == Read(msg, section)[j]
            IN /\ r # Junk /\ Open(table.queries[k])
               /\ names_match(table.queries[k].name, r.name) /\ qry_query_accepts(table.queries[k], r)}
    BY <1>2, <1>3, <1>4 DEF Open
  <2>3. <<k, section, i>> \in E
    BY <2>1, <2>2
  <2> QED
    BY <1>2, <1>3, <1>4, <2>1, <2>3 DEF EagerAnswers
<1>6. <<e.to, e.section, e.idx>> \in fed
  BY <1>3, <1>5 DEF Handled
<1> QED
  BY <1>1, <1>2, <1>6 DEF Concerns

(* The queries the pass has still to go to.                                *)
Owed(r) == IF msg.is_response /\ admitted.observation THEN Unserved(Asked(r), at.query_cursor) ELSE {}

(* A turn of the query pass keeps the invariant,                           *)
LEMMA QueryPassKeeps ==
  ASSUME Holding, Undisturbed, at.section \in {"answers", "additional"}, Entry(at.section), entry.ttl # 0,
         at.section = "additional" => msg.is_response, QueryPass(entry)
  PROVE  Holding'
<1>1. PICK r : r = entry
  OBVIOUS
<1>2. at.served /\ Position(at) /\ Handled /\ at.section \in DOMAIN Before /\ at.section # "proposals"
  BY DEF QueryPass, Holding, Before
<1>3. Remembers'
  BY <1>2, MemoryKept DEF QueryPass, Holding
<1>4. \A e \in Events : Concerns(e) /\ AtHand(at, e) /\ e.what = "Answer" =>
        msg.is_response /\ admitted.observation /\ e.to \in Asked(r)
  <2>1. TAKE e \in Events
  <2>2. SUFFICES ASSUME Concerns(e), AtHand(at, e), e.what = "Answer"
                 PROVE  msg.is_response /\ admitted.observation /\ e.to \in Asked(r)
    OBVIOUS
  <2>3. Record(e) = r
    BY <1>1, <1>2, <2>2, AtHandIsRecord
  <2> QED
    BY <1>2, <2>2, <2>3, AnswersFed
<1>5. CASE Owed(r) = {}
  <2>1. NextEntry /\ UNCHANGED routed
    BY <1>1, <1>5 DEF QueryPass, Owed
  <2>2. ASSUME NEW e \in Events, Concerns(e), AtHand(at, e) PROVE Seen(at, e)
    <3>1. CASE e.what # "Answer"
      BY <1>2, <2>2, <3>1 DEF Seen
    <3>2. CASE e.what = "Answer"
      <4>1. msg.is_response /\ admitted.observation /\ e.to \in Asked(r) /\ Whole(e)
        BY <1>2, <1>4, <2>2, <3>2, WholeEvents
      <4>2. e.to < at.query_cursor
        BY <1>2, <1>5, <4>1 DEF Owed, Unserved, Whole, Position
      <4> QED
        BY <1>2, <2>2, <3>2, <4>2 DEF Seen
    <3> QED
      BY <3>1, <3>2
  <2> QED
    BY <1>2, <1>3, <2>1, <2>2, NextKeeps
<1>6. CASE Owed(r) # {}
  <2>1. PICK n : n = Min(Owed(r))
    OBVIOUS
  <2>2. /\ msg.is_response /\ admitted.observation
        /\ n \in Asked(r) /\ n >= at.query_cursor /\ n \in Nat /\ n \in DOMAIN table.queries
        /\ \A k \in Asked(r) : k >= at.query_cursor => n <= k
    <3>1. Asked(r) \subseteq Nat \ {0} /\ Asked(r) \subseteq DOMAIN table.queries
      <4>1. Asked(r) \subseteq DOMAIN table.queries
        BY DEF Asked
      <4> QED
        BY <1>2, <4>1, SlotsAreNat
    <3>2. Owed(r) \in SUBSET Nat
      BY <3>1 DEF Owed, Unserved
    <3>3. n \in Owed(r) /\ \A k \in Owed(r) : n <= k
      BY <1>6, <2>1, <3>2, MinIsLeast
    <3> QED
      BY <1>6, <3>1, <3>3 DEF Owed, Unserved
  <2>3. PICK f : f = [to |-> n, what |-> "Answer", section |-> at.section, idx |-> at.idx]
    OBVIOUS
  <2>4. at' = [at EXCEPT !.query_cursor = n + 1] /\ routed' = Append(routed, f)
    BY <1>1, <1>6, <2>1, <2>3 DEF QueryPass, Owed
  <2>5. f \in Events /\ AtHand(at, f) /\ f.what = "Answer" /\ f.to = n
    <3>1. Standing
      BY <1>2, StandsOnEntry
    <3> QED
      BY <2>2, <2>3, <3>1, AnEvent DEF Standing, Kinds, AtHand
  <2>6. Concerns(f)
    BY <1>1, <1>2, <2>2, <2>5, FeedsTheAsked
  <2>7. ~Seen(at, f)
    <3>1. at.section \notin Past[at.section] /\ at.idx \in Nat /\ at.query_cursor \in Nat
      BY <1>2 DEF Position, Past
    <3> QED
      BY <2>2, <2>3, <2>5, <3>1 DEF Seen
  <2>8. /\ Position(at')
        /\ \A e \in Events : Seen(at', e) <=> Seen(at, e) \/ (AtHand(at, e) /\ e.what = "Answer" /\ e.to <= n)
    <3>1. \A e \in Events : Whole(e)
      BY <1>2, WholeEvents
    <3>2. at.query_cursor <= n
      BY <1>2, <2>2 DEF Position
    <3> QED
      BY <1>2, <2>2, <2>4, <3>1, <3>2, QueryCursorPasses
  <2>9. \A e \in Events : Concerns(e) => (Seen(at', e) <=> Seen(at, e) \/ e = f)
    <3>1. SUFFICES ASSUME NEW e \in Events, Concerns(e) PROVE Seen(at', e) <=> Seen(at, e) \/ e = f
      OBVIOUS
    <3>2. CASE e = f
      BY <2>2, <2>5, <2>8, <3>2
    <3>3. CASE e # f /\ AtHand(at, e) /\ e.what = "Answer" /\ e.to <= n
      <4>1. e.to \in Asked(r) /\ Whole(e)
        BY <1>2, <1>4, <3>1, <3>3, WholeEvents
      <4>2. e.to # n
        <5>1. e = [to |-> e.to, what |-> e.what, section |-> e.section, idx |-> e.idx]
          BY <1>2, <3>1, EventShape
        <5> QED
          BY <2>3, <3>3, <5>1 DEF AtHand
      <4>3. e.to < at.query_cursor
        BY <1>2, <2>2, <3>3, <4>1, <4>2 DEF Whole, Position
      <4>4. Seen(at, e)
        BY <1>2, <3>3, <4>3 DEF Seen
      <4> QED
        BY <2>8, <3>1, <4>4
    <3>4. CASE e # f /\ ~(AtHand(at, e) /\ e.what = "Answer" /\ e.to <= n)
      BY <2>8, <3>1, <3>4
    <3> QED
      BY <3>2, <3>3, <3>4
  <2>10. RoutedSoFar'
    BY <2>4, <2>5, <2>6, <2>7, <2>9, Appended DEF Holding
  <2> QED
    BY <1>3, <2>8, <2>10, StillHolding
<1> QED
  BY <1>5, <1>6

(* and so does a turn of the service pass.                                 *)
LEMMA ServicePassKeeps ==
  ASSUME Holding, Undisturbed, at.section \in {"answers", "additional"}, Entry(at.section), entry.ttl # 0,
         at.section = "additional" => msg.is_response, ServicePass(entry)
  PROVE  Holding'
<1>1. PICK hears : hears = ForServices(entry, entry.relinquished)
  OBVIOUS
<1>2. Hears(hears)
  BY <1>1, HearsRecord DEF TellsServices
<1>3. at.section \in DOMAIN Before /\ Remembers /\ Position(at) /\ Handled
  BY DEF Holding, Before
<1>4. hears = ForServices(entry, relinquished_screens(entry))
  BY <1>1, <1>3, MemoryIsRight
<1>5. Remembers'
  BY <1>3, MemoryKept DEF ServicePass
<1>6. ~at.served
  BY DEF ServicePass
<1>7. CASE Unserved(DOMAIN hears, at.cursor) # {}
  <2>1. dispatch(Min(Unserved(DOMAIN hears, at.cursor)), hears[Min(Unserved(DOMAIN hears, at.cursor))])
    BY <1>4, <1>7 DEF ServicePass
  <2>2. Standing
    BY <1>3, StandsOnEntry
  <2> QED
    BY <1>2, <1>5, <1>6, <1>7, <2>1, <2>2, DispatchKeeps
<1>8. CASE Unserved(DOMAIN hears, at.cursor) = {}
  <2>1. at' = [at EXCEPT !.served = TRUE] /\ routed' = routed
    BY <1>4, <1>8 DEF ServicePass
  <2>2. /\ Position(at')
        /\ \A e \in Events : Seen(at', e) <=> Seen(at, e) \/ (AtHand(at, e) /\ e.what # "Answer")
    <3>1. \A e \in Events : Whole(e)
      BY <1>3, WholeEvents
    <3> QED
      BY <1>3, <1>6, <2>1, <3>1, ServedPasses
  <2>3. \A e \in Events : Concerns(e) => (Seen(at', e) <=> Seen(at, e))
    <3>1. TAKE e \in Events
    <3>2. Concerns(e) /\ AtHand(at, e) /\ e.what # "Answer" => Seen(at, e)
      BY <1>2, <1>8, <3>1, AllTold
    <3> QED
      BY <2>2, <3>1, <3>2
  <2>4. RoutedSoFar'
    BY <2>1, <2>3, Passed DEF Holding
  <2> QED
    BY <1>5, <2>2, <2>4, StillHolding
<1> QED
  BY <1>7, <1>8

-----------------------------------------------------------------------------
(* Every step of the walk.                                                 *)

(* Nothing is left to route in a section that has nothing more to read.    *)
LEMMA NoneBeyond ==
  ASSUME Holding, at.section \in DOMAIN Before, Unreadable,
         NEW e \in Events, e.section = at.section, Readable(e.section, e.idx)
  PROVE  Seen(at, e)
<1>1. Legible(msg)
  BY RoutingAssumption DEF Holding, Handled, msg, Legible
<1>2. PICK n : n = Len(Here)
  OBVIOUS
<1>3. /\ n \in Nat /\ DOMAIN Here = 1 .. n
      /\ \A i \in 1 .. n : Here[i] = Junk => i = n
  BY <1>1, <1>2, ReadYields DEF Here
<1>4. e.idx \in 1 .. n /\ Here[e.idx] # Junk
  BY <1>3 DEF Readable, Here
<1>5. at.idx \in Nat /\ at.idx # 0
  BY DEF Holding, Position
<1>6. CASE at.idx \in 1 .. n
  <2>1. Here[at.idx] = Junk
    BY <1>3, <1>6 DEF Unreadable, entry
  <2>2. at.idx = n /\ e.idx # at.idx
    BY <1>3, <1>4, <1>6, <2>1
  <2>3. e.idx < at.idx
    BY <1>3, <1>4, <2>2
  <2> QED
    BY <2>3 DEF Seen
<1>7. CASE at.idx \notin 1 .. n
  <2>1. e.idx < at.idx
    BY <1>3, <1>4, <1>5, <1>7
  <2> QED
    BY <2>1 DEF Seen
<1> QED
  BY <1>6, <1>7

(* What is concerned by the section the walk stands in has something to    *)
(* read there, but for the proposals.                                      *)
LEMMA ConcernsReads ==
  ASSUME Handled, NEW e \in Events, Concerns(e)
  PROVE  /\ e.section = "proposals" =>
              e.what = "ProbeProposal" /\ e.idx = 1 /\ Proposes /\ e.to \in proposed_to
         /\ e.section # "proposals" => Readable(e.section, e.idx)
         /\ e.section = "questions" => ~AnswersNothing
         /\ e.section = "authority" => AuthorityHeard
         /\ e.section = "additional" => msg.is_response
<1>1. e.what \in Kinds
  BY EventShape
<1>2. CASE e.what = "Question"
  BY <1>2 DEF Concerns
<1>3. CASE e.what = "KnownAnswer"
  BY <1>3 DEF Concerns, IsRecord
<1>4. CASE e.what = "ProbeProposal"
  BY <1>4 DEF Concerns
<1>5. CASE e.what \in {"HostConflict", "Instance", "InstanceAndHost"}
  <2>1. Contests(e)
    BY <1>5 DEF Concerns
  <2> QED
    BY <2>1, <1>5 DEF Contests, IsRecord, AuthorityHeard
<1>6. CASE e.what = "Answer"
  <2>1. msg.is_response /\ e.section \in {"answers", "additional"}
    BY <1>6, AnswersFed
  <2>2. IsRecord(e)
    BY <1>6 DEF Concerns
  <2> QED
    BY <2>1, <2>2 DEF IsRecord
<1> QED
  BY <1>1, <1>2, <1>3, <1>4, <1>5, <1>6 DEF Kinds

(* The walk leaves a section for the next when nothing of it is left.      *)
LEMMA LeavesNoneBehind ==
  ASSUME Holding, Undisturbed, NEW s \in DOMAIN Past, Past[s] = Past[at.section] \cup {at.section}, Leave(s),
         \A e \in Events : Concerns(e) /\ e.section = at.section => Seen(at, e)
  PROVE  Holding'
<1>1. \A e \in Events : Concerns(e) => (Seen(at, e) <=> e.section \in Past[s])
  <2>1. TAKE e \in Events
  <2> QED
    BY <2>1 DEF Seen, AtHand
<1> QED
  BY <1>1, LeaveKeeps

(* The steps of the Question Section keep the invariant;                   *)
LEMMA QuestionsKeep ==
  ASSUME Holding, Undisturbed, LeaveQuestions \/ RouteQuestion
  PROVE  Holding'
<1>1. Handled /\ at.section = "questions"
  BY DEF Holding, LeaveQuestions, RouteQuestion, Entry
<1>2. CASE LeaveQuestions
  <2>1. /\ "answers" \in DOMAIN Past /\ Past["answers"] = Past[at.section] \cup {at.section}
        /\ at.section \in DOMAIN Before /\ at.section # "proposals"
    BY <1>1 DEF Past, Before
  <2>2. ASSUME NEW e \in Events, Concerns(e), e.section = at.section PROVE Seen(at, e)
    <3>1. ~AnswersNothing /\ Readable(e.section, e.idx)
      BY <1>1, <2>2, ConcernsReads
    <3>2. Unreadable
      BY <1>2, <3>1 DEF LeaveQuestions
    <3> QED
      BY <2>1, <2>2, <3>1, <3>2, NoneBeyond
  <2> QED
    BY <1>2, <2>1, <2>2, LeavesNoneBehind DEF LeaveQuestions
<1>3. CASE RouteQuestion
  <2>1. PICK hears : hears = [k \in questioned(entry) |-> "Question"]
    OBVIOUS
  <2>2. Hears(hears) /\ DOMAIN hears = questioned(entry) /\ \A k \in DOMAIN hears : hears[k] = "Question"
    BY <1>3, <2>1, HearsQuestion DEF RouteQuestion
  <2>3. ~at.served /\ at.section \in DOMAIN Before /\ at.section # "proposals"
    BY <1>1 DEF Holding, Position, Before
  <2>4. Remembers' /\ Standing
    <3>1. Entry(at.section) /\ screen' = screen
      BY <1>1, <1>3 DEF RouteQuestion
    <3> QED
      BY <2>3, <3>1, MemoryKept, StandsOnEntry DEF Holding
  <2>5. CASE Unserved(DOMAIN hears, at.cursor) = {}
    <3>1. NextEntry /\ routed' = routed
      BY <1>3, <2>2, <2>5 DEF RouteQuestion
    <3>2. ASSUME NEW e \in Events, Concerns(e), AtHand(at, e) PROVE Seen(at, e)
      <4>1. e.what # "Answer"
        BY <1>1, <3>2, AnswersFed DEF AtHand
      <4> QED
        BY <2>2, <2>5, <3>2, <4>1, AllTold
    <3> QED
      BY <2>3, <2>4, <3>1, <3>2, NextKeeps
  <2>6. CASE Unserved(DOMAIN hears, at.cursor) # {}
    <3>1. PICK n : n = Min(Unserved(DOMAIN hears, at.cursor))
      OBVIOUS
    <3>2. n \in DOMAIN hears
      <4>1. Unserved(DOMAIN hears, at.cursor) \in SUBSET Nat
        <5>1. DOMAIN hears \subseteq Nat \ {0}
          BY <1>1, <2>2, SlotsAreNat DEF Hears
        <5> QED
          BY <5>1 DEF Unserved
      <4>2. n \in Unserved(DOMAIN hears, at.cursor)
        BY <2>6, <3>1, <4>1, MinIsLeast
      <4> QED
        BY <4>2 DEF Unserved
    <3>3. dispatch(n, "Question")
      BY <1>3, <2>2, <2>6, <3>1 DEF RouteQuestion
    <3>4. dispatch(n, hears[n])
      BY <2>2, <3>2, <3>3
    <3> QED
      BY <2>2, <2>3, <2>4, <2>6, <3>1, <3>4, DispatchKeeps
  <2> QED
    BY <2>5, <2>6
<1> QED
  BY <1>2, <1>3

(* so do those of the proposals,                                           *)
LEMMA ProposalsKeep ==
  ASSUME Holding, Undisturbed, LeaveProposals \/ RouteProposal
  PROVE  Holding'
<1>1. Handled /\ Position(at) /\ Remembers /\ at.section = "proposals" /\ at.idx = 1 /\ ~at.served
  BY DEF Holding, Position, LeaveProposals, RouteProposal
<1>2. CASE LeaveProposals
  <2>1. "authority" \in DOMAIN Past /\ Past["authority"] = Past[at.section] \cup {at.section}
    BY <1>1 DEF Past
  <2>2. ASSUME NEW e \in Events, Concerns(e), e.section = at.section PROVE Seen(at, e)
    <3>1. /\ e.what = "ProbeProposal" /\ e.idx = 1 /\ Proposes /\ e.to \in proposed_to
          /\ Whole(e)
      BY <1>1, <2>2, ConcernsReads, WholeEvents
    <3>2. e.to < at.cursor
      BY <1>1, <1>2, <3>1 DEF LeaveProposals, Unserved, Whole, Position
    <3> QED
      BY <1>1, <2>2, <3>1, <3>2 DEF Seen, AtHand
  <2> QED
    BY <1>2, <2>1, <2>2, LeavesNoneBehind DEF LeaveProposals
<1>3. CASE RouteProposal
  <2>1. PICK hears : hears = [k \in proposed_to |-> "ProbeProposal"]
    OBVIOUS
  <2>2. Hears(hears) /\ DOMAIN hears = proposed_to /\ \A k \in DOMAIN hears : hears[k] = "ProbeProposal"
    BY <1>3, <2>1, HearsProposal DEF RouteProposal
  <2>3. PICK n : n = Min(Unserved(DOMAIN hears, at.cursor))
    OBVIOUS
  <2>4. Unserved(DOMAIN hears, at.cursor) # {} /\ dispatch(n, "ProbeProposal") /\ screen' = screen
    BY <1>3, <2>2, <2>3 DEF RouteProposal
  <2>5. n \in DOMAIN hears
    <3>1. Unserved(DOMAIN hears, at.cursor) \in SUBSET Nat
      <4>1. DOMAIN hears \subseteq Nat \ {0}
        BY <1>1, <2>2, SlotsAreNat DEF Hears
      <4> QED
        BY <4>1 DEF Unserved
    <3>2. n \in Unserved(DOMAIN hears, at.cursor)
      BY <2>3, <2>4, <3>1, MinIsLeast
    <3> QED
      BY <3>2 DEF Unserved
  <2>6. dispatch(n, hears[n])
    BY <2>2, <2>4, <2>5
  <2>7. Remembers'
    <3>1. msg' = msg
      BY SameMessage
    <3> QED
      BY <1>1, <2>4, <3>1 DEF Remembers
  <2>8. Standing
    BY <1>1 DEF Standing
  <2> QED
    BY <1>1, <2>2, <2>3, <2>4, <2>6, <2>7, <2>8, DispatchKeeps
<1> QED
  BY <1>2, <1>3

(* those that pass over a goodbye,                                         *)
LEMMA GoodbyesKeep ==
  ASSUME Holding, Undisturbed, RouteGoodbye
  PROVE  Holding'
<1>1. /\ at.section \in {"answers", "additional"} /\ Entry(at.section) /\ entry.ttl = 0
      /\ NextEntry /\ routed' = routed /\ screen' = screen
  BY DEF RouteGoodbye
<1>2. at.section \in DOMAIN Before /\ at.section # "proposals" /\ at.section # "questions"
  BY <1>1 DEF Before
<1>3. Remembers'
  BY <1>1, <1>2, MemoryKept DEF Holding
<1>4. ASSUME NEW e \in Events, AtHand(at, e) PROVE ~Concerns(e)
  <2>1. ~IsRecord(e)
    BY <1>1, <1>2, <1>4, AtHandIsRecord
  <2>2. e.what \in Kinds
    BY <1>4, EventShape DEF Holding
  <2> QED
    BY <1>2, <1>4, <2>1, <2>2 DEF Concerns, Contests, Kinds, AtHand
<1> QED
  BY <1>1, <1>2, <1>3, <1>4, NextKeeps

(* those of the Answer Section,                                            *)
LEMMA AnswersKeep ==
  ASSUME Holding, Undisturbed, RouteAnswer \/ LeaveAnswers
  PROVE  Holding'
<1>1. CASE RouteAnswer
  <2>1. at.section \in {"answers", "additional"} /\ Entry(at.section) /\ entry.ttl # 0 /\ at.section = "answers"
    BY <1>1 DEF RouteAnswer, Entry
  <2> QED
    BY <1>1, <2>1, ServicePassKeeps, QueryPassKeeps DEF RouteAnswer
<1>2. CASE LeaveAnswers
  <2>1. /\ at.section = "answers" /\ Handled
        /\ "proposals" \in DOMAIN Past /\ Past["proposals"] = Past[at.section] \cup {at.section}
        /\ at.section \in DOMAIN Before
    BY <1>2 DEF Past, Before, Holding, LeaveAnswers
  <2>2. ASSUME NEW e \in Events, Concerns(e), e.section = at.section PROVE Seen(at, e)
    <3>1. Readable(e.section, e.idx) /\ Unreadable
      BY <1>2, <2>1, <2>2, ConcernsReads DEF LeaveAnswers
    <3> QED
      BY <2>1, <2>2, <3>1, NoneBeyond
  <2> QED
    BY <1>2, <2>1, <2>2, LeavesNoneBehind DEF LeaveAnswers
<1> QED
  BY <1>1, <1>2

(* of the Additional Section,                                              *)
LEMMA AdditionalKeeps ==
  ASSUME Holding, Undisturbed, RouteAdditional \/ LeaveAdditional
  PROVE  Holding'
<1>1. CASE RouteAdditional
  <2>1. /\ at.section \in {"answers", "additional"} /\ Entry(at.section) /\ entry.ttl # 0
        /\ at.section = "additional" /\ msg.is_response
    BY <1>1 DEF RouteAdditional, Entry
  <2> QED
    BY <1>1, <2>1, ServicePassKeeps, QueryPassKeeps DEF RouteAdditional
<1>2. CASE LeaveAdditional
  <2>1. /\ at.section = "additional" /\ Handled
        /\ "done" \in DOMAIN Past /\ Past["done"] = Past[at.section] \cup {at.section}
        /\ at.section \in DOMAIN Before
    BY <1>2 DEF Past, Before, Holding, LeaveAdditional
  <2>2. ASSUME NEW e \in Events, Concerns(e), e.section = at.section PROVE Seen(at, e)
    <3>1. Readable(e.section, e.idx) /\ msg.is_response
      BY <2>1, <2>2, ConcernsReads
    <3> QED
      BY <1>2, <2>1, <2>2, <3>1, NoneBeyond DEF LeaveAdditional
  <2> QED
    BY <1>2, <2>1, <2>2, LeavesNoneBehind DEF LeaveAdditional
<1> QED
  BY <1>1, <1>2

(* and of the Authority Section.                                           *)
LEMMA AuthorityKeeps ==
  ASSUME Holding, Undisturbed, RouteAuthority \/ LeaveAuthority
  PROVE  Holding'
<1>1. at.section = "authority" /\ Handled /\ Position(at) /\ Remembers /\ at.section \in DOMAIN Before
      /\ ~at.served /\ at.section # "proposals" /\ at.section # "questions"
  BY DEF RouteAuthority, LeaveAuthority, Entry, Holding, Position, Before
<1>2. CASE RouteAuthority /\ entry.ttl = 0
  <2>1. Entry(at.section) /\ NextEntry /\ routed' = routed /\ screen' = screen
    BY <1>1, <1>2 DEF RouteAuthority
  <2>2. Remembers'
    BY <1>1, <2>1, MemoryKept
  <2>3. ASSUME NEW e \in Events, AtHand(at, e) PROVE ~Concerns(e)
    <3>1. ~IsRecord(e)
      BY <1>1, <1>2, <2>1, <2>3, AtHandIsRecord
    <3>2. e.what \in Kinds
      BY <1>1, <2>3, EventShape
    <3> QED
      BY <1>1, <2>3, <3>1, <3>2 DEF Concerns, Contests, Kinds, AtHand
  <2> QED
    BY <1>1, <2>1, <2>2, <2>3, NextKeeps
<1>3. CASE RouteAuthority /\ entry.ttl # 0
  <2>1. Entry(at.section) /\ AuthorityHeard /\ Screened(entry)
    BY <1>1, <1>3 DEF RouteAuthority
  <2>2. PICK hears : hears = ForServices(entry, entry.relinquished)
    OBVIOUS
  <2>3. Hears(hears)
    BY <1>1, <1>3, <2>1, <2>2, HearsRecord DEF TellsServices
  <2>4. hears = ForServices(entry, relinquished_screens(entry))
    BY <1>1, <2>1, <2>2, MemoryIsRight
  <2>5. Remembers' /\ Standing
    BY <1>1, <2>1, MemoryKept, StandsOnEntry
  <2>6. CASE Unserved(DOMAIN hears, at.cursor) = {}
    <3>1. NextEntry /\ routed' = routed
      BY <1>3, <2>4, <2>6 DEF RouteAuthority
    <3>2. ASSUME NEW e \in Events, Concerns(e), AtHand(at, e) PROVE Seen(at, e)
      <4>1. e.what # "Answer"
        BY <1>1, <3>2, AnswersFed DEF AtHand
      <4> QED
        BY <2>3, <2>6, <3>2, <4>1, AllTold
    <3> QED
      BY <1>1, <2>5, <3>1, <3>2, NextKeeps
  <2>7. CASE Unserved(DOMAIN hears, at.cursor) # {}
    <3>1. dispatch(Min(Unserved(DOMAIN hears, at.cursor)), hears[Min(Unserved(DOMAIN hears, at.cursor))])
      BY <1>3, <2>4, <2>7 DEF RouteAuthority
    <3> QED
      BY <1>1, <2>3, <2>5, <2>7, <3>1, DispatchKeeps
  <2> QED
    BY <2>6, <2>7
<1>4. CASE LeaveAuthority
  <2>1. ASSUME NEW e \in Events, Concerns(e), e.section = at.section PROVE Seen(at, e)
    <3>1. Readable(e.section, e.idx) /\ AuthorityHeard
      BY <1>1, <2>1, ConcernsReads
    <3> QED
      BY <1>1, <1>4, <2>1, <3>1, NoneBeyond DEF LeaveAuthority
  <2>2. CASE Leave("additional")
    <3>1. "additional" \in DOMAIN Past /\ Past["additional"] = Past[at.section] \cup {at.section}
      BY <1>1 DEF Past
    <3> QED
      BY <2>1, <2>2, <3>1, LeavesNoneBehind
  <2>3. CASE AuthorityHeard /\ at.idx \in DOMAIN Here /\ Leave("done")
    <3>1. entry = Junk
      BY <1>4, <2>3 DEF LeaveAuthority, Unreadable
    <3>2. Read(msg, "additional") = <<>>
      <4>1. Legible(msg)
        BY <1>1, RoutingAssumption DEF Handled, msg, Legible
      <4>2. /\ at.idx \in DOMAIN Read(msg, at.section) /\ Read(msg, at.section)[at.idx] = Junk
            /\ "additional" \in DOMAIN Before /\ at.section \in Before["additional"]
        BY <1>1, <2>3, <3>1 DEF Here, entry, Before
      <4> QED
        BY <1>1, <4>1, <4>2, NothingReadPast
    <3>3. ASSUME NEW e \in Events, Concerns(e) PROVE Seen(at, e) /\ e.section \in Past["done"]
      <4>1. e.section \in {"questions", "answers", "proposals", "authority", "additional"}
        BY <1>1, <3>3, EventShape DEF Before
      <4>2. e.section # "additional"
        <5>1. e.section # "proposals" => Readable(e.section, e.idx)
          BY <1>1, <3>3, ConcernsReads
        <5> QED
          BY <3>2, <5>1 DEF Readable
      <4>3. e.section \in Past["done"]
        BY <4>1 DEF Past
      <4>4. CASE e.section = "authority"
        BY <1>1, <2>1, <3>3, <4>3, <4>4
      <4>5. CASE e.section \in Past[at.section]
        BY <4>3, <4>5 DEF Seen
      <4> QED
        BY <1>1, <4>1, <4>2, <4>4, <4>5 DEF Past
    <3>4. "done" \in DOMAIN Past
      BY DEF Past
    <3> QED
      BY <2>3, <3>3, <3>4, LeaveKeeps
  <2> QED
    BY <1>4, <2>2, <2>3 DEF LeaveAuthority
<1> QED
  BY <1>2, <1>3, <1>4

(* A datagram just handled satisfies the invariant.                        *)
LEMMA HandleHolds ==
  ASSUME NEW t \in Tables, NEW p \in Packets, handle(t, p)
  PROVE  RoutingInv'
<1>1. PICK may : may = for_datagram(p.provenance,
                          t.trust_advertised_src_as_self /\ src_matches_advertised(t.services, p.src),
                          t.answer_questions,
                          p.message.is_response /\ p.src.port # MDNS_PORT)
  OBVIOUS
<1>2. table' = t /\ packet' = p /\ routed' = <<>> /\ screen' = [slot |-> <<>>, relinquished |-> FALSE]
  BY DEF handle
<1>3. CASE ~p.message.plain
  <2>1. at' = Enter("done") /\ admitted' = Nothing
    BY <1>3 DEF handle
  <2> QED
    BY <2>1 DEF RoutingInv, Enter, all_denied
<1>4. CASE p.message.plain /\ all_denied(may)
  <2>1. at' = Enter("done") /\ admitted' = may
    BY <1>1, <1>4 DEF handle
  <2> QED
    BY <1>4, <2>1 DEF RoutingInv, Enter, all_denied
<1>5. CASE p.message.plain /\ ~all_denied(may)
  <2>1. /\ admitted' = may /\ at' = Enter("questions")
        /\ fed' = IF may.observation /\ p.message.is_response THEN EagerAnswers(p.message, t.queries) ELSE {}
    BY <1>1, <1>5 DEF handle
  <2>2. "questions" \in DOMAIN Past
    BY DEF Past
  <2>3. Position(at') /\ \A e : Whole(e) => (Seen(at', e) <=> e.section \in Past["questions"])
    BY <2>1, <2>2, EnterPasses
  <2>4. p.message.is_response => p.src.port = MDNS_PORT
    BY <1>1, <1>5 DEF for_datagram, all_denied
  <2>5. Handled'
    BY <1>2, <2>1, <2>4 DEF Handled, msg, FromMdnsPort
  <2>6. Remembers'
    BY <1>2 DEF Remembers
  <2>7. \A e \in Events' : Whole(e)
    <3>1. (\A e \in Events : Whole(e))'
      BY <2>5, WholeEvents, PTL
    <3> QED
      BY <3>1 DEF Whole
  <2>8. RoutedSoFar'
    <3>1. Past["questions"] = {}
      BY DEF Past
    <3>2. \A e \in Events' : ~Seen(at', e)
      BY <2>3, <2>7, <3>1
    <3>3. \A e : Seen(at, e)' <=> Seen(at', e)
      BY DEF Seen, AtHand
    <3>4. {e \in Events' : Concerns(e)' /\ Seen(at, e)'} = {}
      BY <3>2, <3>3
    <3>5. PICK E, r : E = Events' /\ r = routed'
      OBVIOUS
    <3>6. r \in Seq(E) /\ Len(r) = 0 /\ ToSet(r) = {}
      BY <1>2, <3>5 DEF ToSet
    <3> QED
      BY <3>4, <3>5, <3>6 DEF RoutedSoFar
  <2>9. Position(at)'
    BY <2>3 DEF Position
  <2> QED
    BY <1>5, <2>1, <2>5, <2>6, <2>8, <2>9 DEF RoutingInv, all_denied
<1> QED
  BY <1>3, <1>4, <1>5

(* The invariant is inductive.                                             *)
LEMMA RoutingStays ==
  ASSUME RoutingInv, [RouteNext]_routeVars
  PROVE  RoutingInv'
<1>1. CASE UNCHANGED routeVars
  <2>1. Undisturbed /\ at' = at /\ screen' = screen /\ routed' = routed
    BY <1>1 DEF routeVars, Undisturbed
  <2>2. CASE Holding
    <3>1. Position(at') /\ Remembers'
      <4>1. msg' = msg
        BY <2>1, SameMessage
      <4> QED
        BY <2>1, <2>2, <4>1 DEF Holding, Remembers
    <3>2. RoutedSoFar'
      BY <2>1, <2>2, Passed DEF Holding
    <3> QED
      BY <2>1, <2>2, <3>1, <3>2, StillHolding DEF RoutingInv, Holding
  <2>3. CASE at.section = "idle" \/ (at.section = "done" /\ all_denied(admitted))
    BY <2>1, <2>3, SameMessage DEF RoutingInv, Undisturbed
  <2> QED
    BY <2>2, <2>3 DEF RoutingInv, Holding
<1>2. CASE HandleDatagram
  BY <1>2, HandleHolds DEF HandleDatagram
<1>3. CASE RouteStep
  <2>1. Undisturbed
    BY <1>3 DEF RouteStep, Undisturbed
  <2>2. at.section \in {"questions", "answers", "proposals", "authority", "additional"}
    BY <1>3 DEF RouteStep, LeaveQuestions, RouteQuestion, RouteGoodbye, RouteAnswer, LeaveAnswers, RouteProposal,
                LeaveProposals, RouteAuthority, LeaveAuthority, RouteAdditional, LeaveAdditional, Entry
  <2>3. Holding
    BY <2>2 DEF RoutingInv, Holding
  <2>4. Holding'
    BY <1>3, <2>1, <2>3, QuestionsKeep, GoodbyesKeep, AnswersKeep, ProposalsKeep, AuthorityKeeps, AdditionalKeeps
       DEF RouteStep
  <2> QED
    BY <2>4 DEF RoutingInv, Holding
<1> QED
  BY <1>1, <1>2, <1>3 DEF RouteNext

(* At the end of the walk it has been past everything.                     *)
LEMMA RoutesAll ==
  ASSUME RoutingInv
  PROVE  RoutesExactly
<1>1. SUFFICES ASSUME at.section = "done", ~all_denied(admitted)
               PROVE  Len(routed) = Cardinality(ToSet(routed)) /\ ToSet(routed) = {e \in Events : Concerns(e)}
  BY DEF RoutesExactly
<1>2. Handled /\ RoutedSoFar
  BY <1>1 DEF RoutingInv
<1>3. \A e \in Events : Seen(at, e)
  <2>1. TAKE e \in Events
  <2>2. e.section \in {"questions", "answers", "proposals", "authority", "additional"}
    BY <1>2, <2>1, EventShape DEF Before
  <2> QED
    BY <1>1, <2>2 DEF Seen, Past
<1>4. ToSet(routed) = {e \in Events : Concerns(e)}
  BY <1>2, <1>3 DEF RoutedSoFar
<1>5. Len(routed) = Cardinality(ToSet(routed))
  <2>1. PICK r, n, E : r = routed /\ n = Len(r) /\ E = Events /\ r \in Seq(E)
    BY <1>2 DEF RoutedSoFar
  <2>2. n \in Nat /\ DOMAIN r = 1 .. n
    BY <2>1
  <2>3. PICK S : S = ToSet(r)
    OBVIOUS
  <2>4. r \in Bijection(1 .. n, S)
    <3>1. \A i \in 1 .. n : r[i] \in S
      BY <2>2, <2>3 DEF ToSet
    <3>2. r \in [1 .. n -> S]
      BY <2>1, <2>2, <3>1
    <3>3. \A i, j \in 1 .. n : r[i] = r[j] => i = j
      BY <1>2, <2>1 DEF RoutedSoFar
    <3>4. \A s \in S : \E i \in 1 .. n : r[i] = s
      BY <2>2, <2>3 DEF ToSet
    <3> QED
      BY <3>2, <3>3, <3>4 DEF Bijection, Injection, Surjection, IsInjective
  <2>5. Cardinality(1 .. n) = n /\ IsFiniteSet(1 .. n)
    BY <2>2, FS_Interval
  <2>6. Cardinality(S) = n
    BY <2>4, <2>5, FS_Bijection DEF ExistsBijection
  <2> QED
    BY <2>1, <2>3, <2>6
<1> QED
  BY <1>4, <1>5

(***************************************************************************)
(* RouteEvents takes every readable entry of an admitted datagram, once,   *)
(* to every service and query it concerns, whatever the datagram and the   *)
(* tables: the resumption of its cursors in mid-record and the screen's    *)
(* memory lose nothing and repeat nothing.                                 *)
(***************************************************************************)
THEOREM DatagramRouted == RouteSpec => []RoutesExactly
<1>1. RouteInit => RoutingInv
  BY DEF RouteInit, RouteIdle, RoutingInv, Enter
<1>2. RoutingInv /\ [RouteNext]_routeVars => RoutingInv'
  BY RoutingStays
<1>3. RoutingInv => RoutesExactly
  BY RoutesAll
<1> QED
  BY <1>1, <1>2, <1>3, PTL DEF RouteSpec

-----------------------------------------------------------------------------
(* The simultaneous-probe comparison: the fold.                            *)

(* How many of the first j elements are at most v.                         *)
CountUpTo(s, j, v) == Cardinality({i \in 1 .. j : s[i] <= v})

(* A count goes up by one with each element that is at most v,             *)
LEMMA CountsAre ==
  ASSUME NEW s, NEW v, NEW j \in Nat
  PROVE  /\ CountUpTo(s, j, v) \in 0 .. j
         /\ IsFiniteSet({i \in 1 .. j : s[i] <= v})
         /\ CountUpTo(s, j + 1, v) = IF s[j + 1] <= v THEN CountUpTo(s, j, v) + 1 ELSE CountUpTo(s, j, v)
<1>1. IsFiniteSet(1 .. j) /\ Cardinality(1 .. j) = j
  BY FS_Interval
<1>2. PICK S : S = {i \in 1 .. j : s[i] <= v}
  OBVIOUS
<1>3. IsFiniteSet(S) /\ Cardinality(S) <= j /\ Cardinality(S) \in Nat
  <2>1. S \in SUBSET (1 .. j)
    BY <1>2
  <2> QED
    BY <1>1, <2>1, FS_Subset, FS_CardinalityType
<1>4. PICK T : T = {i \in 1 .. j + 1 : s[i] <= v}
  OBVIOUS
<1>5. j + 1 \notin S /\ 1 .. j + 1 = (1 .. j) \cup {j + 1}
  BY <1>2
<1>6. CASE s[j + 1] <= v
  <2>1. T = S \cup {j + 1}
    BY <1>2, <1>4, <1>5, <1>6
  <2>2. Cardinality(T) = Cardinality(S) + 1
    BY <1>3, <1>5, <2>1, FS_AddElement
  <2> QED
    BY <1>2, <1>3, <1>4, <1>6, <2>2 DEF CountUpTo
<1>7. CASE ~(s[j + 1] <= v)
  <2>1. T = S
    BY <1>2, <1>4, <1>5, <1>7
  <2> QED
    BY <1>2, <1>3, <1>4, <1>7, <2>1 DEF CountUpTo
<1> QED
  BY <1>6, <1>7

(* and is no less for a greater v.                                         *)
LEMMA CountsGrow ==
  ASSUME NEW s, NEW j \in Nat, \A i \in 1 .. j : s[i] \in Int, NEW v \in Int, NEW w \in Int, v <= w
  PROVE  CountUpTo(s, j, v) <= CountUpTo(s, j, w)
<1>1. {i \in 1 .. j : s[i] <= v} \in SUBSET {i \in 1 .. j : s[i] <= w}
  OBVIOUS
<1> QED
  BY <1>1, CountsAre, FS_Subset DEF CountUpTo

(* A sequence that stands where the counts put it: in order.               *)
Ranked(w, s, j) ==
  /\ \A i \in 1 .. Len(w) : w[i] \in Int
  /\ \A v \in Int : \A i \in 1 .. Len(w) : w[i] <= v <=> i <= CountUpTo(s, j, v)

(* Only one element can stand in each place.                               *)
LEMMA RankedOnce ==
  ASSUME NEW s, NEW j, NEW w, NEW x, Ranked(w, s, j), Ranked(x, s, j),
         NEW i \in 1 .. Len(w), i \in 1 .. Len(x)
  PROVE  w[i] = x[i]
<1>1. w[i] \in Int /\ x[i] \in Int
  BY DEF Ranked
<1>2. w[i] <= x[i]
  <2>1. x[i] <= x[i]
    BY <1>1
  <2> QED
    BY <1>1, <2>1 DEF Ranked
<1>3. x[i] <= w[i]
  <2>1. w[i] <= w[i]
    BY <1>1
  <2> QED
    BY <1>1, <2>1 DEF Ranked
<1> QED
  BY <1>1, <1>2, <1>3

(* The lesser of two.                                                      *)
Least(a, b) == IF a < b THEN a ELSE b

(* What a fold of the first j elements amounts to.                         *)
FoldOf(fold, s, j, keep) ==
  /\ fold = [smallest |-> fold.smallest, count |-> j, keep |-> keep]
  /\ fold.smallest \in Seq(Int)
  /\ Len(fold.smallest) = Least(keep, j)
  /\ Ranked(fold.smallest, s, j)

(* Offering the next element keeps the fold what it amounts to.            *)
LEMMA OfferFolds ==
  ASSUME NEW s, NEW j \in Nat, NEW keep \in Nat, \A i \in 1 .. j + 1 : s[i] \in Int,
         NEW fold, FoldOf(fold, s, j, keep)
  PROVE  FoldOf(offer(fold, s[j + 1]), s, j + 1, keep)
<1>1. PICK w, e : w = fold.smallest /\ e = s[j + 1]
  OBVIOUS
<1>2. PICK len : len = Len(w)
  OBVIOUS
<1>3. /\ w \in Seq(Int) /\ e \in Int /\ len = Least(keep, j) /\ len \in Nat /\ DOMAIN w = 1 .. len
      /\ \A i \in 1 .. len : w[i] \in Int
      /\ len <= keep /\ len <= j /\ (len < keep => len = j)
  BY <1>1, <1>2 DEF FoldOf, Least
<1>4. \A v \in Int : \A i \in 1 .. len : w[i] <= v <=> i <= CountUpTo(s, j, v)
  BY <1>1, <1>2 DEF FoldOf, Ranked
<1>5. \A v \in Int : CountUpTo(s, j, v) \in Nat /\ CountUpTo(s, j, v) <= j
                     /\ CountUpTo(s, j + 1, v) = IF e <= v THEN CountUpTo(s, j, v) + 1 ELSE CountUpTo(s, j, v)
  <2>1. TAKE v \in Int
  <2>2. PICK n, p : n = CountUpTo(s, j, v) /\ p = CountUpTo(s, j + 1, v)
    OBVIOUS
  <2>3. n \in 0 .. j /\ p = IF e <= v THEN n + 1 ELSE n
    BY <1>1, <2>2, CountsAre
  <2> QED
    BY <2>2, <2>3
<1>16. PICK q : q = CountUpTo(s, j, e)
  OBVIOUS
<1>17. q \in Nat /\ q <= j
  BY <1>3, <1>5, <1>16
<1>6. \A v \in Int : (e <= v => CountUpTo(s, j, e) <= CountUpTo(s, j, v)) /\ (v <= e => CountUpTo(s, j, v) <= CountUpTo(s, j, e))
  BY <1>3, CountsGrow
<1>7. PICK c : c = Cardinality({i \in DOMAIN fold.smallest : fold.smallest[i] <= e})
  OBVIOUS
<1>8. c = Least(len, q)
  <2>1. PICK b : b = Least(len, q)
    OBVIOUS
  <2>2. b \in Nat /\ b <= len /\ b <= q /\ (b = len \/ b = q)
    BY <1>3, <1>17, <2>1 DEF Least
  <2>3. {i \in DOMAIN fold.smallest : fold.smallest[i] <= e} = 1 .. b
    <3>1. \A i \in 1 .. len : w[i] <= e <=> i <= b
      <4>1. \A i \in 1 .. len : w[i] <= e <=> i <= q
        BY <1>3, <1>4, <1>16
      <4> QED
        BY <1>3, <1>17, <2>2, <4>1
    <3> QED
      BY <1>1, <1>3, <2>2, <3>1
  <2>4. Cardinality(1 .. b) = b
    BY <2>2, FS_Interval
  <2> QED
    BY <1>7, <2>1, <2>3, <2>4
<1>9. c \in Nat /\ c <= len /\ c <= q /\ (c = len \/ c = q)
  BY <1>3, <1>17, <1>8 DEF Least
<1>10. PICK new : new = offer(fold, e)
  OBVIOUS
<1>11. PICK ins : ins = InsertAt(w, c + 1, e)
  OBVIOUS
<1>12. new = [smallest |-> IF c + 1 > keep THEN w
                           ELSE SubSeq(ins, 1, Least(Len(ins), keep)),
              count |-> j + 1, keep |-> keep]
  <2>1. fold = [smallest |-> w, count |-> j, keep |-> keep]
    BY <1>1 DEF FoldOf
  <2>2. 1 + c = c + 1
    BY <1>9
  <2>3. new = [fold EXCEPT !.count = @ + 1,
                  !.smallest = IF c + 1 > keep THEN w ELSE SubSeq(ins, 1, Least(Len(ins), keep))]
    <3>1. fold.smallest = w /\ fold.keep = keep
      BY <2>1
    <3>2. PICK place : place = 1 + Cardinality({i \in DOMAIN fold.smallest : fold.smallest[i] <= e})
      OBVIOUS
    <3>3. place = c + 1
      BY <1>7, <2>2, <3>2
    <3>4. new = [fold EXCEPT !.count = @ + 1,
                   !.smallest = IF place > fold.keep THEN @
                                ELSE SubSeq(InsertAt(fold.smallest, place, e), 1,
                                            Least(Len(InsertAt(fold.smallest, place, e)), fold.keep))]
      BY <1>10, <3>2 DEF offer, Least
    <3> QED
      BY <1>11, <3>1, <3>3, <3>4
  <2> QED
    BY <2>1, <2>3
<1>13. CASE c + 1 > keep
  <2>1. len = keep /\ c = keep /\ Least(keep, j + 1) = len /\ keep <= q
    BY <1>3, <1>9, <1>13, <1>17 DEF Least
  <2>2. ASSUME NEW v \in Int, NEW i \in 1 .. len PROVE w[i] <= v <=> i <= CountUpTo(s, j + 1, v)
    <3>1. PICK n, p : n = CountUpTo(s, j, v) /\ p = CountUpTo(s, j + 1, v)
      OBVIOUS
    <3>2. n \in Nat /\ p = (IF e <= v THEN n + 1 ELSE n) /\ (e <= v => q <= n)
      BY <1>5, <1>6, <1>16, <2>2, <3>1
    <3>3. w[i] <= v <=> i <= n
      BY <1>4, <2>2, <3>1
    <3>4. i \in Nat /\ i <= len
      BY <1>3, <2>2
    <3> QED
      BY <1>3, <1>17, <2>1, <3>1, <3>2, <3>3, <3>4
  <2>3. Ranked(w, s, j + 1)
    BY <1>2, <1>3, <2>2 DEF Ranked
  <2>4. new = [smallest |-> w, count |-> j + 1, keep |-> keep]
    BY <1>12, <1>13
  <2> QED
    BY <1>1, <1>2, <1>3, <1>10, <2>1, <2>3, <2>4 DEF FoldOf
<1>14. CASE ~(c + 1 > keep)
  <2>1. /\ ins \in Seq(Int) /\ Len(ins) = len + 1
        /\ \A i \in 1 .. len + 1 : ins[i] = IF i < c + 1 THEN w[i] ELSE IF i = c + 1 THEN e ELSE w[i - 1]
    <3>1. PICK x, y : x = SubSeq(w, 1, c) /\ y = SubSeq(w, c + 1, len)
      OBVIOUS
    <3>2. x \in Seq(Int) /\ Len(x) = c /\ \A i \in 1 .. c : x[i] = w[i]
      BY <1>3, <1>9, <3>1, SubSeqProperties
    <3>3. y \in Seq(Int) /\ Len(y) = len - c /\ \A i \in 1 .. len - c : y[i] = w[c + i]
      BY <1>3, <1>9, <3>1, SubSeqProperties
    <3>4. ins = (x \o <<e>>) \o y
      <4>1. (c + 1) - 1 = c
        BY <1>9
      <4> QED
        BY <1>2, <1>11, <3>1, <4>1 DEF InsertAt
    <3>5. PICK z : z = x \o <<e>>
      OBVIOUS
    <3>6. z \in Seq(Int) /\ Len(z) = c + 1 /\ z[c + 1] = e /\ \A i \in 1 .. c : z[i] = w[i]
      <4>1. z = Append(x, e)
        BY <3>2, <3>5, AppendIsConcat
      <4> QED
        BY <1>3, <1>9, <3>2, <4>1, AppendProperties
    <3>7. ins \in Seq(Int) /\ Len(ins) = len + 1
      BY <1>3, <1>9, <3>3, <3>4, <3>5, <3>6, ConcatProperties
    <3>8. \A i \in 1 .. c + 1 : ins[i] = z[i]
      BY <1>9, <3>3, <3>4, <3>5, <3>6, ConcatProperties
    <3>9. ASSUME NEW i \in c + 2 .. len + 1 PROVE ins[i] = w[i - 1]
      <4>1. i - (c + 1) \in 1 .. len - c /\ c + (i - (c + 1)) = i - 1
        BY <1>3, <1>9
      <4>2. ins[i] = y[i - (c + 1)]
        <5>1. i \in 1 .. Len(z) + Len(y) /\ ~(i <= Len(z))
          BY <1>3, <1>9, <3>3, <3>6
        <5>2. ins = z \o y
          BY <3>4, <3>5
        <5>3. (z \o y)[i] = y[i - Len(z)]
          BY <3>3, <3>6, <5>1, ConcatProperties
        <5>4. i - Len(z) = i - (c + 1)
          BY <3>6
        <5> QED
          BY <5>2, <5>3, <5>4
      <4> QED
        BY <3>3, <4>1, <4>2
    <3> QED
      BY <1>3, <1>9, <3>6, <3>7, <3>8, <3>9
  <2>2. PICK u, m : u = SubSeq(ins, 1, Least(Len(ins), keep)) /\ m = Least(len + 1, keep)
    OBVIOUS
  <2>3. m \in Nat /\ m <= len + 1 /\ m = Least(keep, j + 1)
    BY <1>3, <2>2 DEF Least
  <2>4. u \in Seq(Int) /\ Len(u) = m /\ \A i \in 1 .. m : u[i] = ins[i]
    BY <2>1, <2>2, <2>3, SubSeqProperties
  <2>5. ASSUME NEW v \in Int, NEW i \in 1 .. m PROVE u[i] <= v <=> i <= CountUpTo(s, j + 1, v)
    <3>1. i \in 1 .. len + 1 /\ u[i] = ins[i] /\ i \in Nat
      BY <1>3, <2>3, <2>4
    <3>2. PICK n, p : n = CountUpTo(s, j, v) /\ p = CountUpTo(s, j + 1, v)
      OBVIOUS
    <3>3. /\ n \in Nat /\ q \in Nat /\ n <= j /\ q <= j /\ p = (IF e <= v THEN n + 1 ELSE n)
          /\ (e <= v => q <= n) /\ (v <= e => n <= q) /\ c <= q /\ (c = len \/ c = q)
      BY <1>3, <1>5, <1>6, <1>9, <1>16, <1>17, <2>5, <3>2
    <3>4. CASE i < c + 1
      <4>1. u[i] = w[i] /\ i \in 1 .. len /\ (w[i] <= v <=> i <= n)
        <5>1. i \in 1 .. len
          BY <1>3, <1>9, <3>1, <3>4
        <5>2. u[i] = w[i]
          BY <2>1, <3>1, <3>4
        <5> QED
          BY <1>4, <2>5, <3>2, <5>1, <5>2
      <4> QED
        BY <1>3, <1>9, <3>2, <3>3, <3>4, <4>1
    <3>5. CASE i = c + 1
      <4>1. u[i] = e
        BY <1>9, <2>1, <3>1, <3>5
      <4>2. c = q
        BY <1>3, <1>9, <1>14, <3>3
      <4> QED
        BY <1>3, <1>9, <3>2, <3>3, <3>5, <4>1, <4>2
    <3>6. CASE i > c + 1
      <4>1. u[i] = w[i - 1] /\ i - 1 \in 1 .. len
        BY <1>3, <1>9, <2>1, <3>1, <3>6
      <4>2. w[i - 1] <= v <=> i - 1 <= n
        BY <1>4, <3>2, <4>1
      <4>3. c = q
        BY <1>3, <1>9, <3>1, <3>3, <3>6
      <4>4. i \in Nat /\ q < i - 1
        BY <1>9, <3>1, <3>6, <4>3
      <4>5. u[i] <= v <=> i - 1 <= n
        BY <4>1, <4>2
      <4>6. i - 1 <= n <=> i <= p
        BY <1>3, <2>5, <3>3, <4>4
      <4> QED
        BY <3>2, <4>5, <4>6
    <3> QED
      BY <1>9, <3>1, <3>4, <3>5, <3>6
  <2>6. Ranked(u, s, j + 1)
    <3>1. \A i \in 1 .. m : u[i] \in Int
      BY <2>4
    <3> QED
      BY <2>4, <2>5, <3>1 DEF Ranked
  <2>7. new = [smallest |-> u, count |-> j + 1, keep |-> keep]
    BY <1>12, <1>14, <2>2
  <2> QED
    BY <1>1, <1>10, <2>3, <2>4, <2>6, <2>7 DEF FoldOf
<1> QED
  BY <1>13, <1>14

(* The fold takes the elements one by one, in their order.                 *)
LEMMA FoldUnfolds ==
  ASSUME NEW P, NEW keep, Len(P) \in Nat
  PROVE  \E f : /\ Folded(P, keep) = f[Len(P)] /\ f[0] = NewFold(keep)
                /\ \A i \in 1 .. Len(P) : f[i] = offer(f[i - 1], P[i])
<1> DEFINE Runs(f, k) == f = [n \in 0 .. k |-> IF n = 0 THEN NewFold(keep) ELSE offer(f[n - 1], P[n])]
           stuck == {k \in Nat : ~(\E f : Runs(f, k))}
<1>1. stuck = {}
  <2> SUFFICES ASSUME stuck # {} PROVE FALSE
    OBVIOUS
  <2>1. PICK k \in stuck : \A m \in stuck : k <= m
    <3> HIDE DEF stuck
    <3>1. stuck \in SUBSET Nat
      BY DEF stuck
    <3> QED
      BY <3>1, LeastExists
  <2>2. k \in Nat
    BY <2>1
  <2>3. CASE k = 0
    <3> DEFINE g == [i \in 0 .. 0 |-> NewFold(keep)]
    <3>1. Runs(g, 0)
      BY 0 .. 0 = {0}
    <3> QED
      BY <2>1, <2>3, <3>1
  <2>4. CASE k # 0
    <3>1. k - 1 \in Nat /\ k - 1 < k
      BY <2>2, <2>4
    <3>2. k - 1 \notin stuck
      <4> HIDE DEF stuck
      <4> QED
        BY <2>1, <2>2, <3>1
    <3>3. PICK f : Runs(f, k - 1)
      BY <3>1, <3>2
    <3> DEFINE g == [i \in 0 .. k |-> IF i = k THEN offer(f[k - 1], P[k]) ELSE f[i]]
    <3>4. \A i \in 0 .. k - 1 : g[i] = f[i]
      BY <3>1
    <3>5. \A i \in 0 .. k - 1 : f[i] = IF i = 0 THEN NewFold(keep) ELSE offer(f[i - 1], P[i])
      BY <3>3
    <3>6. ASSUME NEW i \in 0 .. k
          PROVE  g[i] = IF i = 0 THEN NewFold(keep) ELSE offer(g[i - 1], P[i])
      <4>1. CASE i = k
        <5>1. g[k - 1] = f[k - 1] /\ g[k] = offer(f[k - 1], P[k])
          BY <2>2, <3>1, <3>4
        <5> HIDE DEF g
        <5> QED
          BY <2>4, <4>1, <5>1
      <4>2. CASE i # k /\ i # 0
        <5>1. i \in 0 .. k - 1 /\ i - 1 \in 0 .. k - 1
          BY <2>2, <3>6, <4>2
        <5>2. g[i] = f[i] /\ g[i - 1] = f[i - 1]
          BY <3>4, <5>1
        <5>3. f[i] = offer(f[i - 1], P[i])
          BY <3>5, <4>2, <5>1
        <5> HIDE DEF g
        <5> QED
          BY <4>2, <5>2, <5>3
      <4>3. CASE i = 0
        <5>1. 0 \in 0 .. k - 1
          BY <2>2, <3>1
        <5>2. g[0] = f[0] /\ f[0] = NewFold(keep)
          BY <3>4, <3>5, <5>1
        <5> HIDE DEF g
        <5> QED
          BY <4>3, <5>2
      <4> QED
        BY <4>1, <4>2, <4>3
    <3>7. Runs(g, k)
      BY <3>6
    <3> QED
      BY <2>1, <3>7
  <2> QED
    BY <2>3, <2>4
<1>2. PICK n : n = Len(P)
  OBVIOUS
<1>3. \E f : Runs(f, n)
  BY <1>1, <1>2
<1> DEFINE fold == CHOOSE f : Runs(f, n)
<1>4. Runs(fold, n)
  <2> HIDE DEF Runs
  <2> QED
    BY <1>3
<1>5. Folded(P, keep) = fold[n]
  BY <1>2 DEF Folded
<1>6. fold[0] = NewFold(keep) /\ \A i \in 1 .. n : fold[i] = offer(fold[i - 1], P[i])
  <2> HIDE DEF fold
  <2>1. \A i \in 0 .. n : fold[i] = IF i = 0 THEN NewFold(keep) ELSE offer(fold[i - 1], P[i])
    BY <1>4
  <2>2. 0 \in 0 .. n /\ \A i \in 1 .. n : i \in 0 .. n /\ i # 0
    BY <1>2
  <2> QED
    BY <2>1, <2>2
<1> HIDE DEF fold
<1> QED
  BY <1>2, <1>5, <1>6

(* So the fold of a proposal keeps the least of it, in order.              *)
LEMMA FoldsWhole ==
  ASSUME NEW P, NEW keep \in Nat, Len(P) \in Nat, \A i \in 1 .. Len(P) : P[i] \in Int
  PROVE  FoldOf(Folded(P, keep), P, Len(P), keep)
<1>1. PICK n : n = Len(P)
  OBVIOUS
<1>2. PICK f : /\ Folded(P, keep) = f[n] /\ f[0] = NewFold(keep)
               /\ \A i \in 1 .. n : f[i] = offer(f[i - 1], P[i])
  BY <1>1, FoldUnfolds
<1> DEFINE bad == {j \in 0 .. n : ~FoldOf(f[j], P, j, keep)}
<1>3. bad = {}
  <2>1. SUFFICES ASSUME bad # {} PROVE FALSE
    OBVIOUS
  <2>2. bad \in SUBSET Nat
    BY <1>1
  <2>3. PICK k \in bad : \A m \in bad : k <= m
    <3> HIDE DEF bad
    <3> QED
      BY <2>1, <2>2, LeastExists
  <2>4. k \in 0 .. n /\ ~FoldOf(f[k], P, k, keep)
    BY <2>3
  <2>5. k # 0
    <3>1. SUFFICES ASSUME k = 0 PROVE FALSE
      OBVIOUS
    <3>2. f[0] = [smallest |-> <<>>, count |-> 0, keep |-> keep]
      BY <1>2 DEF NewFold
    <3>3. <<>> \in Seq(Int) /\ Len(<<>>) = 0 /\ Least(keep, 0) = 0
      BY DEF Least
    <3>4. Ranked(<<>>, P, 0)
      BY <3>3 DEF Ranked
    <3>5. PICK g : g = f[0]
      OBVIOUS
    <3>6. g.smallest = <<>> /\ g = [smallest |-> <<>>, count |-> 0, keep |-> keep]
      BY <3>2, <3>5
    <3>7. FoldOf(g, P, 0, keep)
      BY <3>3, <3>4, <3>6 DEF FoldOf
    <3> QED
      BY <2>4, <3>1, <3>5, <3>7
  <2>6. PICK j : j = k - 1
    OBVIOUS
  <2>7. j \in Nat /\ j \in 0 .. n /\ j < k /\ j + 1 = k /\ k \in 1 .. n
    BY <1>1, <2>4, <2>5, <2>6
  <2>8. FoldOf(f[j], P, j, keep)
    <3>1. j \notin bad
      <4>1. \A m \in bad : k <= m
        BY <2>3
      <4> HIDE DEF bad
      <4> QED
        BY <2>4, <2>7, <4>1
    <3> QED
      BY <2>7, <3>1
  <2>9. \A i \in 1 .. j + 1 : P[i] \in Int
    BY <1>1, <2>7
  <2>10. FoldOf(offer(f[j], P[j + 1]), P, j + 1, keep)
    BY <2>7, <2>8, <2>9, OfferFolds
  <2>11. f[k] = offer(f[j], P[k])
    BY <1>2, <2>6, <2>7
  <2> QED
    BY <2>4, <2>7, <2>10, <2>11
<1>4. n \in 0 .. n
  BY <1>1
<1> QED
  BY <1>1, <1>2, <1>3, <1>4

-----------------------------------------------------------------------------
(* Sorting, and comparing lists in order.                                  *)

(* Sorting is folding with room for everything.                            *)
LEMMA SortedFolds ==
  ASSUME NEW P \in Seq(Int)
  PROVE  /\ Sorted(P) \in Seq(Int) /\ Len(Sorted(P)) = Len(P)
         /\ \A n \in 1 .. Len(P) : Sorted(P)[n] \in ToSet(P)
         /\ Ranked(Sorted(P), P, Len(P))
<1>1. PICK len : len = Len(P)
  OBVIOUS
<1>2. len \in Nat /\ DOMAIN P = 1 .. len /\ \A i \in 1 .. len : P[i] \in Int
  BY <1>1
<1>3. PICK w : w = Folded(P, len).smallest
  OBVIOUS
<1>4. w \in Seq(Int) /\ Len(w) = len /\ Ranked(w, P, len)
  <2>1. FoldOf(Folded(P, len), P, len, len)
    BY <1>1, <1>2, FoldsWhole
  <2>2. Least(len, len) = len
    BY DEF Least
  <2> QED
    BY <1>3, <2>1, <2>2 DEF FoldOf
<1>5. \A n \in 1 .. len : w[n] \in Int
  BY <1>4
<1>6. ASSUME NEW x \in Int
      PROVE  /\ Cardinality({i \in DOMAIN P : P[i] < x}) = CountUpTo(P, len, x - 1)
             /\ Cardinality({i \in DOMAIN P : P[i] <= x}) = CountUpTo(P, len, x)
  <2>1. {i \in DOMAIN P : P[i] < x} = {i \in 1 .. len : P[i] <= x - 1}
    BY <1>2
  <2>2. {i \in DOMAIN P : P[i] <= x} = {i \in 1 .. len : P[i] <= x}
    BY <1>2
  <2> QED
    BY <2>1, <2>2 DEF CountUpTo
<1>7. ASSUME NEW n \in 1 .. len, NEW x \in Int
      PROVE  CountUpTo(P, len, x - 1) < n /\ n <= CountUpTo(P, len, x) <=> x = w[n]
  <2>1. PICK a, b : a = CountUpTo(P, len, x - 1) /\ b = CountUpTo(P, len, x)
    OBVIOUS
  <2>2. a \in Nat /\ b \in Nat /\ n \in Nat
    <3>1. CountUpTo(P, len, x - 1) \in 0 .. len /\ CountUpTo(P, len, x) \in 0 .. len
      BY <1>2, CountsAre
    <3> QED
      BY <1>2, <1>7, <2>1, <3>1
  <2>3. (w[n] <= x <=> n <= b) /\ (w[n] <= x - 1 <=> n <= a)
    BY <1>4, <2>1 DEF Ranked
  <2>4. w[n] \in Int
    BY <1>5
  <2> QED
    BY <2>1, <2>2, <2>3, <2>4
<1>8. ASSUME NEW n \in 1 .. len
      PROVE  w[n] \in ToSet(P)
  <2>1. SUFFICES ASSUME w[n] \notin ToSet(P) PROVE FALSE
    OBVIOUS
  <2>2. PICK x : x = w[n]
    OBVIOUS
  <2>3. x \in Int
    BY <1>5, <2>2
  <2>4. \A i \in 1 .. len : P[i] # x
    BY <1>2, <2>1, <2>2 DEF ToSet
  <2>5. {i \in 1 .. len : P[i] <= x - 1} = {i \in 1 .. len : P[i] <= x}
    BY <1>2, <2>3, <2>4
  <2>6. CountUpTo(P, len, x - 1) = CountUpTo(P, len, x)
    BY <2>5 DEF CountUpTo
  <2>7. PICK a : a = CountUpTo(P, len, x)
    OBVIOUS
  <2>8. a < n /\ n <= a
    BY <1>7, <2>2, <2>3, <2>6, <2>7
  <2>9. a \in Nat /\ n \in Nat
    <3>1. CountUpTo(P, len, x) \in 0 .. len
      BY <1>2, CountsAre
    <3> QED
      BY <1>2, <1>8, <2>7, <3>1
  <2> QED
    BY <2>8, <2>9
<1>9. ASSUME NEW n \in 1 .. len
      PROVE  Sorted(P)[n] = w[n]
  <2> DEFINE Stands(x) == /\ Cardinality({i \in DOMAIN P : P[i] < x}) < n
                          /\ n <= Cardinality({i \in DOMAIN P : P[i] <= x})
  <2>1. Sorted(P)[n] = CHOOSE x \in ToSet(P) : Stands(x)
    BY <1>2 DEF Sorted
  <2>2. \A x \in ToSet(P) : x \in Int
    BY <1>2 DEF ToSet
  <2>3. \A x \in ToSet(P) : Stands(x) <=> x = w[n]
    <3>1. TAKE x \in ToSet(P)
    <3>2. x \in Int
      BY <2>2, <3>1
    <3>3. PICK a, b : a = CountUpTo(P, len, x - 1) /\ b = CountUpTo(P, len, x)
      OBVIOUS
    <3>4. Stands(x) <=> a < n /\ n <= b
      BY <1>6, <3>2, <3>3
    <3> HIDE DEF Stands
    <3> QED
      BY <1>7, <1>9, <3>2, <3>3, <3>4
  <2> HIDE DEF Stands
  <2>4. (CHOOSE x \in ToSet(P) : Stands(x)) = w[n]
    BY <1>8, <2>3
  <2> QED
    BY <2>1, <2>4
<1>10. Sorted(P) = w
  <2>1. PICK s : s = Sorted(P)
    OBVIOUS
  <2>2. s = [n \in 1 .. len |-> s[n]]
    <3>1. DOMAIN P = 1 .. len
      BY <1>2
    <3> DEFINE At(n) == CHOOSE x \in ToSet(P) :
                 /\ Cardinality({i \in DOMAIN P : P[i] < x}) < n
                 /\ n <= Cardinality({i \in DOMAIN P : P[i] <= x})
    <3>2. s = [n \in 1 .. len |-> At(n)]
      BY <2>1, <3>1, Zenon DEF Sorted
    <3> HIDE DEF At
    <3> QED
      BY <3>2
  <2>3. w = [n \in 1 .. len |-> w[n]]
    BY <1>4
  <2>4. \A n \in 1 .. len : s[n] = w[n]
    BY <1>9, <2>1
  <2> QED
    BY <2>1, <2>2, <2>3, <2>4
<1> QED
  BY <1>1, <1>4, <1>8, <1>10

(* Sorting changes no count.                                               *)
LEMMA SortedCounts ==
  ASSUME NEW P \in Seq(Int), NEW v \in Int
  PROVE  CountUpTo(Sorted(P), Len(P), v) = CountUpTo(P, Len(P), v)
<1>1. PICK t, len, c : t = Sorted(P) /\ len = Len(P) /\ c = CountUpTo(P, len, v)
  OBVIOUS
<1>2. len \in Nat /\ c \in 0 .. len
  <2>1. len \in Nat
    BY <1>1
  <2> QED
    BY <1>1, <2>1, CountsAre
<1>3. Len(t) = len /\ \A i \in 1 .. len : t[i] <= v <=> i <= c
  BY <1>1, SortedFolds DEF Ranked
<1>4. {i \in 1 .. len : t[i] <= v} = 1 .. c
  BY <1>2, <1>3
<1>5. Cardinality(1 .. c) = c
  BY <1>2, FS_Interval
<1> QED
  BY <1>1, <1>4, <1>5 DEF CountUpTo

(* A sequence in order stands where its own counts put it.                 *)
InOrder(t) == t \in Seq(Int) /\ Ranked(t, t, Len(t))

(* What `Sorted` returns is in order.                                      *)
LEMMA SortedIsInOrder ==
  ASSUME NEW P \in Seq(Int)
  PROVE  InOrder(Sorted(P))
<1>1. PICK t, len : t = Sorted(P) /\ len = Len(P)
  OBVIOUS
<1>2. t \in Seq(Int) /\ Len(t) = len /\ Ranked(t, P, len)
  BY <1>1, SortedFolds
<1>3. \A v \in Int : CountUpTo(t, len, v) = CountUpTo(P, len, v)
  BY <1>1, SortedCounts
<1>4. Ranked(t, t, len)
  BY <1>2, <1>3 DEF Ranked
<1> QED
  BY <1>1, <1>2, <1>4 DEF InOrder

(* However the elements arrive, the fold is that of the list in order.     *)
LEMMA FoldsAgree ==
  ASSUME NEW P \in Seq(Int), NEW keep \in Nat
  PROVE  Folded(Sorted(P), keep) = Folded(P, keep)
<1>1. PICK t, len : t = Sorted(P) /\ len = Len(P)
  OBVIOUS
<1>2. t \in Seq(Int) /\ Len(t) = len /\ len \in Nat
  BY <1>1, SortedFolds
<1>3. PICK x, y : x = Folded(t, keep) /\ y = Folded(P, keep)
  OBVIOUS
<1>4. FoldOf(x, t, len, keep)
  <2>1. \A i \in 1 .. Len(t) : t[i] \in Int
    BY <1>2
  <2> QED
    BY <1>2, <1>3, <2>1, FoldsWhole
<1>5. FoldOf(y, P, len, keep)
  <2>1. \A i \in 1 .. Len(P) : P[i] \in Int
    OBVIOUS
  <2> QED
    BY <1>1, <1>2, <1>3, <2>1, FoldsWhole
<1>6. PICK u, w, k : u = x.smallest /\ w = y.smallest /\ k = Least(keep, len)
  OBVIOUS
<1>7. /\ x = [smallest |-> u, count |-> len, keep |-> keep] /\ u \in Seq(Int) /\ Len(u) = k
      /\ y = [smallest |-> w, count |-> len, keep |-> keep] /\ w \in Seq(Int) /\ Len(w) = k
      /\ Ranked(u, t, len) /\ Ranked(w, P, len)
  BY <1>4, <1>5, <1>6 DEF FoldOf
<1>8. Ranked(u, P, len)
  <2>1. \A v \in Int : CountUpTo(t, len, v) = CountUpTo(P, len, v)
    BY <1>1, SortedCounts
  <2> QED
    BY <1>7, <2>1 DEF Ranked
<1>9. \A i \in 1 .. k : u[i] = w[i]
  <2>1. TAKE i \in 1 .. k
  <2>2. Ranked(u, P, len) /\ Ranked(w, P, len) /\ i \in 1 .. Len(u) /\ i \in 1 .. Len(w)
    BY <1>7, <1>8, <2>1
  <2> QED
    BY <2>2, RankedOnce
<1>10. u = w
  BY <1>7, <1>9
<1> QED
  BY <1>1, <1>3, <1>7, <1>10

(* The indices two lists both have, at which they differ.                  *)
Differ(t, o) == {i \in 1 .. Len(t) : i <= Len(o) /\ t[i] # o[i]}

(* A list in order, folded in the other's space, is compared as a whole.   *)
LEMMA ComparesInOrder ==
  ASSUME NEW t, InOrder(t), NEW o, InOrder(o)
  PROVE  Compare(t, o) <=> IF Differ(t, o) = {} THEN Len(t) > Len(o)
                           ELSE t[Min(Differ(t, o))] > o[Min(Differ(t, o))]
<1>1. t \in Seq(Int) /\ o \in Seq(Int) /\ Ranked(t, t, Len(t))
  BY DEF InOrder
<1>2. PICK len, keep, fold : len = Len(t) /\ keep = Len(o) /\ fold = Folded(t, keep)
  OBVIOUS
<1>3. len \in Nat /\ keep \in Nat /\ DOMAIN o = 1 .. keep /\ \A i \in 1 .. len : t[i] \in Int
  BY <1>1, <1>2
<1>4. FoldOf(fold, t, len, keep)
  BY <1>2, <1>3, FoldsWhole
<1>5. PICK w, k : w = fold.smallest /\ k = Least(keep, len)
  OBVIOUS
<1>6. fold.count = len /\ w \in Seq(Int) /\ Len(w) = k /\ DOMAIN w = 1 .. k /\ Ranked(w, t, len)
  <2>1. fold = [smallest |-> fold.smallest, count |-> len, keep |-> keep]
    BY <1>4 DEF FoldOf
  <2> QED
    BY <1>4, <1>5, <2>1 DEF FoldOf
<1>7. k \in Nat /\ k <= len /\ k <= keep /\ (k = len \/ k = keep)
  BY <1>3, <1>5 DEF Least
<1>8. \A i \in 1 .. k : w[i] = t[i]
  <2>1. TAKE i \in 1 .. k
  <2>2. i \in 1 .. Len(w) /\ i \in 1 .. Len(t)
    BY <1>2, <1>3, <1>6, <1>7
  <2> QED
    BY <1>1, <1>2, <1>6, <2>2, RankedOnce
<1>9. PICK D : D = Differ(t, o)
  OBVIOUS
<1>10. D \in SUBSET (1 .. k) /\ D = {i \in 1 .. k : t[i] # o[i]}
  BY <1>2, <1>3, <1>7, <1>9 DEF Differ
<1>11. D = {i \in {j \in DOMAIN fold.smallest : j \in DOMAIN o} : fold.smallest[i] # o[i]}
  <2>1. {j \in DOMAIN fold.smallest : j \in DOMAIN o} = 1 .. k
    BY <1>3, <1>5, <1>6, <1>7
  <2> QED
    BY <1>5, <1>8, <1>10, <2>1
<1>12. Compare(t, o) = peer_wins(fold, o)
  BY <1>2 DEF Compare
<1>13. CASE D = {}
  BY <1>2, <1>6, <1>9, <1>11, <1>12, <1>13 DEF peer_wins
<1>14. CASE D # {}
  <2>1. Min(D) \in 1 .. k
    <3>1. D \in SUBSET Nat
      BY <1>7, <1>10
    <3>2. Min(D) \in D
      BY <1>14, <3>1, MinIsLeast
    <3> QED
      BY <1>10, <3>2
  <2>2. peer_wins(fold, o) <=> fold.smallest[Min(D)] > o[Min(D)]
    BY <1>11, <1>14 DEF peer_wins
  <2> QED
    BY <1>5, <1>8, <1>9, <1>12, <1>14, <2>1, <2>2
<1> QED
  BY <1>13, <1>14

(* Of two lists that are not the same, exactly one is later.               *)
LEMMA OneIsLater ==
  ASSUME NEW t, InOrder(t), NEW o, InOrder(o)
  PROVE  /\ o # t => (Compare(t, o) <=> ~Compare(o, t))
         /\ o = t => ~Compare(t, o)
<1>1. t \in Seq(Int) /\ o \in Seq(Int)
  BY DEF InOrder
<1>2. PICK D : D = Differ(t, o)
  OBVIOUS
<1>3. PICK a, b : a = Len(t) /\ b = Len(o)
  OBVIOUS
<1>4. a \in Nat /\ b \in Nat
  BY <1>1, <1>3
<1>5. D = Differ(o, t)
  BY <1>2, <1>3, <1>4 DEF Differ
<1>6. Compare(t, o) <=> IF D = {} THEN a > b ELSE t[Min(D)] > o[Min(D)]
  BY <1>2, <1>3, ComparesInOrder
<1>7. Compare(o, t) <=> IF D = {} THEN b > a ELSE o[Min(D)] > t[Min(D)]
  BY <1>3, <1>5, ComparesInOrder
<1>8. CASE D = {}
  <2>1. ASSUME a = b PROVE o = t
    <3>1. \A i \in 1 .. a : t[i] = o[i]
      BY <1>2, <1>3, <1>8, <2>1 DEF Differ
    <3>2. t = [i \in 1 .. Len(t) |-> t[i]] /\ o = [i \in 1 .. Len(o) |-> o[i]]
      BY <1>1
    <3> QED
      BY <1>3, <2>1, <3>1, <3>2
  <2>2. o = t => a = b
    BY <1>3
  <2> QED
    BY <1>4, <1>6, <1>7, <1>8, <2>1, <2>2
<1>9. CASE D # {}
  <2>1. D \in SUBSET Nat
    BY <1>2, <1>3, <1>4 DEF Differ
  <2>2. PICK n : n = Min(D)
    OBVIOUS
  <2>3. n \in D
    BY <1>9, <2>1, <2>2, MinIsLeast
  <2>4. n \in 1 .. a /\ n \in 1 .. b /\ t[n] # o[n]
    BY <1>2, <1>3, <1>4, <2>3 DEF Differ
  <2>5. t[n] \in Int /\ o[n] \in Int
    BY <1>1, <1>3, <2>4
  <2> QED
    BY <1>6, <1>7, <1>9, <2>2, <2>4, <2>5
<1> QED
  BY <1>8, <1>9

-----------------------------------------------------------------------------
(* Both sides of a probe.                                                  *)

(* The members of a finite set as a list.                                  *)
LEMMA ListsTheSet ==
  ASSUME NEW S, IsFiniteSet(S)
  PROVE  /\ Cardinality(S) \in Nat
         /\ SetToSeq(S) \in Seq(S) /\ Len(SetToSeq(S)) = Cardinality(S)
<1>1. PICK n : n = Cardinality(S)
  OBVIOUS
<1>2. n \in Nat /\ ExistsBijection(1 .. n, S)
  BY <1>1, FS_CardinalityType
<1>3. \E f \in [1 .. n -> S] : IsInjective(f)
  BY <1>2 DEF ExistsBijection, Bijection, Injection, IsInjective
<1>4. SetToSeq(S) \in [1 .. n -> S]
  <2>1. SetToSeq(S) = CHOOSE f \in [1 .. n -> S] : IsInjective(f)
    BY <1>1 DEF SetToSeq
  <2> QED
    BY <1>3, <2>1
<1>5. PICK q : q = SetToSeq(S)
  OBVIOUS
<1>6. q \in Seq(S) /\ Len(q) = n
  BY <1>2, <1>4, <1>5
<1> QED
  BY <1>1, <1>2, <1>5, <1>6

(* Our own list is in order.                                               *)
LEMMA OursInOrder ==
  ASSUME NEW s, IsFiniteSet(OurElements(s)), OurElements(s) \subseteq Nat
  PROVE  InOrder(our_proposal(s))
<1>1. PICK S, q : S = OurElements(s) /\ q = SetToSeq(S)
  OBVIOUS
<1>2. q \in Seq(S) /\ S \subseteq Int
  BY <1>1, ListsTheSet
<1>3. q \in Seq(Int)
  <2>1. Len(q) \in Nat /\ q = [i \in 1 .. Len(q) |-> q[i]] /\ \A i \in 1 .. Len(q) : q[i] \in Int
    BY <1>2
  <2> QED
    BY <2>1
<1>4. InOrder(Sorted(q))
  BY <1>3, SortedIsInOrder
<1> QED
  BY <1>1, <1>4 DEF our_proposal

(* What the peer offers for a name is a list of elements.                  *)
LEMMA TheirsAreElements ==
  ASSUME NEW m, Legible(m), NEW s, ~Abandons(m, s),
         \A r \in ToSet(m.authority) \ {Junk} : Element(r.rtype, r.rdata) \in Nat
  PROVE  PeerElements(m, s) \in Seq(Int)
<1>1. PICK q, O, p : q = Read(m, "authority") /\ O = Offered(m, s) /\ p = SetToSeq(O)
  OBVIOUS
<1>2. "authority" \in DOMAIN Before
  BY DEF Before
<1>3. /\ Len(q) \in Nat /\ DOMAIN q = 1 .. Len(q)
      /\ \A i \in 1 .. Len(q) : i \in DOMAIN m.authority /\ q[i] = m.authority[i]
  BY <1>1, <1>2, ReadYields
<1>4. \A i \in DOMAIN q : q[i] # Junk /\ Element(q[i].rtype, q[i].rdata) \in Int
  <2>1. TAKE i \in DOMAIN q
  <2>2. q[i] # Junk
    BY <1>1, <2>1 DEF Abandons, ToSet
  <2>3. q[i] \in ToSet(m.authority)
    BY <1>3, <2>1 DEF ToSet
  <2>4. Element(q[i].rtype, q[i].rdata) \in Nat
    BY <2>2, <2>3
  <2> QED
    BY <2>2, <2>4
<1>5. O \in SUBSET (1 .. Len(q)) /\ O \subseteq DOMAIN q
  BY <1>1, <1>3 DEF Offered
<1>6. IsFiniteSet(O)
  <2>1. IsFiniteSet(1 .. Len(q))
    BY <1>3, FS_Interval
  <2> QED
    BY <1>5, <2>1, FS_Subset
<1>7. PICK n : n = Cardinality(O)
  OBVIOUS
<1>8. n \in Nat /\ p \in Seq(O) /\ Len(p) = n
  BY <1>1, <1>6, <1>7, ListsTheSet
<1>9. p \in Seq(Int)
  BY <1>3, <1>5, <1>8
<1>10. \A i \in 1 .. n : Sorted(p)[i] \in O
  <2>1. \A i \in 1 .. n : Sorted(p)[i] \in ToSet(p)
    BY <1>8, <1>9, SortedFolds
  <2>2. \A x \in ToSet(p) : x \in O
    BY <1>8 DEF ToSet
  <2> QED
    BY <2>1, <2>2
<1> DEFINE El(i) == LET r == q[Sorted(p)[i]] IN Element(r.rtype, r.rdata)
<1>11. \A i \in 1 .. n : El(i) \in Int
  BY <1>4, <1>5, <1>10
<1>12. PeerElements(m, s) = [i \in 1 .. n |-> El(i)]
  BY <1>1, <1>7 DEF PeerElements
<1> HIDE DEF El
<1> QED
  BY <1>8, <1>11, <1>12

(* What is assumed of the tables and packets, of the ones at hand.         *)
LEMMA OfTheTable ==
  ASSUME Handled, NEW k \in Services
  PROVE  /\ k \in DOMAIN table.services
         /\ IsFiniteSet(OurElements(service(k))) /\ OurElements(service(k)) \subseteq Nat
         /\ Legible(msg)
         /\ \A r \in ToSet(msg.authority) \ {Junk} : Element(r.rtype, r.rdata) \in Nat
<1>1. k \in DOMAIN table.services /\ table \in Tables
  BY DEF Handled, Services
<1>2. service(k) \in ToSet(table.services)
  BY <1>1 DEF service, ToSet
<1>3. IsFiniteSet(OurElements(service(k))) /\ OurElements(service(k)) \subseteq Nat
  BY <1>1, <1>2, RoutingAssumption
<1>4. Legible(msg) /\ \A r \in ToSet(msg.authority) \ {Junk} : Element(r.rtype, r.rdata) \in Nat
  BY RoutingAssumption DEF Handled, msg, Legible
<1> QED
  BY <1>1, <1>3, <1>4

(* Of two hosts that judge each other's probe, one yields.                 *)
LEMMA OneYields ==
  ASSUME RoutingInv
  PROVE  OneProberYields
<1>1. SUFFICES ASSUME at.section = "done", Proposes,
                      NEW k \in Services, ~Abandons(msg, service(k)),
                      NEW ours, ours = our_proposal(service(k)),
                      NEW theirs, theirs = Sorted(PeerElements(msg, service(k)))
               PROVE  /\ Compare(theirs, ours) = Compare(PeerElements(msg, service(k)), ours)
                      /\ ours # theirs => (Compare(theirs, ours) <=> ~Compare(ours, theirs))
                      /\ ours = theirs => ~Compare(theirs, ours)
  BY DEF OneProberYields
<1>2. ~all_denied(admitted)
  BY <1>1 DEF Proposes, all_denied, Nothing
<1>3. Handled
  BY <1>1, <1>2 DEF RoutingInv
<1>4. IsFiniteSet(OurElements(service(k))) /\ OurElements(service(k)) \subseteq Nat
  BY <1>1, <1>3, OfTheTable
<1>5. Legible(msg) /\ \A r \in ToSet(msg.authority) \ {Junk} : Element(r.rtype, r.rdata) \in Nat
  BY <1>1, <1>3, OfTheTable
<1>6. InOrder(ours)
  BY <1>1, <1>4, OursInOrder
<1>7. PICK P : P = PeerElements(msg, service(k))
  OBVIOUS
<1>8. P \in Seq(Int)
  BY <1>1, <1>5, <1>7, TheirsAreElements
<1>9. InOrder(theirs)
  BY <1>1, <1>7, <1>8, SortedIsInOrder
<1>10. Compare(theirs, ours) = Compare(P, ours)
  <2>1. Len(ours) \in Nat
    BY <1>6 DEF InOrder
  <2>2. Folded(theirs, Len(ours)) = Folded(P, Len(ours))
    BY <1>1, <1>7, <1>8, <2>1, FoldsAgree
  <2> QED
    BY <2>2 DEF Compare
<1>11. /\ ours # theirs => (Compare(theirs, ours) <=> ~Compare(ours, theirs))
       /\ ours = theirs => ~Compare(theirs, ours)
  BY <1>6, <1>9, OneIsLater
<1> QED
  BY <1>7, <1>10, <1>11

(***************************************************************************)
(* ProposalFold, run by two hosts on each other's proposals for one name,  *)
(* makes exactly one of them yield, unless the two record sets are the     *)
(* same: folding in wire order and in the space of one's own list decides  *)
(* what comparing the two sorted lists would.                              *)
(***************************************************************************)
THEOREM ProbersAgree == RouteSpec => []OneProberYields
<1>1. RouteInit => RoutingInv
  BY DEF RouteInit, RouteIdle, RoutingInv, Enter
<1>2. RoutingInv /\ [RouteNext]_routeVars => RoutingInv'
  BY RoutingStays
<1>3. RoutingInv => OneProberYields
  BY OneYields
<1> QED
  BY <1>1, <1>2, <1>3, PTL DEF RouteSpec

-----------------------------------------------------------------------------
(* The router's reading of a probe against the judge's.                    *)

(* Whoever has a record of theirs judged has been handed the proposal.     *)
LEMMA OursIsHandedOver ==
  ASSUME NEW m, Legible(m), NEW s, ~Abandons(m, s),
         NEW k \in DOMAIN Read(m, "authority"), admits(m, s.name, Read(m, "authority")[k]) = "Ours"
  PROVE  authority_proposes_for(m, s.name)
<1>1. PICK q : q = Read(m, "authority")
  OBVIOUS
<1>2. Len(q) \in Nat /\ DOMAIN q = 1 .. Len(q)
  <2>1. "authority" \in DOMAIN Before
    BY DEF Before
  <2> QED
    BY <1>1, <2>1, ReadYields
<1>3. \A i \in DOMAIN q : q[i] # Junk /\ admits(m, s.name, q[i]) # "Unreadable"
  BY <1>1 DEF Abandons, ToSet
<1>4. \A r : admits(m, s.name, r) \in {"NotOurs", "Unreadable", "Ours"}
  BY DEF admits
<1>5. PICK I : I = {i \in 1 .. Len(q) : q[i] = Junk \/ admits(m, s.name, q[i]) # "NotOurs"}
  OBVIOUS
<1>6. PICK n : n = IF I # {} THEN Min(I) ELSE 0
  OBVIOUS
<1>7. n \in I
  <2>1. k \in I
    BY <1>1, <1>2, <1>5
  <2>2. I \in SUBSET Nat
    BY <1>2, <1>5
  <2> QED
    BY <1>6, <2>1, <2>2, MinIsLeast
<1>8. n # 0 /\ n \in DOMAIN q /\ q[n] # Junk /\ admits(m, s.name, q[n]) = "Ours"
  BY <1>2, <1>3, <1>4, <1>5, <1>7
<1>9. n = SelectInSeq(q, LAMBDA r : r = Junk \/ admits(m, s.name, r) # "NotOurs")
  BY <1>5, <1>6 DEF SelectInSeq
<1> QED
  BY <1>1, <1>8, <1>9 DEF authority_proposes_for

(* A peer that offers nothing does not win.                                *)
LEMMA NothingOfferedLoses ==
  ASSUME NEW ours, Len(ours) \in Nat
  PROVE  ~Compare(<<>>, ours)
<1> DEFINE Runs(f) == f = [n \in 0 .. Len(<<>>) |-> IF n = 0 THEN NewFold(Len(ours)) ELSE offer(f[n - 1], <<>>[n])]
           fold == CHOOSE f : Runs(f)
           g == [n \in 0 .. 0 |-> NewFold(Len(ours))]
<1>1. Len(<<>>) = 0 /\ 0 .. 0 = {0}
  OBVIOUS
<1>2. Runs(g)
  BY <1>1
<1>3. Runs(fold)
  <2> HIDE DEF Runs, g
  <2> QED
    BY <1>2
<1>4. Folded(<<>>, Len(ours)) = fold[Len(<<>>)]
  BY DEF Folded
<1>5. fold[0] = NewFold(Len(ours))
  <2> HIDE DEF fold
  <2>1. 0 \in 0 .. Len(<<>>)
    BY <1>1
  <2> QED
    BY <1>3, <2>1
<1>6. Folded(<<>>, Len(ours)) = [smallest |-> <<>>, count |-> 0, keep |-> Len(ours)]
  <2> HIDE DEF fold
  <2> QED
    BY <1>1, <1>4, <1>5 DEF NewFold
<1>7. PICK w : w = Folded(<<>>, Len(ours))
  OBVIOUS
<1>8. w.smallest = <<>> /\ w.count = 0
  BY <1>6, <1>7
<1>9. ~peer_wins(w, ours)
  <2>1. {i \in {j \in DOMAIN w.smallest : j \in DOMAIN ours} : w.smallest[i] # ours[i]} = {}
    BY <1>8
  <2>2. ~(w.count > Len(ours))
    BY <1>8
  <2> QED
    BY <2>1, <2>2 DEF peer_wins
<1> QED
  BY <1>7, <1>9 DEF Compare

(* Whoever the comparison defeats has been handed the proposal.            *)
LEMMA DefeatIsProposed ==
  ASSUME NEW m, Legible(m), NEW s, IsFiniteSet(OurElements(s)), OurElements(s) \subseteq Nat,
         adjudicate(m, s) = "PeerWins"
  PROVE  authority_proposes_for(m, s.name)
<1>1. ~Abandons(m, s) /\ Compare(PeerElements(m, s), our_proposal(s))
  BY DEF adjudicate
<1>2. CASE Offered(m, s) = {}
  <2>1. Cardinality(Offered(m, s)) = 0
    BY <1>2, FS_EmptySet
  <2>2. PeerElements(m, s) = <<>>
    BY <2>1 DEF PeerElements
  <2>3. Len(our_proposal(s)) \in Nat
    BY OursInOrder DEF InOrder
  <2> QED
    BY <1>1, <2>2, <2>3, NothingOfferedLoses
<1>3. CASE Offered(m, s) # {}
  BY <1>1, <1>3, OursIsHandedOver DEF Offered
<1> QED
  BY <1>2, <1>3

(* So a defeat was routed.                                                 *)
LEMMA DefeatsAreRouted ==
  ASSUME RoutingInv
  PROVE  DefeatsReachTheJudge
<1>1. SUFFICES ASSUME at.section = "done", Proposes, NEW k \in Services,
                      adjudicate(msg, service(k)) = "PeerWins"
               PROVE  \E i \in DOMAIN routed : routed[i].to = k /\ routed[i].what = "ProbeProposal"
  BY DEF DefeatsReachTheJudge
<1>2. ~all_denied(admitted)
  BY <1>1 DEF Proposes, all_denied, Nothing
<1>3. Handled
  BY <1>1, <1>2 DEF RoutingInv
<1>4. ToSet(routed) = {e \in Events : Concerns(e)}
  BY <1>1, <1>2, RoutesAll DEF RoutesExactly
<1>5. /\ Legible(msg) /\ k \in DOMAIN table.services
      /\ IsFiniteSet(OurElements(service(k))) /\ OurElements(service(k)) \subseteq Nat
  BY <1>1, <1>3, OfTheTable
<1>6. k \in proposed_to
  BY <1>1, <1>5, DefeatIsProposed DEF proposed_to
<1>7. PICK e : e = [to |-> k, what |-> "ProbeProposal", section |-> "proposals", idx |-> 1]
  OBVIOUS
<1>8. e \in Events /\ Concerns(e)
  BY <1>1, <1>5, <1>6, <1>7, AnEvent DEF Concerns, Kinds
<1>9. e \in ToSet(routed)
  BY <1>4, <1>8
<1>10. PICK i \in DOMAIN routed : routed[i] = e
  BY <1>9 DEF ToSet
<1> QED
  BY <1>7, <1>10

(***************************************************************************)
(* Whenever `adjudicate` would yield a name to a probe,                    *)
(* authority_proposes_for has had RouteEvents hand that probe to the       *)
(* service that holds it.                                                  *)
(***************************************************************************)
THEOREM DefeatsHeard == RouteSpec => []DefeatsReachTheJudge
<1>1. RouteInit => RoutingInv
  BY DEF RouteInit, RouteIdle, RoutingInv, Enter
<1>2. RoutingInv /\ [RouteNext]_routeVars => RoutingInv'
  BY RoutingStays
<1>3. RoutingInv => DefeatsReachTheJudge
  BY DefeatsAreRouted
<1> QED
  BY <1>1, <1>2, <1>3, PTL DEF RouteSpec

=============================================================================
