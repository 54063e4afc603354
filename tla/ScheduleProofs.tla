--------------------------- MODULE ScheduleProofs ---------------------------
(***************************************************************************)
(* TLAPS proofs about the delivery accounting of Schedule, for the proofs  *)
(* about the services and the queries that use it.                         *)
(***************************************************************************)
EXTENDS Schedule, WellFoundedInduction, NaturalsInduction, TLAPS

(* The verdict on a round never leaves the range of FamilyPatience: the    *)
(* miss count is capped and only the stall latch survives a phase.         *)
LEMMA PatienceType ==
  ASSUME NEW p \in [Families -> FamilyPatience], NEW attempts
  PROVE  PatienceAfter(p, attempts) \in [Families -> FamilyPatience]
<1> USE ScheduleAssumption
<1>1. FreshPatience \in FamilyPatience
  BY DEF FreshPatience, FamilyPatience
<1>2. ASSUME NEW f \in Families, NEW b \in BOOLEAN
      PROVE  Charged(p[f], b) \in FamilyPatience
  <2>1. p[f] \in FamilyPatience
    OBVIOUS
  <2> QED
    BY <2>1 DEF Charged, FamilyPatience, Sooner
<1>3. [f \in Families |-> Charged(p[f], f \notin Missed(attempts))]
        \in [Families -> FamilyPatience]
  BY <1>2
<1>4. ASSUME NEW f \in Families
      PROVE  [missed |-> 0, covered |-> FALSE,
              stalled |-> Charged(p[f], f \notin Missed(attempts)).stalled
                            \/ ~Charged(p[f], f \notin Missed(attempts)).covered]
               \in FamilyPatience
  BY DEF FamilyPatience
<1>5. CASE AdvanceOf(p, attempts) = "Failed"
  BY <1>1, <1>5 DEF PatienceAfter
<1>6. CASE AdvanceOf(p, attempts) = "Partial"
  BY <1>3, <1>6 DEF PatienceAfter
<1>7. CASE AdvanceOf(p, attempts) \notin {"Failed", "Partial"}
  BY <1>4, <1>7 DEF PatienceAfter
<1> QED
  BY <1>5, <1>6, <1>7

(* classify_advance has five verdicts, and only a round nobody heard is    *)
(* a failed one.                                                           *)
LEMMA FiveVerdicts ==
  ASSUME NEW p, NEW attempts
  PROVE  /\ AdvanceOf(p, attempts) \in {"Failed", "Delivered", "Covered", "Excused", "Partial"}
         /\ AdvanceOf(p, attempts) = "Failed" <=> Delivered(attempts) = {}
BY DEF AdvanceOf

-----------------------------------------------------------------------------
(* Deadlines.                                                              *)

(***************************************************************************)
(* An instant the clock can express, or none.                              *)
(***************************************************************************)
Deadline == {d \in Int : d <= MaxInstant} \cup {None}

(* A checked addition is the sum, and nothing past the end of the clock.   *)
LEMMA CheckedAdd ==
  ASSUME NEW t \in Int, NEW d \in Int
  PROVE  /\ checked_add(t, d) \in Deadline
         /\ checked_add(t, d) # None => checked_add(t, d) = t + d
         /\ checked_add(t, d) = None => t + d > MaxInstant
BY ClockAssumption DEF checked_add, Deadline

(* A nonempty set of instants has an earliest.                             *)
LEMMA EarliestExists ==
  ASSUME NEW S \in SUBSET Nat, S # {}
  PROVE  /\ (CHOOSE x \in S : \A y \in S : x <= y) \in S
         /\ \A y \in S : (CHOOSE x \in S : \A z \in S : x <= z) <= y
<1>1. PICK x \in S : \A y \in S : ~(<<y, x>> \in OpToRel(<, Nat))
  BY NatLessThanWellFounded, WFMin
<1>2. \A y \in S : x <= y
  <2> TAKE y \in S
  <2>1. x \in Nat /\ y \in Nat
    OBVIOUS
  <2>2. ~(y < x)
    BY <1>1, <2>1 DEF OpToRel
  <2> QED
    BY <2>1, <2>2
<1> QED
  BY <1>2

(* Every wait the service arms is a number of ticks.                       *)
LEMMA Waits ==
  /\ PROBE_INTERVAL \in Nat /\ ANNOUNCE_INTERVAL \in Nat /\ RefreshWait \in Nat
  /\ ANNOUNCE_INTERVAL <= RefreshWait
BY ScheduleAssumption DEF RefreshWait, Later

(* The ladder's rungs never reach past the refresh.                        *)
LEMMA RungType ==
  ASSUME NEW t \in Int, NEW rung \in Nat
  PROVE  /\ partial_announce_deadline(t, rung) \in Deadline
         /\ partial_announce_deadline(t, rung) = None => t + RefreshWait > MaxInstant
<1> DEFINE wait == Sooner(ANNOUNCE_INTERVAL * 2^rung, RefreshWait)
<1>1. 2^rung \in Int
  BY SMT
<1>2. ANNOUNCE_INTERVAL * 2^rung \in Int
  BY <1>1, Waits
<1>3. wait \in Int /\ wait <= RefreshWait
  BY <1>2, Waits DEF Sooner
<1> HIDE DEF wait
<1>4. partial_announce_deadline(t, rung) = checked_add(t, wait)
  BY DEF partial_announce_deadline, wait
<1> QED
  BY <1>3, <1>4, CheckedAdd, Waits, ClockAssumption

(* The random wait before a first probe is no longer than the interval     *)
(* between probes.                                                         *)
LEMMA ProbeWait ==
  ASSUME NEW t \in Int, NEW n, NEW d \in probe_deadlines(t, n)
  PROVE  /\ d \in Deadline
         /\ d = None => t + PROBE_INTERVAL > MaxInstant
<1>1. PICK w \in 0 .. PROBE_INTERVAL : d = checked_add(t, w)
  BY ScheduleAssumption DEF probe_deadlines
<1> QED
  BY <1>1, CheckedAdd, Waits, ClockAssumption

(* The time each announcement deadline is armed for.                       *)
LEMMA AnnounceWaits ==
  ASSUME NEW t \in Int, NEW n
  PROVE  /\ announce_deadline(t, n) \in Deadline
         /\ re_announce_deadline(t) \in Deadline
         /\ announce_deadline(t, n) = None => t + RefreshWait > MaxInstant
         /\ re_announce_deadline(t) = None => t + RefreshWait > MaxInstant
         /\ n = 0 /\ t <= MaxInstant => announce_deadline(t, n) = t
         /\ n = 1 /\ announce_deadline(t, n) # None
              => announce_deadline(t, n) = t + ANNOUNCE_INTERVAL
         /\ re_announce_deadline(t) # None => re_announce_deadline(t) = t + RefreshWait
<1>1. \A d \in {0, ANNOUNCE_INTERVAL, RefreshWait} :
        /\ checked_add(t, d) \in Deadline
        /\ checked_add(t, d) # None => checked_add(t, d) = t + d
        /\ checked_add(t, d) = None => t + d > MaxInstant
  <2> \A d \in {0, ANNOUNCE_INTERVAL, RefreshWait} : d \in Int
    BY Waits
  <2> QED
    BY CheckedAdd
<1>2. t <= MaxInstant => checked_add(t, 0) = t
  BY DEF checked_add
<1> QED
  BY <1>1, <1>2, Waits, ClockAssumption DEF announce_deadline, re_announce_deadline

(* The refresh due first is due no later than that of any family in good   *)
(* standing whose refresh the clock can express.                           *)
LEMMA StalestDue ==
  ASSUME NEW delivered \in [Families -> Nat \cup {None}], NEW pat
  PROVE  LET due == stalest_refresh_due(delivered, pat)
         IN /\ due \in Nat \cup {None}
            /\ \A f \in Families :
                 (/\ delivered[f] # None /\ ~pat[f].stalled
                  /\ delivered[f] + RefreshWait <= MaxInstant)
                 => due # None /\ due <= delivered[f] + RefreshWait
<1> DEFINE good == {g \in Families : ~pat[g].stalled /\ delivered[g] # None}
           dues == {re_announce_deadline(delivered[f]) : f \in good} \ {None}
<1>1. \A f \in good : delivered[f] \in Nat
  OBVIOUS
<1>2. dues \in SUBSET Nat
  <2> SUFFICES ASSUME NEW f \in good, re_announce_deadline(delivered[f]) # None
               PROVE  re_announce_deadline(delivered[f]) \in Nat
    OBVIOUS
  <2> QED
    BY <1>1, Waits DEF re_announce_deadline, checked_add
<1>3. ASSUME NEW f \in good, delivered[f] + RefreshWait <= MaxInstant
      PROVE  delivered[f] + RefreshWait \in dues
  <2>1. re_announce_deadline(delivered[f]) = delivered[f] + RefreshWait
    BY <1>3 DEF re_announce_deadline, checked_add
  <2>2. delivered[f] + RefreshWait # None
    BY <1>1, Waits, ClockAssumption
  <2> QED
    BY <2>1, <2>2
<1>4. stalest_refresh_due(delivered, pat) =
        IF dues = {} THEN None ELSE CHOOSE d \in dues : \A e \in dues : d <= e
  BY DEF stalest_refresh_due
<1> HIDE DEF dues
<1>5. dues # {} => /\ stalest_refresh_due(delivered, pat) \in dues
                   /\ \A e \in dues : stalest_refresh_due(delivered, pat) <= e
  <2> SUFFICES ASSUME dues # {}
               PROVE  LET d == CHOOSE d \in dues : \A e \in dues : d <= e
                      IN d \in dues /\ \A e \in dues : d <= e
    BY <1>4
  <2> QED
    BY <1>2, EarliestExists
<1>6. stalest_refresh_due(delivered, pat) \in Nat \cup {None}
  BY <1>2, <1>4, <1>5
<1>7. ASSUME NEW f \in Families, delivered[f] # None, ~pat[f].stalled,
             delivered[f] + RefreshWait <= MaxInstant
      PROVE  /\ stalest_refresh_due(delivered, pat) # None
             /\ stalest_refresh_due(delivered, pat) <= delivered[f] + RefreshWait
  <2>1. PICK r \in dues : r = delivered[f] + RefreshWait
    BY <1>3, <1>7
  <2>2. stalest_refresh_due(delivered, pat) \in dues /\ stalest_refresh_due(delivered, pat) <= r
    BY <1>5
  <2>3. \A x \in dues : x \in Int /\ x # None
    BY <1>2, ClockAssumption
  <2> QED
    BY <2>1, <2>2, <2>3
<1> QED
  BY <1>6, <1>7

(* A composed deadline is the base brought forward to the stalest refresh  *)
(* or pushed back to one interval from now.                                *)
LEMMA ComposedDeadline ==
  ASSUME NEW t \in Nat, NEW base \in Deadline, NEW due \in Nat \cup {None}
  PROVE  LET d == compose_announce_deadline(t, base, due)
         IN /\ d \in Deadline
            /\ d = None <=> base = None
            /\ d # None /\ due # None => d <= due \/ d <= t + ANNOUNCE_INTERVAL
<1> DEFINE floor == announce_deadline(t, 1)
           capped == EarlierOf(base, due)
<1>1. floor \in Deadline /\ (floor # None => floor = t + ANNOUNCE_INTERVAL)
  BY AnnounceWaits
<1>2. CASE base = None
  BY <1>2 DEF compose_announce_deadline, Deadline
<1>3. CASE base # None
  <2>1. /\ capped \in Int /\ capped <= MaxInstant /\ capped # None
        /\ due # None => capped <= due
    BY <1>3, ClockAssumption DEF EarlierOf, Sooner, Deadline
  <2>2. compose_announce_deadline(t, base, due) =
          IF floor # None /\ capped < floor THEN floor ELSE capped
    BY <1>3 DEF compose_announce_deadline
  <2> HIDE DEF floor, capped
  <2> QED
    BY <1>1, <1>3, <2>1, <2>2, ClockAssumption DEF Deadline
<1> QED
  BY <1>2, <1>3

=============================================================================
