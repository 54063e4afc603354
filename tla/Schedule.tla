------------------------------ MODULE Schedule ------------------------------
(***************************************************************************)
(* Timing and per-family delivery accounting of a service's startup        *)
(* (mdns-proto/src/service/schedule.rs and the vocabulary of transmit.rs). *)
(*                                                                         *)
(* A datagram is fanned out to every address family.  The driver reports   *)
(* one FamilyAttempt per family; `classify_advance` decides whether the    *)
(* RFC 6762 section 8 phase moves on, and how much patience each family    *)
(* that keeps missing has left.                                            *)
(***************************************************************************)
EXTENDS Clock, FiniteSets

CONSTANTS Families,                     \* address families a datagram fans out to
          PROBE_INTERVAL,               \* 250 ms
          INITIAL_PROBE_WAIT_MAX,       \* 250 ms, the random wait before probe 0
          TIEBREAK_DEFER_WAIT,          \* 1 s
          ANNOUNCE_INTERVAL,            \* 1 s
          RefreshInterval,              \* 80% of the records' TTL
          MAX_PARTIAL_ANNOUNCE_SHIFT,   \* 6: the top rung of the ladder
          MAX_PARTIAL_ROUNDS            \* 2: misses a family is waited for

ASSUME ScheduleAssumption ==
  /\ IsFiniteSet(Families) /\ Families # {}
  /\ PROBE_INTERVAL \in Nat \ {0}
  /\ INITIAL_PROBE_WAIT_MAX \in 0 .. PROBE_INTERVAL
  /\ TIEBREAK_DEFER_WAIT \in Nat
  /\ ANNOUNCE_INTERVAL \in Nat \ {0}
  /\ RefreshInterval \in Nat
  /\ MAX_PARTIAL_ANNOUNCE_SHIFT \in Nat
  /\ MAX_PARTIAL_ROUNDS \in Nat

-----------------------------------------------------------------------------
(* Deadlines.                                                              *)

(***************************************************************************)
(* probe_deadline: the random wait before probe 0 makes it a set.          *)
(***************************************************************************)
probe_deadlines(t, n) ==
  {checked_add(t, w) : w \in IF n = 0 THEN 0 .. INITIAL_PROBE_WAIT_MAX ELSE {PROBE_INTERVAL}}

ProbeRetryForgotten(t) == None

probe_retry_deadline(t) == checked_add(t, PROBE_INTERVAL)

announce_deadline(t, n) == checked_add(t, IF n = 0 THEN 0 ELSE ANNOUNCE_INTERVAL)

RefreshWait == Later(RefreshInterval, ANNOUNCE_INTERVAL)

re_announce_deadline(t) == checked_add(t, RefreshWait)

(***************************************************************************)
(* The exponential ladder a partly heard announcement climbs.  Streaks     *)
(* past the top rung are all on the top rung, so Rung is the streak.       *)
(***************************************************************************)
Rungs == 0 .. MAX_PARTIAL_ANNOUNCE_SHIFT

NextRung(streak) == Sooner(streak + 1, MAX_PARTIAL_ANNOUNCE_SHIFT)

partial_announce_deadline(t, streak) ==
  checked_add(t, Sooner(ANNOUNCE_INTERVAL * 2^streak, RefreshWait))

ComposeUncapped(t, base, due) ==
  LET floor == announce_deadline(t, 1)
  IN IF base # None /\ floor # None /\ base < floor THEN floor ELSE base

(***************************************************************************)
(* compose_announce_deadline: never later than the stalest family's        *)
(* refresh, never sooner than one announcement interval from now.          *)
(***************************************************************************)
compose_announce_deadline(t, base, due) ==
  LET floor == announce_deadline(t, 1)
      capped == EarlierOf(base, due)
  IN IF base = None THEN None
     ELSE IF floor # None /\ capped < floor THEN floor ELSE capped

-----------------------------------------------------------------------------
(* Delivery.                                                               *)

(***************************************************************************)
(* FamilyAttempt.  WouldBlock reads as a transient refusal and             *)
(* NotAddressed as an absent socket; the core makes no other distinction.  *)
(***************************************************************************)
Attempt == {"accepted", "refused", "refused_permanent", "gate_shut", "no_socket"}

Delivered(attempts)   == {f \in Families : attempts[f] = "accepted"}
Unobligated(attempts) == {f \in Families : attempts[f] = "no_socket"}
Missed(attempts)      == Families \ (Delivered(attempts) \cup Unobligated(attempts))

(***************************************************************************)
(* FamilyAttempt::undeliverable: some family refused for good and none is  *)
(* left that might still carry the datagram.                               *)
(***************************************************************************)
undeliverable(attempts) ==
  /\ \E f \in Families : attempts[f] = "refused_permanent"
  /\ \A f \in Families : attempts[f] \in {"refused_permanent", "no_socket"}

(***************************************************************************)
(* FamilyPatience.  A count past MAX_PARTIAL_ROUNDS is never told apart    *)
(* from one at it.                                                         *)
(***************************************************************************)
FamilyPatience == [missed : 0 .. MAX_PARTIAL_ROUNDS, covered : BOOLEAN, stalled : BOOLEAN]

FreshPatience == [missed |-> 0, covered |-> FALSE, stalled |-> FALSE]

(***************************************************************************)
(* What one round does to one family's patience.                           *)
(***************************************************************************)
Charged(p, heard) ==
  IF heard THEN [missed |-> 0, covered |-> TRUE, stalled |-> FALSE]
  ELSE IF p.covered THEN p
  ELSE [missed |-> Sooner(p.missed + 1, MAX_PARTIAL_ROUNDS), covered |-> FALSE,
        stalled |-> p.stalled]

AwaitedForever(p) == ~p.covered /\ ~p.stalled

(***************************************************************************)
(* A family still worth waiting for: it has missed this phase, was heard   *)
(* before, and has patience left.                                          *)
(***************************************************************************)
StillAwaited(p) == ~p.covered /\ ~p.stalled /\ p.missed < MAX_PARTIAL_ROUNDS

(***************************************************************************)
(* classify_advance: the verdict on a round, and the patience after it.    *)
(***************************************************************************)
AdvanceOf(patience, attempts) ==
  LET missed == Missed(attempts)
  IN IF Delivered(attempts) = {} THEN "Failed"
     ELSE IF missed = {} THEN "Delivered"
     ELSE IF \A f \in missed : patience[f].covered THEN "Covered"
     ELSE IF \A f \in missed : ~StillAwaited(patience[f]) THEN "Excused"
     ELSE "Partial"

Advances(advance) == advance \in {"Delivered", "Covered", "Excused"}

PatienceAfter(patience, attempts) ==
  LET advance == AdvanceOf(patience, attempts)
      charged == [f \in Families |-> Charged(patience[f], f \notin Missed(attempts))]
  IN IF advance = "Failed"
       THEN [f \in Families |-> IF f \in Unobligated(attempts) THEN FreshPatience
                                ELSE patience[f]]
     ELSE IF advance = "Partial" THEN charged
     ELSE [f \in Families |-> [missed |-> 0, covered |-> FALSE,
                               stalled |-> charged[f].stalled \/ ~charged[f].covered]]

(***************************************************************************)
(* stalest_refresh_due over the families in good standing.                 *)
(***************************************************************************)
stalest_refresh_due(last_delivered, patience) ==
  LET dues == {re_announce_deadline(last_delivered[f]) :
                 f \in {g \in Families : ~patience[g].stalled /\ last_delivered[g] # None}}
              \ {None}
  IN IF dues = {} THEN None ELSE CHOOSE d \in dues : \A e \in dues : d <= e

=============================================================================
