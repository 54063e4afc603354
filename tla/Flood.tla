------------------------------- MODULE Flood --------------------------------
(***************************************************************************)
(* The endpoint-wide conflict-flood limit of RFC 6762 section 8.1          *)
(* (mdns-proto/src/endpoint/flood.rs, ConflictFlood) as operators on a     *)
(* record: a ring of the last CONFLICT_BURST_LEN conflict instants, the    *)
(* next slot to write, the epoch the limit latched at, and the owner names *)
(* already counted for the datagram being handled.                         *)
(*                                                                         *)
(* DatagramIds only ever tell "the datagram being handled" from "the next  *)
(* one", so `accept` takes that as a Boolean.                              *)
(***************************************************************************)
EXTENDS Clock

CONSTANTS CONFLICT_BURST_LEN,          \* conflicts that make a burst (15)
          CONFLICT_BURST_WINDOW,       \* ticks they must fall within (10 s)
          CONFLICT_BACKOFF_MIN_WAIT,   \* the wait before each probe (5 s)
          Owners                       \* names conflicts are counted under

ASSUME FloodAssumption ==
  /\ CONFLICT_BURST_LEN \in Nat \ {0}
  /\ CONFLICT_BURST_WINDOW \in Nat
  /\ CONFLICT_BACKOFF_MIN_WAIT \in Nat

Slots == 0 .. CONFLICT_BURST_LEN - 1

NewFlood == [ring |-> [i \in Slots |-> None], slot |-> 0,
             latched_at |-> None, accepted |-> {}]

(***************************************************************************)
(* `slot` is the next one to write; the newest entry is one before it.     *)
(***************************************************************************)
newest(f) == f.ring[IF f.slot = 0 THEN CONFLICT_BURST_LEN - 1 ELSE f.slot - 1]

(***************************************************************************)
(* A conflict more than a window after the last one starts a new burst.    *)
(***************************************************************************)
Lapsed(f, t) == newest(f) # None /\ t - newest(f) > CONFLICT_BURST_WINDOW

CountSlidingEpoch(f, t) ==
  LET base == IF Lapsed(f, t) THEN [NewFlood EXCEPT !.accepted = f.accepted] ELSE f
      ring == [base.ring EXCEPT ![base.slot] = t]
      slot == (base.slot + 1) % CONFLICT_BURST_LEN
      full == ring[slot] # None /\ t - ring[slot] <= CONFLICT_BURST_WINDOW
  IN [ring |-> ring, slot |-> slot, accepted |-> base.accepted,
      latched_at |-> IF full THEN t ELSE base.latched_at]

(***************************************************************************)
(* Write t into the ring, and latch when the slot after it, the oldest of  *)
(* a full ring, is within the window.  The epoch is stamped once.          *)
(***************************************************************************)
Count(f, t) ==
  LET base == IF Lapsed(f, t) THEN [NewFlood EXCEPT !.accepted = f.accepted] ELSE f
      ring == [base.ring EXCEPT ![base.slot] = t]
      slot == (base.slot + 1) % CONFLICT_BURST_LEN
      full == ring[slot] # None /\ t - ring[slot] <= CONFLICT_BURST_WINDOW
  IN [ring |-> ring, slot |-> slot, accepted |-> base.accepted,
      latched_at |-> IF full /\ base.latched_at = None THEN t ELSE base.latched_at]

AcceptEveryRecord(f, t, fresh, owner) ==
  Count([f EXCEPT !.accepted = {}], t)

(***************************************************************************)
(* ConflictFlood::accept: one conflict per owner name per datagram.        *)
(***************************************************************************)
accept(f, t, fresh, owner) ==
  LET seen == IF fresh THEN {} ELSE f.accepted
  IN IF owner \in seen THEN [f EXCEPT !.accepted = seen]
     ELSE Count([f EXCEPT !.accepted = seen \cup {owner}], t)

(***************************************************************************)
(* ConflictFlood::latch_epoch: the epoch while the limit is in force, that *)
(* is until a window passes with no conflict.                              *)
(***************************************************************************)
latch_epoch(f, t) ==
  IF newest(f) # None /\ t - newest(f) <= CONFLICT_BURST_WINDOW THEN f.latched_at ELSE None

in_force(f, t) == latch_epoch(f, t) # None

=============================================================================
