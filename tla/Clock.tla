------------------------------- MODULE Clock --------------------------------
(***************************************************************************)
(* The driver's monotonic clock as mdns-proto sees it: the Instant trait   *)
(* (`checked_add_duration`, `checked_duration_since`).  Instants are ticks *)
(* 0..MaxInstant.  A clock of any width ends somewhere, and every deadline *)
(* the protocol computes is a CHECKED addition that yields None past that  *)
(* end, so MaxInstant is both the bound of a model and the overflow case   *)
(* the code handles.                                                       *)
(***************************************************************************)
EXTENDS Integers

CONSTANTS MaxInstant,   \* the last instant the clock can represent
          None          \* Option::None: no instant

ASSUME ClockAssumption == /\ MaxInstant \in Nat
                          /\ None \notin Int

Instant == 0 .. MaxInstant

OptInstant == Instant \cup {None}

(***************************************************************************)
(* Instant::checked_add_duration: None past the end of the clock.          *)
(***************************************************************************)
checked_add(t, d) == IF t + d <= MaxInstant THEN t + d ELSE None

(***************************************************************************)
(* A deadline that is armed and has arrived.                               *)
(***************************************************************************)
Due(deadline, now) == deadline # None /\ deadline <= now

Later(a, b) == IF a >= b THEN a ELSE b

Sooner(a, b) == IF a <= b THEN a ELSE b

(***************************************************************************)
(* The earlier of two armed deadlines, an unarmed one counting as never.   *)
(***************************************************************************)
EarlierOf(a, b) == IF a = None THEN b ELSE IF b = None THEN a ELSE Sooner(a, b)

=============================================================================
