--------------------------- MODULE ConflictFlood ----------------------------
(***************************************************************************)
(* The conflict-flood limit driven by an arbitrary stream of conflicts,    *)
(* against RFC 6762 section 8.1 stated over the whole history: "if fifteen *)
(* conflicts occur within any ten-second period".  The ring keeps the last *)
(* CONFLICT_BURST_LEN instants and nothing else; the history keeps all.    *)
(***************************************************************************)
EXTENDS Flood, Sequences

CONSTANTS MaxConflicts,   \* model bound: conflicts in a behaviour
          MaxFloodTicks   \* model bound: the instants they arrive in

ASSUME ConflictsAssumption == MaxConflicts \in Nat /\ MaxFloodTicks \in Nat

VARIABLES
  clock,
  flood,      \* the ConflictFlood of the endpoint
  raised,     \* names the datagram being handled has conflicted with so far
  history     \* instants of all the conflicts there have been, oldest first

floodVars == <<clock, flood, raised, history>>

FloodInit ==
  /\ clock = 0
  /\ flood = NewFlood
  /\ raised = {}
  /\ history = <<>>

(***************************************************************************)
(* A record of the datagram being handled conflicts under `owner`.  RFC    *)
(* 6762 counts conflicts, not records: a second record about the same name *)
(* in one datagram is the same conflict.                                   *)
(***************************************************************************)
Conflict(owner) ==
  /\ Len(history) < MaxConflicts
  /\ flood' = accept(flood, clock, raised = {}, owner)
  /\ history' = IF owner \in raised THEN history ELSE Append(history, clock)
  /\ raised' = raised \cup {owner}
  /\ UNCHANGED clock

(***************************************************************************)
(* Endpoint::handle numbers the next datagram.                             *)
(***************************************************************************)
EndOfConflicts ==
  /\ raised # {}
  /\ raised' = {}
  /\ UNCHANGED <<clock, flood, history>>

FloodTick ==
  /\ clock < MaxFloodTicks
  /\ clock' = clock + 1
  /\ raised' = {}
  /\ UNCHANGED <<flood, history>>

FloodNext == (\E owner \in Owners : Conflict(owner)) \/ EndOfConflicts \/ FloodTick

FloodSpec == FloodInit /\ [][FloodNext]_floodVars

-----------------------------------------------------------------------------
(* RFC 6762 section 8.1 over the history.                                  *)

(* The conflicts history[i .. i + LEN - 1] fall within one window.         *)
BurstEndsAt(j) ==
  /\ j >= CONFLICT_BURST_LEN
  /\ history[j] - history[j - CONFLICT_BURST_LEN + 1] <= CONFLICT_BURST_WINDOW

(* From conflict j to the present no gap is longer than a window.          *)
UnbrokenSince(j) ==
  /\ \A k \in j .. Len(history) - 1 : history[k + 1] - history[k] <= CONFLICT_BURST_WINDOW
  /\ clock - history[Len(history)] <= CONFLICT_BURST_WINDOW

LimitApplies == \E j \in 1 .. Len(history) : BurstEndsAt(j) /\ UnbrokenSince(j)

(* The ring of the last LEN instants decides exactly what the whole        *)
(* history decides: the limit is in force when and only when a burst of    *)
(* CONFLICT_BURST_LEN conflicts fell within one window and the flood has   *)
(* not paused for a window since.                                          *)
LimitIsExact == in_force(flood, clock) <=> LimitApplies

(* The epoch a back-off is measured from is the FIRST burst's end: it does *)
(* not slide forward with every further conflict, which would starve every *)
(* service of probes for as long as the flood lasts.                       *)
EpochIsFirstBurst ==
  in_force(flood, clock) =>
    LET j == CHOOSE j \in 1 .. Len(history) :
               /\ BurstEndsAt(j) /\ UnbrokenSince(j)
               /\ \A i \in 1 .. j - 1 : ~(BurstEndsAt(i) /\ UnbrokenSince(i))
    IN latch_epoch(flood, clock) = history[j]

=============================================================================
