---------------------------- MODULE Relinquished ----------------------------
(***************************************************************************)
(* The screen an endpoint keeps of the record sets it transmitted and gave *)
(* up (mdns-proto/src/endpoint/relinquished.rs), in two tiers: rows, one   *)
(* per generation, and at their ceiling identities, one per record, each   *)
(* with an expiry per family.                                              *)
(*                                                                         *)
(* A generation is its exposure: the record identities each family         *)
(* carried.  Identities are numbered in the order `identities` lists them. *)
(***************************************************************************)
EXTENDS Clock, FiniteSets

CONSTANTS Families, FirstFamily,          \* the family decomposed first (IPv4)
          Identities,
          MAX_RELINQUISHED_RRSETS, MAX_RELINQUISHED_IDENTITIES,
          Retention,                      \* EndpointConfig::relinquished_retention
          Generations                     \* the exposures relinquished

ASSUME RelinquishedAssumption ==
  /\ IsFiniteSet(Families) /\ FirstFamily \in Families /\ Cardinality(Families) <= 2
  /\ IsFiniteSet(Identities) /\ Identities \subseteq Nat
  /\ MAX_RELINQUISHED_RRSETS \in Nat /\ MAX_RELINQUISHED_IDENTITIES \in Nat
  /\ Retention \in Nat
  /\ Generations \subseteq [Families -> SUBSET Identities]

VARIABLES instant,
          rows,          \* relinquished
          identities,    \* relinquished_identities: expiries by identity
          given          \* history: the generation last given up

screenVars == <<instant, rows, identities, given>>

ScreenInit == instant = 0 /\ rows = {} /\ identities = <<>> /\ given = [f \in Families |-> {}]

-----------------------------------------------------------------------------
(***************************************************************************)
(* Live on EITHER family.                                                  *)
(***************************************************************************)
identity_live(entry, at) == \E f \in Families : entry[f] # None /\ at < entry[f]

LiveRows == {r \in rows : instant < r.expires_at}

LiveIdentities ==
  [i \in {j \in DOMAIN identities : identity_live(identities[j], instant)} |-> identities[i]]

Carried(generation) == UNION {generation[f] : f \in Families}

screens_something(generation) == Carried(generation) # {}

(***************************************************************************)
(* The order in which a generation's identities look for a slot.           *)
(***************************************************************************)
Precedes(generation, i, j) ==
  LET early == generation[FirstFamily]
  IN \/ i \in early /\ j \notin early
     \/ (i \in early <=> j \in early) /\ i < j

Admitted(generation, held) ==
  LET new == Carried(generation) \ held
  IN {i \in new : Cardinality({j \in new : Precedes(generation, j, i)}) + Cardinality(held)
                    < MAX_RELINQUISHED_IDENTITIES}

MergeWindows(old, generation, i, expires) ==
  [f \in Families |-> expires]

(***************************************************************************)
(* Per family, and forward only: the half this generation did not carry is *)
(* left alone.                                                             *)
(***************************************************************************)
Merge(old, generation, i, expires) ==
  [f \in Families |->
     IF i \in generation[f] THEN IF old[f] = None THEN expires ELSE Later(old[f], expires)
     ELSE old[f]]

Unseen == [f \in Families |-> None]

retain_relinquished_identities(generation, expires) ==
  LET held == DOMAIN LiveIdentities
      kept == held \cup Admitted(generation, held)
  IN identities' = [i \in kept |->
                      LET old == IF i \in held THEN LiveIdentities[i] ELSE Unseen
                      IN IF i \in Carried(generation) THEN Merge(old, generation, i, expires)
                         ELSE old]

(***************************************************************************)
(* At the ceiling of the rows: spill, never evict.                         *)
(***************************************************************************)
Spill(generation, expires) ==
  rows' = LiveRows /\ retain_relinquished_identities(generation, expires)

(***************************************************************************)
(* retain_relinquished.  Only an identical generation merges.              *)
(***************************************************************************)
Retain(generation) ==
  LET expires == checked_add(instant, Retention)
      Same(r) == r.generation = generation
  IN /\ screens_something(generation) /\ expires # None
     /\ \/ /\ \E r \in LiveRows : Same(r)
           /\ rows' = {IF Same(r) THEN [r EXCEPT !.expires_at = Later(@, expires)] ELSE r :
                         r \in LiveRows}
           /\ UNCHANGED identities
        \/ /\ \A r \in LiveRows : ~Same(r)
           /\ Cardinality(LiveRows) < MAX_RELINQUISHED_RRSETS
           /\ rows' = LiveRows \cup {[generation |-> generation, expires_at |-> expires]}
           /\ UNCHANGED identities
        \/ /\ \A r \in LiveRows : ~Same(r)
           /\ Cardinality(LiveRows) >= MAX_RELINQUISHED_RRSETS
           /\ Spill(generation, expires)
     /\ given' = generation
     /\ UNCHANGED instant

(***************************************************************************)
(* Endpoint::handle_timeout calls sweep_relinquished.                      *)
(***************************************************************************)
SweepRelinquished ==
  /\ rows' = LiveRows
  /\ identities' = LiveIdentities
  /\ UNCHANGED <<instant, given>>

ScreenTick ==
  /\ instant < MaxInstant
  /\ instant' = instant + 1
  /\ UNCHANGED <<rows, identities, given>>

ScreenNext ==
  \/ \E generation \in Generations : Retain(generation)
  \/ SweepRelinquished
  \/ ScreenTick

ScreenSpec == ScreenInit /\ [][ScreenNext]_screenVars

-----------------------------------------------------------------------------
(* Properties.                                                             *)

(***************************************************************************)
(* relinquished_asserts over the two tiers: until when record i arriving   *)
(* on f is disowned.                                                       *)
(***************************************************************************)
Windows(f, i) ==
  {t \in {r.expires_at : r \in {q \in rows : i \in q.generation[f]}}
         \cup (IF i \in DOMAIN identities THEN {identities[i][f]} \ {None} ELSE {}) :
     instant < t}

Disowned(f, i) ==
  IF Windows(f, i) = {} THEN None
  ELSE CHOOSE t \in Windows(f, i) : \A u \in Windows(f, i) : u <= t

window == [f \in Families |-> [i \in Identities |-> Disowned(f, i)]]

Promise == INSTANCE Screen WITH now <- instant, Capacity <- MAX_RELINQUISHED_IDENTITIES

(* The two tiers together keep the screen's promise through merges, spills *)
(* and sweeps: each record is disowned on each family that carried it for  *)
(* its whole retention, on no other family and not longer, and only a new  *)
(* record is ever turned away, and only at the ceiling.                    *)
KeepsPromise == Promise!Spec

=============================================================================
