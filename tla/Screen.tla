------------------------------- MODULE Screen -------------------------------
(***************************************************************************)
(* What the relinquished screen promises: a record this endpoint           *)
(* transmitted on a family and then gave up is answered for on THAT family *)
(* until its retention ends, and on no other and no longer; giving up more *)
(* records never shortens an earlier promise.  A new promise may be        *)
(* refused, but only when Capacity records are being answered for already. *)
(***************************************************************************)
EXTENDS Clock, FiniteSets

CONSTANTS Families, Identities, Retention, Capacity

VARIABLES now, given, window

vars == <<now, given, window>>

Nothing == [f \in Families |-> {}]

Live(w) == {i \in Identities : \E f \in Families : w[f][i] # None}

Carried(generation) == UNION {generation[f] : f \in Families}

Init == /\ now = 0
        /\ given = Nothing
        /\ window = [f \in Families |-> [i \in Identities |-> None]]

(***************************************************************************)
(* A retention of zero promises nothing.                                   *)
(***************************************************************************)
Until == IF Retention > 0 THEN now + Retention ELSE None

(***************************************************************************)
(* The records of `refused` keep whatever promise they had.                *)
(***************************************************************************)
Promised(generation, refused, before) ==
  [f \in Families |-> [i \in Identities |->
     IF i \in generation[f] \ refused THEN Until ELSE before[f][i]]]

Relinquish ==
  /\ now + Retention <= MaxInstant
  /\ given' \in [Families -> SUBSET Identities]
  /\ \E refused \in SUBSET Carried(given') :
       /\ refused # {} => Cardinality(Live(window')) >= Capacity
       /\ window' = Promised(given', refused, window)
  /\ UNCHANGED now

Tick ==
  /\ now' = now + 1
  /\ window' = [f \in Families |-> [i \in Identities |->
                  IF Due(window[f][i], now') THEN None ELSE window[f][i]]]
  /\ UNCHANGED given

Next == Relinquish \/ Tick

Spec == Init /\ [][Next]_vars

=============================================================================
