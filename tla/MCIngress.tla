----------------------------- MODULE MCIngress ------------------------------
(***************************************************************************)
(* What becomes of a received datagram: is it on-link (OnLink), is it an   *)
(* echo of the driver's own (SelfSend), whom does it concern (Routing),    *)
(* does it claim what this endpoint gave up itself (Relinquished), is it   *)
(* one conflict too many (ConflictFlood).  The five share no state, so     *)
(* `subject`, chosen at the start, says which one a behaviour exercises,   *)
(* and the others stay where they began.                                   *)
(***************************************************************************)
EXTENDS SelfSend, OnLink, MCRouting, Relinquished, ConflictFlood

CONSTANTS v4, v6

VARIABLE subject

vars == <<subject, selfVars, linkVars, routeVars, screenVars, floodVars>>

SocketSymmetry == Permutations(SendFamilies)

Bodies2 == {[id |-> 1, header |-> "response", len |-> 1], [id |-> 2, header |-> "plain", len |-> 2]}

StepsBothWays == {3, -3}

ThreeConfs ==
  {{},
   {<<Addr("v4", 5), 3>>, <<Addr("v4", 1), 4>>},
   {<<Addr("v4", 9), 1>>, <<Addr("v6", 9), 4>>, <<Addr("v6", 5), 2>>}}

SomeSources == {Addr("v4", n) : n \in {1, 4, 9}} \cup {Addr("v6", n) : n \in {1, 6, 8}}

SomeDestinations ==
  {Addr("v4", n) : n \in {0, 1, 5, 13, 14, 15}} \cup {Addr("v6", n) : n \in {0, 2, 9, 13}}

(* One record: on both families, on one, or a different one on each.       *)
OneEach ==
  {g \in [Families -> SUBSET Identities] :
     /\ \A f \in Families : Cardinality(g[f]) <= 1
     /\ g["v4"] = g["v6"] \/ g["v4"] = {} \/ g["v6"] \in {{}, {1}}}

SelfIdle == SelfInit /\ stamps

LinkIdle == LinkInit /\ binding = 0 /\ conf = {}

Init ==
  /\ subject \in {"echo", "link", "route", "screen", "flood"}
  /\ IF subject = "echo" THEN SelfInit ELSE SelfIdle
  /\ IF subject = "link" THEN LinkInit ELSE LinkIdle
  /\ RouteInit /\ ScreenInit /\ FloodInit

Next ==
  /\ UNCHANGED subject
  /\ \/ subject = "echo" /\ SelfNext /\ UNCHANGED <<linkVars, routeVars, screenVars, floodVars>>
     \/ subject = "link" /\ LinkNext /\ UNCHANGED <<selfVars, routeVars, screenVars, floodVars>>
     \/ subject = "route" /\ RouteNext /\ UNCHANGED <<selfVars, linkVars, screenVars, floodVars>>
     \/ subject = "screen" /\ ScreenNext /\ UNCHANGED <<selfVars, linkVars, routeVars, floodVars>>
     \/ subject = "flood" /\ FloodNext /\ UNCHANGED <<selfVars, linkVars, routeVars, screenVars>>

Spec == Init /\ [][Next]_vars

=============================================================================
