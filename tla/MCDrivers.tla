------------------------------ MODULE MCDrivers -----------------------------
(***************************************************************************)
(* The four drivers, side by side: a behaviour is of one of them, and all  *)
(* of them answer to the contract of Driver.                               *)
(***************************************************************************)
EXTENDS Reactor, Compio, Mio, Smoltcp

Init ==
  /\ driver \in {"reactor", "compio", "mio", "smoltcp"}
  /\ stage = CASE driver = "reactor" -> "recv" [] driver = "compio" -> "tx" [] OTHER -> "park"
  /\ own = CASE driver = "reactor" -> NewReactor [] driver = "compio" -> NewCompio
             [] driver = "mio" -> NewMio [] driver = "smoltcp" -> NewSmoltcp
  /\ prod = [h \in Producers |-> NoProducer]
  /\ budget = NewBudget
  /\ more = FALSE /\ unsealed = FALSE /\ backstopped = FALSE
  /\ ears = Links
  /\ endpoint_open = TRUE

(***************************************************************************)
(* Each driver's own steps: its thread, task or caller's loop runs on.     *)
(***************************************************************************)
Loop ==
  \/ driver = "reactor" /\ ReactorLoop
  \/ driver = "compio" /\ CompioLoop
  \/ driver = "mio" /\ MioLoop
  \/ driver = "smoltcp" /\ SmoltcpLoop

World ==
  \/ driver = "reactor" /\ (ReactorWorld \/ EndpointDropped)
  \/ driver = "compio" /\ CompioWorld
  \/ driver = "mio" /\ MioWorld
  \/ driver = "smoltcp" /\ SmoltcpWorld

Reads(h) ==
  \/ driver = "reactor" /\ ReactorReads(h)
  \/ driver = "compio" /\ CompioReads(h)
  \/ driver = "mio" /\ MioReads(h)
  \/ driver = "smoltcp" /\ SmoltcpReads(h)

Next == Loop \/ World \/ (\E h \in Producers : Reads(h) \/ RoundDue(h))

Spec == Init /\ [][Next]_drvVars

=============================================================================
