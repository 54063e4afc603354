------------------------------- MODULE Smoltcp ------------------------------
(***************************************************************************)
(* hick-smoltcp's Engine under hick-embassy's loop: pump does everything   *)
(* that can be done now and returns the next deadline; the loop sleeps     *)
(* until then, until a datagram comes or until a call signalled it.  The   *)
(* caller polls for updates, so a slot outlives its service until its last *)
(* update was read.                                                        *)
(***************************************************************************)
EXTENDS Driver

NewSmoltcp == [kick |-> FALSE]

sKeep == <<driver, budget, more, unsealed, outer>>

(***************************************************************************)
(* The wake signal is latched: it is kept if nobody waits for it.          *)
(***************************************************************************)
signal(o) == [o EXCEPT !.kick = TRUE]

SmoltcpAsks(h) ==
  /\ Yields /\ prod[h].ctx = "absent"
  /\ prod' = [prod EXCEPT ![h] = Started(h)]
  /\ own' = signal(own)
  /\ UNCHANGED <<stage, sKeep>>

(***************************************************************************)
(* unregister_service: a slot whose route is free is removed, any other    *)
(* withdraws; cancel_query removes.                                        *)
(***************************************************************************)
SmoltcpDrops(h) ==
  /\ Yields /\ prod[h].open /\ prod[h].ctx # "absent"
  /\ LET p == Dropped(prod[h])
     IN prod' = [prod EXCEPT ![h] = IF h \in Queries \/ p.ctx = "freed" THEN Forgotten(p)
                                    ELSE Withdrawn(p)]
  /\ own' = signal(own)
  /\ UNCHANGED <<stage, sKeep>>

(***************************************************************************)
(* poll_service_update, poll_query_update.  Nothing is read from a slot    *)
(* that is gone.                                                           *)
(***************************************************************************)
SmoltcpReads(h) ==
  /\ Yields /\ prod[h].open /\ Present(h)
  /\ prod[h].told = "posted" \/ (h \in Queries /\ prod[h].ending)
  /\ LET p == [prod[h] EXCEPT !.told = "taken", !.reader = "ended", !.ending = FALSE]
     IN prod' = [prod EXCEPT ![h] =
                   CASE h \in Queries -> [p EXCEPT !.ctx = "retired"]
                     [] h \in Services /\ p.ctx = "freed" -> Forgotten(p)
                     [] OTHER -> p]
  /\ UNCHANGED <<stage, own, sKeep>>

-----------------------------------------------------------------------------
(* pump.                                                                   *)

SmoltcpPumps(why) ==
  /\ stage = "park" /\ stage' = "recv"
  /\ CASE why = "kick" -> own.kick [] why = "timer" -> Deadline [] why = "packet" -> TRUE
  /\ own' = IF why = "kick" THEN [own EXCEPT !.kick = FALSE] ELSE own
  /\ fire_timeouts(prod)
  /\ UNCHANGED <<driver, budget, more, unsealed, outer>>

SmoltcpHears(h) ==
  /\ stage = "recv" /\ Heard(prod, h)
  /\ UNCHANGED <<driver, stage, budget, more, unsealed, own, outer>>

retire_origin(p) == Withdrawn(Posted(p))

retire_query(p) == [Posted(p) EXCEPT !.ctx = "retired", !.due = 0, !.ending = FALSE]

drain_service_updates ==
  [h \in Producers |-> IF h \in Services /\ Live(h) /\ prod[h].ending
                       THEN retire_origin(prod[h]) ELSE prod[h]]

SmoltcpUpdates ==
  /\ stage = "recv" /\ stage' = "tx"
  /\ prod' = drain_service_updates
  /\ UNCHANGED <<own, sKeep>>

Pending == {h \in Producers : Live(h) /\ prod[h].due > 0}

SmoltcpSends(h, n) ==
  /\ stage = "tx" /\ h \in Pending
  /\ prod' = [prod EXCEPT ![h] = Sent(@, h, n)]
  /\ UNCHANGED <<stage, own, sKeep>>

(***************************************************************************)
(* A datagram that cannot be encoded or that no family can carry: here the *)
(* first failure ends the producer.                                        *)
(***************************************************************************)
SmoltcpRetires(h) ==
  /\ stage = "tx" /\ h \in Pending /\ h \in Faulty
  /\ prod' = [prod EXCEPT ![h] = IF h \in Services THEN retire_origin(@) ELSE retire_query(@)]
  /\ UNCHANGED <<driver, stage, budget, more, unsealed, own, outer>>

SmoltcpSent ==
  /\ stage = "tx" /\ Pending = {} /\ stage' = "goodbye"
  /\ prod' = drain_service_updates
  /\ UNCHANGED <<own, sKeep>>

SmoltcpGoodbye(h) ==
  /\ stage = "goodbye" /\ h \in GoodbyeDue
  /\ prod' = [prod EXCEPT ![h] = Farewelled(@)]
  /\ UNCHANGED <<stage, own, sKeep>>

SlotRemoved(p) == Forgotten(p)

(***************************************************************************)
(* A completed withdrawal: the slot stays for an update that is unread.    *)
(***************************************************************************)
SlotOrFreed(p) ==
  IF p.told # "posted" \/ ~p.open THEN Forgotten(p) ELSE [p EXCEPT !.ctx = "freed"]

SmoltcpSleeps ==
  /\ stage = "goodbye" /\ GoodbyeDue = {} /\ stage' = "park"
  /\ prod' = [h \in Producers |-> IF h \in Completed THEN SlotOrFreed(prod[h]) ELSE prod[h]]
  /\ UNCHANGED <<own, sKeep>>

SmoltcpLoop ==
  \/ SmoltcpPumps("kick") \/ SmoltcpPumps("timer") \/ SmoltcpUpdates \/ SmoltcpSent
  \/ \E h \in Producers : (\E n \in Fanouts : SmoltcpSends(h, n)) \/ SmoltcpRetires(h)
  \/ \E h \in Services : SmoltcpGoodbye(h)
  \/ SmoltcpSleeps

SmoltcpWorld ==
  \/ \E h \in Producers : SmoltcpAsks(h) \/ SmoltcpDrops(h) \/ SmoltcpHears(h)
  \/ SmoltcpPumps("packet")

=============================================================================
