------------------------------- MODULE Reactor ------------------------------
(***************************************************************************)
(* hick-reactor's driver task (hick-reactor/src/driver/mod.rs): packets    *)
(* from one receive task per family, commands from handles on any thread,  *)
(* and a bounded pass that resumes where the last one was cut short.       *)
(***************************************************************************)
EXTENDS Driver

(***************************************************************************)
(* DriverState's own part: the resume cursors, whose turn it is to go      *)
(* first, the position of the running drain, and the command channel.      *)
(***************************************************************************)
NewReactor ==
  [svc_resume |-> 0, query_resume |-> 0, queries_first |-> FALSE,
   drain |-> 1, slots |-> <<>>, visited |-> 0, served |-> FALSE, cmds |-> {}]

rKeep == <<driver, budget, more, unsealed, outer>>

(***************************************************************************)
(* drain_transmits: services and queries in turn, the first of this pass   *)
(* chosen by queries_first; each class from its resume cursor.             *)
(***************************************************************************)
DrainsQueries == (own.drain = 1) = own.queries_first

(***************************************************************************)
(* svc_handle_scratch, query_handle_scratch: the handles a drain walks.    *)
(***************************************************************************)
handle_scratch(queries, P) ==
  Walk({h \in IF queries THEN Queries ELSE Services : P[h].ctx \notin {"absent", "gone"}})

Cursor == IF DrainsQueries THEN own.query_resume ELSE own.svc_resume

SlotAt == ((Cursor % Len(own.slots)) + own.visited) % Len(own.slots)

Slot == own.slots[SlotAt + 1]

Draining == stage = "tx" /\ own.visited < Len(own.slots)

Polled == Draining /\ may_start_fanout /\ (own.served \/ (prod[Slot].open /\ Live(Slot)))

(***************************************************************************)
(* Other threads act at any moment.  What they change (a doorbell closed,  *)
(* a command queued) is read by the driver when it turns to a slot, when   *)
(* it sweeps and when it takes commands: their steps are placed where the  *)
(* driver awaits a send, between commands and in the park, and commute     *)
(* with the driver's everywhere else.  (Reads, and the end of the endpoint *)
(* handle, are not seen before the commands.)                              *)
(***************************************************************************)
ReactorYields ==
  \/ stage \in {"commands", "park"}
  \/ stage = "tx" /\ Polled /\ prod[Slot].due > 0

-----------------------------------------------------------------------------
(* Callers and receive tasks.                                              *)

(***************************************************************************)
(* Endpoint::register_service, start_query: a command, and a reply awaited.*)
(***************************************************************************)
ReactorAsks(h) ==
  /\ endpoint_open /\ prod[h].ctx = "absent"
  /\ <<"add", h>> \notin own.cmds /\ ReactorYields
  /\ own' = [own EXCEPT !.cmds = @ \cup {<<"add", h>>}]
  /\ prod' = [prod EXCEPT ![h].open = TRUE]
  /\ UNCHANGED <<stage, rKeep>>

(***************************************************************************)
(* Drop: the handle sends its own removal and closes its doorbell.  A      *)
(* caller still awaiting the reply has no handle to send anything with.    *)
(***************************************************************************)
ReactorDrops(h) ==
  /\ prod[h].open /\ ReactorYields
  /\ prod' = [prod EXCEPT ![h] = Dropped(@)]
  /\ own' = IF prod[h].ctx = "absent" THEN own
            ELSE [own EXCEPT !.cmds = @ \cup {<<"remove", h>>}]
  /\ UNCHANGED <<stage, rKeep>>

(***************************************************************************)
(* Service::next, Query::next: the mailbox, then the doorbell, which is    *)
(* closed once the driver has forgotten the producer.                      *)
(***************************************************************************)
ReactorReads(h) ==
  /\ stage = "park" /\ prod[h].open /\ prod[h].reader = "busy" /\ prod[h].ctx # "absent"
  /\ prod' = [prod EXCEPT
       ![h].told = IF @ = "posted" THEN "taken" ELSE @,
       ![h].reader = IF prod[h].told = "posted" \/ ~Present(h) THEN "ended" ELSE "waiting"]
  /\ UNCHANGED <<stage, own, rKeep>>

EndpointDropped ==
  /\ stage \in {"commands", "park"} /\ endpoint_open /\ endpoint_open' = FALSE
  /\ UNCHANGED <<driver, stage, prod, budget, more, unsealed, own, ears, backstopped>>

(***************************************************************************)
(* recv_loop: a permanent error ends the loop; the driver notices in the   *)
(* park, when the last loop is gone and the packet channel is closed.  A   *)
(* transient one is retried after a back-off and changes nothing here.     *)
(***************************************************************************)
RecvFails(f) ==
  /\ stage = "park" /\ f \in ears /\ ears' = ears \ {f}
  /\ UNCHANGED <<driver, stage, prod, budget, more, unsealed, own, endpoint_open, backstopped>>

-----------------------------------------------------------------------------
(* The loop.                                                               *)

(***************************************************************************)
(* The packet pump: recv_loop received, handle_packet classified.          *)
(***************************************************************************)
ReactorHears(f, h) ==
  /\ stage = "recv" /\ f \in ears
  /\ Heard(prod, h)
  /\ UNCHANGED <<driver, stage, budget, more, unsealed, own, outer>>

remove_service(p) == Withdrawn(p)

cancel_query(p) == Forgotten(p)

(***************************************************************************)
(* sweep_closed_handles: callers that dropped without a command's help.    *)
(***************************************************************************)
sweep_closed_handles ==
  [h \in Producers |-> IF ~Live(h) \/ prod[h].open THEN prod[h]
                       ELSE IF h \in Services THEN remove_service(prod[h])
                       ELSE cancel_query(prod[h])]

(***************************************************************************)
(* The pump ran dry or used its 64: sweep, fire_timeouts, and a new pass   *)
(* with a full budget (reset when the last one ended).                     *)
(***************************************************************************)
ReactorPass ==
  /\ stage = "recv" /\ stage' = "tx"
  /\ fire_timeouts(sweep_closed_handles)
  /\ own' = [own EXCEPT !.slots = handle_scratch(own.queries_first, sweep_closed_handles)]
  /\ UNCHANGED <<driver, budget, more, unsealed, outer>>

NextSlot == own' = [own EXCEPT !.visited = @ + 1, !.served = FALSE]

(***************************************************************************)
(* push_updates: a closed doorbell or a delivered terminal retires the     *)
(* producer.                                                               *)
(***************************************************************************)
Pushed(p, h) ==
  LET removed(q) == IF h \in Services THEN remove_service(q) ELSE cancel_query(q)
  IN IF p.ctx # "live" THEN p
     ELSE IF ~p.open THEN removed(p)
     ELSE IF p.ending THEN removed(Woken(Posted(p)))
     ELSE p

push_updates(P) == [h \in Producers |-> Pushed(P[h], h)]

(***************************************************************************)
(* The end of one class: retired queries are removed; after the second     *)
(* class the order flips if anything was cut short, and updates go out.    *)
(***************************************************************************)
ClassEnds(o, cut) ==
  LET left == [h \in Producers |-> IF h \in Queries /\ prod[h].ctx = "retired"
                                   THEN cancel_query(prod[h]) ELSE prod[h]]
  IN /\ more' = (more \/ cut)
     /\ IF own.drain = 1
        THEN /\ own' = [o EXCEPT !.drain = 2, !.visited = 0, !.served = FALSE,
                                 !.slots = handle_scratch(~own.queries_first, prod)]
             /\ prod' = left /\ UNCHANGED stage
        ELSE /\ own' = [o EXCEPT !.queries_first = IF more' THEN ~@ ELSE @, !.slots = <<>>,
                                 !.visited = 0, !.served = FALSE]
             /\ prod' = push_updates([h \in Producers |-> Overlooked(left[h])])
             /\ stage' = "goodbye"

CursorRestarts(o) == [o EXCEPT !.query_resume = 0, !.svc_resume = 0]

(***************************************************************************)
(* The cursor a cut leaves: behind the slot that was served, else on it.   *)
(***************************************************************************)
ResumeAt(o) ==
  LET at == IF own.served THEN SlotAt + 1 ELSE SlotAt
  IN IF DrainsQueries THEN [o EXCEPT !.query_resume = at] ELSE [o EXCEPT !.svc_resume = at]

CutShort ==
  /\ Draining /\ ~may_start_fanout
  /\ ClassEnds(ResumeAt(own), TRUE)
  /\ UNCHANGED <<driver, budget, unsealed, outer>>

ClassDone ==
  /\ stage = "tx" /\ own.visited = Len(own.slots)
  /\ ClassEnds(own, FALSE)
  /\ UNCHANGED <<driver, budget, unsealed, outer>>

(***************************************************************************)
(* A closed or ended producer is passed over; one with nothing due is      *)
(* polled once.                                                            *)
(***************************************************************************)
PassOver ==
  /\ Draining /\ may_start_fanout /\ ~own.served /\ ~(prod[Slot].open /\ Live(Slot))
  /\ NextSlot
  /\ UNCHANGED <<stage, prod, rKeep>>

NothingDue ==
  /\ Polled /\ prod[Slot].due = 0
  /\ prod' = [prod EXCEPT ![Slot].failures = 0]
  /\ NextSlot
  /\ UNCHANGED <<stage, rKeep>>

(***************************************************************************)
(* Giving a producer up: the Conflict goes to the mailbox, then a service  *)
(* is withdrawn; a query is removed at the end of its drain.               *)
(***************************************************************************)
RetiredService(p) == Withdrawn(Woken(Posted(p)))

RetiredQuery(p) == [Woken(Posted(p)) EXCEPT !.ctx = "retired", !.due = 0, !.ending = FALSE]

RetiredProducer(p, h) == IF h \in Services THEN RetiredService(p) ELSE RetiredQuery(p)

(***************************************************************************)
(* poll_*_transmit cannot encode: the third time in a row ends a service.  *)
(***************************************************************************)
EncodeFails ==
  /\ Polled /\ prod[Slot].due > 0 /\ Slot \in Faulty
  /\ LET p == [prod[Slot] EXCEPT !.failures = @ + 1, !.waited = 0]
     IN prod' = [prod EXCEPT ![Slot] =
                   IF Slot \in Services /\ p.failures < MAX_CONSECUTIVE_ENCODE_ERRORS THEN p
                   ELSE RetiredProducer(p, Slot)]
  /\ NextSlot
  /\ UNCHANGED <<driver, stage, budget, more, unsealed, outer>>

(***************************************************************************)
(* A datagram goes out: the families that took it are charged and leave    *)
(* credits; one that no family can ever carry retires its producer.        *)
(***************************************************************************)
ReactorSends(n) ==
  /\ Polled /\ prod[Slot].due > 0
  /\ prod' = [prod EXCEPT ![Slot] = Sent(@, Slot, n)]
  /\ budget' \in Charged(budget, n)
  /\ unsealed' = (unsealed \/ n > 0)
  /\ own' = [own EXCEPT !.served = TRUE]
  /\ UNCHANGED <<driver, stage, more, outer>>

Undeliverable ==
  /\ Polled /\ prod[Slot].due > 0 /\ Slot \in Faulty
  /\ prod' = [prod EXCEPT ![Slot] = RetiredProducer(Sent(@, Slot, 0), Slot)]
  /\ budget' \in Charged(budget, 0)
  /\ NextSlot
  /\ UNCHANGED <<driver, stage, more, unsealed, outer>>

(***************************************************************************)
(* drain_withdrawals: due rounds while the pass's budget lasts, then every *)
(* completed withdrawal is forgotten.                                      *)
(***************************************************************************)
ReactorGoodbye(h, n) ==
  /\ stage = "goodbye" /\ may_start_fanout /\ h \in GoodbyeDue
  /\ prod' = [prod EXCEPT ![h] = Farewelled(@)]
  /\ budget' \in Charged(budget, n)
  /\ unsealed' = (unsealed \/ n > 0)
  /\ UNCHANGED <<driver, stage, more, own, outer>>

seal_after_records(u) == FALSE

(***************************************************************************)
(* The pass is over: the self-sends are sealed, and the driver goes on to  *)
(* the commands without sleeping if it stopped short, else to the park.    *)
(***************************************************************************)
ReactorPassOver ==
  /\ stage = "goodbye" /\ (~may_start_fanout \/ GoodbyeDue = {})
  /\ prod' = [h \in Producers |-> IF h \in Completed THEN Forgotten(prod[h]) ELSE prod[h]]
  /\ stage' = IF more \/ GoodbyeDue # {} THEN "commands" ELSE "park"
  /\ unsealed' = seal_after_records(unsealed)
  /\ budget' = NewBudget /\ more' = FALSE /\ own' = [own EXCEPT !.drain = 1]
  /\ UNCHANGED <<driver, outer>>

(***************************************************************************)
(* handle_command.  A registration whose caller stopped waiting is rolled  *)
(* back at once.                                                           *)
(***************************************************************************)
AddOrRollBack(h) ==
  IF prod[h].open THEN Started(h)
  ELSE IF h \in Services THEN remove_service([Started(h) EXCEPT !.open = FALSE])
  ELSE cancel_query([Started(h) EXCEPT !.open = FALSE])

Commanded(c) ==
  LET h == c[2]
  IN CASE c[1] = "add" -> AddOrRollBack(h)
       [] c[1] = "remove" /\ h \in Services -> remove_service(prod[h])
       [] c[1] = "remove" /\ h \in Queries -> cancel_query(prod[h])

handle_command(c) ==
  /\ stage \in {"commands", "park"} /\ c \in own.cmds
  /\ own' = [own EXCEPT !.cmds = @ \ {c}]
  /\ prod' = [prod EXCEPT ![c[2]] = Commanded(c)]
  /\ stage' = IF stage = "park" THEN "recv" ELSE "commands"
  /\ UNCHANGED rKeep

CommandsClosed == own.cmds = {} /\ ~HandlesLeft

PacketsClosed == ears = {}

(***************************************************************************)
(* Between passes that left work the code takes at most                    *)
(* COMMAND_DRAIN_BUDGET = 8 commands; the few handles of a run never have  *)
(* that many waiting, so here it takes all there are.                      *)
(***************************************************************************)
ReactorResumes ==
  /\ stage = "commands" /\ own.cmds = {} /\ ~CommandsClosed
  /\ stage' = "recv"
  /\ UNCHANGED <<prod, own, rKeep>>

(***************************************************************************)
(* The park ends with a command, else with a packet, else with the next    *)
(* deadline (select_biased).                                               *)
(***************************************************************************)
ReactorWakes(by_timer) ==
  /\ stage = "park" /\ stage' = "recv"
  /\ own.cmds = {} /\ HandlesLeft /\ ~PacketsClosed
  /\ by_timer => Deadline
  /\ UNCHANGED <<prod, own, rKeep>>

(***************************************************************************)
(* Every handle gone, or every receive task: withdraw what is left.        *)
(***************************************************************************)
ReactorCloses ==
  /\ \/ stage \in {"commands", "park"} /\ CommandsClosed
     \/ stage = "park" /\ own.cmds = {} /\ PacketsClosed
  /\ prod' = [h \in Producers |-> IF h \in Services THEN remove_service(prod[h]) ELSE prod[h]]
  /\ stage' = "flush"
  /\ UNCHANGED <<own, rKeep>>

ReactorFlushes(h) ==
  /\ stage = "flush" /\ h \in GoodbyeDue
  /\ prod' = [prod EXCEPT ![h] = Farewelled(@)]
  /\ UNCHANGED <<stage, own, rKeep>>

(***************************************************************************)
(* The flush is over, or ran into its ten seconds.  The task's state goes  *)
(* with it: doorbells close, unanswered registrations fail.                *)
(***************************************************************************)
ReactorEnds ==
  /\ stage = "flush" /\ stage' = "ended"
  /\ \/ (\A h \in Services : prod[h].rounds = 0) /\ UNCHANGED backstopped
     \/ backstopped' = TRUE
  /\ prod' = [h \in Producers |-> Discarded(prod[h])]
  /\ own' = [own EXCEPT !.cmds = {}]
  /\ UNCHANGED <<driver, budget, more, unsealed, ears, endpoint_open>>

ReactorLoop ==
  \/ ReactorPass \/ CutShort \/ ClassDone \/ PassOver \/ NothingDue \/ EncodeFails
  \/ \E n \in Fanouts : ReactorSends(n)
  \/ Undeliverable
  \/ \E h \in Services, n \in Fanouts : ReactorGoodbye(h, n)
  \/ ReactorPassOver
  \/ \E c \in {"add", "remove"} \X Producers : handle_command(c)
  \/ ReactorResumes \/ ReactorWakes(TRUE) \/ ReactorCloses
  \/ \E h \in Services : ReactorFlushes(h)
  \/ ReactorEnds

ReactorWorld ==
  \/ \E h \in Producers : ReactorAsks(h) \/ ReactorDrops(h)
  \/ \E f \in Links, h \in Producers : ReactorHears(f, h)
  \/ \E f \in Links : RecvFails(f)
  \/ ReactorWakes(FALSE)

=============================================================================
