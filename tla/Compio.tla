------------------------------- MODULE Compio -------------------------------
(***************************************************************************)
(* hick-compio's driver (hick-compio/src/driver/mod.rs): one thread, whose *)
(* other tasks run whenever the driver awaits a send or sleeps.  Handles   *)
(* change the shared state themselves and ring one notifier, which only    *)
(* wakes who is listening at that moment; dirty is the wake that is kept.  *)
(***************************************************************************)
EXTENDS Driver

(***************************************************************************)
(* at: where poll_one_transmit's walk is; to: the producer of the awaited  *)
(* send; wakes: readers to be told at the end of the pass.                 *)
(***************************************************************************)
NewCompio ==
  [at |-> 1, to |-> 0, dirty |-> FALSE, force |-> FALSE, notified |-> FALSE, wakes |-> FALSE]

cKeep == <<driver, budget, more, unsealed, outer>>

-----------------------------------------------------------------------------
(* Handles.                                                                *)

(***************************************************************************)
(* LocalNotify::notify: the driver listens only while it is parked, a      *)
(* reader while it waits.                                                  *)
(***************************************************************************)
RingReaders(P) == [h \in Producers |-> Woken(P[h])]

Rung(o) == [o EXCEPT !.notified = (stage = "park")]

OnlyNotify(o) == Rung(o)

mark_dirty(o) == [Rung(o) EXCEPT !.dirty = TRUE]

CompioAsks(h) ==
  /\ Yields /\ endpoint_open /\ prod[h].ctx = "absent"
  /\ prod' = RingReaders([prod EXCEPT ![h] = Started(h)])
  /\ own' = mark_dirty(own)
  /\ UNCHANGED <<stage, cKeep>>

(***************************************************************************)
(* Service::drop, Query::drop flag the entry only: a send of it may be in  *)
(* flight.                                                                 *)
(***************************************************************************)
CompioDrops(h) ==
  /\ Yields /\ prod[h].open
  /\ prod' = RingReaders([prod EXCEPT ![h] = Dropped(@)])
  /\ own' = mark_dirty(own)
  /\ UNCHANGED <<stage, cKeep>>

CompioEndpointDropped ==
  /\ Yields /\ endpoint_open /\ endpoint_open' = FALSE
  /\ prod' = RingReaders(prod) /\ own' = Rung(own)
  /\ UNCHANGED <<driver, stage, budget, more, unsealed, ears, backstopped>>

(***************************************************************************)
(* next: a service reads its own mailbox; a query reads the endpoint, and  *)
(* removes itself once it has read how it ended.                           *)
(***************************************************************************)
CompioReads(h) ==
  /\ Yields /\ prod[h].open /\ prod[h].reader = "busy" /\ prod[h].ctx # "absent"
  /\ LET p == prod[h]
         over == p.told = "posted" \/ (h \in Queries /\ (p.ending \/ ~Present(h)))
         read == [p EXCEPT !.told = IF over THEN "taken" ELSE @,
                           !.reader = IF over THEN "ended" ELSE "waiting"]
     IN prod' = [prod EXCEPT ![h] = IF over /\ h \in Queries THEN Forgotten(read) ELSE read]
  /\ UNCHANGED <<stage, own, cKeep>>

-----------------------------------------------------------------------------
(* The transmit pump.                                                      *)

Polling == stage = "tx" /\ may_start_fanout /\ own.at <= Len(InOrder)

Turn == InOrder[own.at]

(***************************************************************************)
(* poll_one_transmit passes over what is cancelled, errored or idle.       *)
(***************************************************************************)
CompioPassesOver ==
  /\ Polling /\ ~(Live(Turn) /\ prod[Turn].open /\ prod[Turn].due > 0)
  /\ prod' = [prod EXCEPT ![Turn].failures = IF Live(Turn) /\ prod[Turn].open THEN 0 ELSE @]
  /\ own' = [own EXCEPT !.at = @ + 1]
  /\ UNCHANGED <<stage, cKeep>>

WakesLater(o) == [o EXCEPT !.wakes = TRUE]

(***************************************************************************)
(* An unencodable datagram: a service is withdrawn after the third, with   *)
(* no notification of its own; a query is retired and woken later.         *)
(***************************************************************************)
CompioEncodeFails ==
  /\ Polling /\ Live(Turn) /\ prod[Turn].open /\ prod[Turn].due > 0 /\ Turn \in Faulty
  /\ LET h == Turn
         p == [prod[h] EXCEPT !.failures = @ + 1]
     IN /\ prod' = [prod EXCEPT ![h] =
              IF h \in Queries
              THEN [Posted(p) EXCEPT !.ctx = "retired", !.due = 0, !.ending = FALSE]
              ELSE IF p.failures < MAX_CONSECUTIVE_ENCODE_ERRORS THEN p
              ELSE Withdrawn(Posted(p))]
        /\ own' = [(IF h \in Queries THEN WakesLater(own) ELSE own) EXCEPT !.at = @ + 1]
  /\ UNCHANGED <<driver, stage, budget, more, unsealed, outer>>

CompioSends ==
  /\ Polling /\ Live(Turn) /\ prod[Turn].open /\ prod[Turn].due > 0
  /\ budget' \in Charged(budget, 1)
  /\ own' = [own EXCEPT !.to = Turn]
  /\ stage' = "sending"
  /\ UNCHANGED <<driver, prod, more, unsealed, outer>>

(***************************************************************************)
(* The send came back.  If no family can ever carry the datagram, the      *)
(* producer is retired and its reader told.                                *)
(***************************************************************************)
CompioConfirms(n) ==
  /\ stage = "sending" /\ stage' = "tx"
  /\ prod' = [prod EXCEPT ![own.to] = Sent(@, own.to, n)]
  /\ unsealed' = (unsealed \/ n > 0)
  /\ own' = [own EXCEPT !.at = 1, !.to = 0]
  /\ UNCHANGED <<driver, budget, more, outer>>

CompioUndeliverable ==
  /\ stage = "sending" /\ stage' = "tx" /\ own.to \in Faulty
  /\ LET p == Posted(Sent(prod[own.to], own.to, 0))
     IN prod' = RingReaders([prod EXCEPT ![own.to] =
                   IF own.to \in Services THEN Withdrawn(p)
                   ELSE [p EXCEPT !.ctx = "retired", !.due = 0, !.ending = FALSE]])
  /\ own' = [own EXCEPT !.at = 1, !.to = 0]
  /\ UNCHANGED <<driver, budget, more, unsealed, outer>>

CompioPumped ==
  /\ stage = "tx" /\ (may_start_fanout => own.at > Len(InOrder))
  /\ more' = ~may_start_fanout
  /\ stage' = "settle"
  /\ UNCHANGED <<driver, prod, budget, unsealed, own, outer>>

-----------------------------------------------------------------------------
(* The rest of the pass.                                                   *)

(***************************************************************************)
(* sweep_cancelled_services and sweep_cancelled_queries.                   *)
(***************************************************************************)
SweepNothing(P) == P

sweep_cancelled(P) ==
  [h \in Producers |-> IF P[h].open THEN P[h]
                       ELSE IF h \in Services THEN Withdrawn(P[h])
                       ELSE IF Present(h) THEN Forgotten(P[h]) ELSE P[h]]

CompioSettles ==
  /\ stage = "settle" /\ stage' = "goodbye"
  /\ LET P == sweep_cancelled(prod)
         ended == {h \in Services : P[h].ctx = "live" /\ P[h].ending}
         pushed == [h \in Producers |-> IF h \in ended THEN Withdrawn(Posted(P[h])) ELSE P[h]]
     IN prod' = IF ended = {} THEN pushed ELSE RingReaders(pushed)
  /\ UNCHANGED <<own, cKeep>>

(***************************************************************************)
(* drain_withdrawals: what the budget left, one awaited round at a time.   *)
(***************************************************************************)
CompioGoodbye(h) ==
  /\ stage = "goodbye" /\ may_start_fanout /\ h \in GoodbyeDue
  /\ budget' \in Charged(budget, 1)
  /\ own' = [own EXCEPT !.to = h] /\ stage' = "farewell"
  /\ UNCHANGED <<driver, prod, more, unsealed, outer>>

CompioFarewelled(n) ==
  /\ stage = "farewell" /\ stage' = "goodbye"
  /\ prod' = [prod EXCEPT ![own.to] = Farewelled(@)]
  /\ unsealed' = (unsealed \/ n > 0)
  /\ own' = [own EXCEPT !.to = 0]
  /\ UNCHANGED <<driver, budget, more, outer>>

CompioGoodbyesDone ==
  /\ stage = "goodbye" /\ (~may_start_fanout \/ GoodbyeDue = {})
  /\ more' = (more \/ GoodbyeDue # {})
  /\ LET P == [h \in Producers |-> IF h \in Completed THEN Forgotten(prod[h]) ELSE prod[h]]
     IN prod' = IF Completed = {} THEN P ELSE RingReaders(P)
  /\ stage' = "seal"
  /\ UNCHANGED <<driver, budget, unsealed, own, outer>>

(***************************************************************************)
(* seal, the wakes owed to queries, and then the end of the driver, or the *)
(* park: not to sleep if work was left or a handle changed anything.       *)
(***************************************************************************)
CompioSeals ==
  /\ stage = "seal" /\ unsealed' = FALSE
  /\ prod' = IF own.wakes THEN RingReaders(prod) ELSE prod
  /\ IF HandlesLeft
     THEN /\ stage' = "park"
          /\ own' = [own EXCEPT !.wakes = FALSE, !.force = own.dirty \/ more, !.dirty = FALSE,
                                !.notified = FALSE]
     ELSE stage' = "flush" /\ own' = [own EXCEPT !.wakes = FALSE]
  /\ UNCHANGED <<driver, budget, more, outer>>

CompioWakes == stage' = "tx" /\ budget' = NewBudget /\ more' = FALSE
               /\ own' = [own EXCEPT !.at = 1, !.force = FALSE, !.notified = FALSE]

(***************************************************************************)
(* handle_recv and fire_timeouts ring the notifier, a notification does    *)
(* not ring it again.                                                      *)
(***************************************************************************)
CompioHears(h) ==
  /\ stage = "park" /\ Heard(RingReaders(prod), h)
  /\ CompioWakes
  /\ UNCHANGED <<driver, unsealed, outer>>

CompioTimer ==
  /\ stage = "park" /\ (own.force \/ Deadline)
  /\ fire_timeouts(RingReaders(prod))
  /\ CompioWakes
  /\ UNCHANGED <<driver, unsealed, outer>>

CompioNotified ==
  /\ stage = "park" /\ own.notified
  /\ CompioWakes
  /\ UNCHANGED <<driver, prod, unsealed, outer>>

(***************************************************************************)
(* The last handle is gone: rounds are sent as they fall due, and what was *)
(* dropped during the last awaited send is swept before the end.           *)
(***************************************************************************)
CompioFlushes(h) ==
  /\ stage = "flush" /\ h \in GoodbyeDue
  /\ prod' = [prod EXCEPT ![h] = Farewelled(@)]
  /\ UNCHANGED <<stage, own, cKeep>>

CompioFlushed ==
  /\ stage = "flush" /\ GoodbyeDue = {}
  /\ LET P == sweep_cancelled(prod)
     IN IF \E h \in Services : P[h].rounds > 0
        THEN P # prod /\ prod' = P /\ UNCHANGED stage
        ELSE prod' = [h \in Producers |-> Discarded(P[h])] /\ stage' = "ended"
  /\ UNCHANGED <<own, cKeep>>

CompioBackstop ==
  /\ stage = "flush" /\ stage' = "ended" /\ backstopped' = TRUE
  /\ prod' = [h \in Producers |-> Discarded(prod[h])]
  /\ UNCHANGED <<driver, budget, more, unsealed, own, ears, endpoint_open>>

CompioLoop ==
  \/ CompioPassesOver \/ CompioEncodeFails \/ CompioSends
  \/ \E n \in Fanouts : CompioConfirms(n) \/ CompioFarewelled(n)
  \/ CompioUndeliverable \/ CompioPumped \/ CompioSettles
  \/ \E h \in Services : CompioGoodbye(h) \/ CompioFlushes(h)
  \/ CompioGoodbyesDone \/ CompioSeals \/ CompioTimer \/ CompioNotified
  \/ CompioFlushed \/ CompioBackstop

CompioWorld ==
  \/ \E h \in Producers : CompioAsks(h) \/ CompioDrops(h) \/ CompioHears(h)
  \/ CompioEndpointDropped

=============================================================================
