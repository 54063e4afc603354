--------------------------------- MODULE Mio --------------------------------
(***************************************************************************)
(* hick-mio (hick-mio/src/driver.rs, endpoint.rs): no task of its own.     *)
(* The caller's event loop calls tick when next_timeout says so, and calls *)
(* everything else between two ticks; what a producer tells is queued as   *)
(* an event until it is asked for.                                         *)
(***************************************************************************)
EXTENDS Driver

(***************************************************************************)
(* line: the producers by tx_seq; visited, spent, capped: TxSchedule and   *)
(* the turn that is running.                                               *)
(***************************************************************************)
NewMio == [line |-> <<>>, visited |-> 0, spent |-> 0, capped |-> FALSE, shutting_down |-> FALSE]

mKeep == <<driver, unsealed, outer>>

-----------------------------------------------------------------------------
(* Calls between two ticks.                                                *)

join(line, h) == Append(line, h)

(***************************************************************************)
(* register_service, start_query: a query has a question to ask at once.   *)
(***************************************************************************)
MioAsks(h) ==
  /\ Yields /\ endpoint_open /\ prod[h].ctx = "absent"
  /\ h \in Services => ~own.shutting_down
  /\ prod' = [prod EXCEPT ![h] = Started(h)]
  /\ own' = [own EXCEPT !.line = join(@, h)]
  /\ more' = (more \/ h \in Queries)
  /\ UNCHANGED <<driver, stage, budget, unsealed, outer>>

(***************************************************************************)
(* unregister_service begins the withdrawal, cancel_query forgets.         *)
(***************************************************************************)
MioDrops(h) ==
  /\ Yields /\ Present(h) /\ prod[h].open
  /\ LET p == Dropped(prod[h])
     IN prod' = [prod EXCEPT ![h] = IF h \in Services THEN Withdrawn(p) ELSE Forgotten(p)]
  /\ own' = IF h \in Queries THEN [own EXCEPT !.line = Without(@, {h})] ELSE own
  /\ UNCHANGED <<driver, stage, budget, more, unsealed, outer>>

(***************************************************************************)
(* next_event: what was pushed stays until it is taken.                    *)
(***************************************************************************)
MioReads(h) ==
  /\ Yields /\ prod[h].open /\ prod[h].told = "posted"
  /\ prod' = [prod EXCEPT ![h].told = "taken", ![h].reader = "ended"]
  /\ UNCHANGED <<stage, budget, more, own, mKeep>>

(***************************************************************************)
(* shutdown: the caller gives up every service at once.                    *)
(***************************************************************************)
ShutDown == [h \in Producers |-> IF h \in Services /\ Present(h) THEN Withdrawn(Dropped(prod[h]))
                                 ELSE prod[h]]

MioShutdown ==
  /\ Yields /\ endpoint_open /\ ~own.shutting_down
  /\ own' = [own EXCEPT !.shutting_down = TRUE]
  /\ prod' = ShutDown
  /\ UNCHANGED <<stage, budget, more, mKeep>>

(***************************************************************************)
(* Mdns::drop: shutdown and one round of what is due; the rest stays owed, *)
(* which is what is_idle is for.                                           *)
(***************************************************************************)
MioDropped ==
  /\ Yields /\ endpoint_open /\ endpoint_open' = FALSE
  /\ LET P == [h \in Producers |-> IF ShutDown[h].ready THEN Farewelled(ShutDown[h])
                                   ELSE ShutDown[h]]
     IN /\ backstopped' = \E h \in Services : P[h].rounds > 0
        /\ prod' = [h \in Producers |-> [Discarded(P[h]) EXCEPT !.open = FALSE]]
  /\ stage' = "ended"
  /\ UNCHANGED <<driver, budget, more, unsealed, own, ears>>

-----------------------------------------------------------------------------
(* tick.                                                                   *)

SealsLater == unsealed

SealsFirst == FALSE

(***************************************************************************)
(* next_timeout elapsed, or a socket is readable.                          *)
(***************************************************************************)
MioTicks(readable) ==
  /\ stage = "park" /\ (readable \/ more \/ Deadline)
  /\ unsealed' = SealsFirst
  /\ stage' = "recv"
  /\ UNCHANGED <<driver, prod, budget, more, own, outer>>

MioHears(h) ==
  /\ stage = "recv" /\ Heard(prod, h)
  /\ UNCHANGED <<driver, stage, budget, more, unsealed, own, outer>>

MioFires ==
  /\ stage = "recv" /\ stage' = "tx"
  /\ fire_timeouts(prod)
  /\ budget' = NewBudget
  /\ own' = [own EXCEPT !.visited = 0, !.spent = 0, !.capped = FALSE]
  /\ UNCHANGED <<driver, more, unsealed, outer>>

(***************************************************************************)
(* TxQueue::serve: the head of the line has the turn, and the tail is its  *)
(* next place; it may spend its share of the credits that are left.        *)
(***************************************************************************)
Serving == stage = "tx" /\ budget.credits > 0 /\ own.visited < Len(own.line)

Offered == own.line[1]

Share(credits, remaining) == IF credits < remaining THEN 1 ELSE credits \div remaining

quantum == Share(budget.credits, Len(own.line) - own.visited)

ToTheTail(line) == Append(Tail(line), Head(line))

(***************************************************************************)
(* TxSchedule::charge at the end of a turn.                                *)
(***************************************************************************)
TurnOver(spent, capped) ==
  /\ budget' = [budget EXCEPT !.credits = @ - spent]
  /\ own' = [own EXCEPT !.line = ToTheTail(@), !.visited = @ + 1, !.spent = 0,
                        !.capped = @ \/ capped]

MioSends(n) ==
  /\ Serving /\ Live(Offered) /\ own.spent < quantum /\ prod[Offered].due > 0
  /\ prod' = [prod EXCEPT ![Offered] = Sent(@, Offered, n)]
  /\ own' = [own EXCEPT !.spent = @ + 1]
  /\ unsealed' = (unsealed \/ n > 0)
  /\ UNCHANGED <<driver, stage, budget, more, outer>>

MioTurnOver ==
  /\ Serving
  /\ Live(Offered) => own.spent >= quantum \/ prod[Offered].due = 0
  /\ prod' = [prod EXCEPT ![Offered].failures =
                IF Live(Offered) /\ own.spent < quantum THEN 0 ELSE @]
  /\ TurnOver(own.spent, Live(Offered) /\ own.spent >= quantum)
  /\ UNCHANGED <<stage, more, mKeep>>

(***************************************************************************)
(* retire_service, and a query's terminal event.  The goodbye begins in    *)
(* drain_withdrawals.                                                      *)
(***************************************************************************)
retire_service(p) == [Posted(p) EXCEPT !.ctx = "retired", !.due = 0, !.ending = FALSE]

MioEncodeFails ==
  /\ Serving /\ Live(Offered) /\ own.spent < quantum /\ prod[Offered].due > 0
  /\ Offered \in Faulty
  /\ LET p == [prod[Offered] EXCEPT !.failures = @ + 1, !.waited = 0]
         over == Offered \in Queries \/ p.failures >= MAX_CONSECUTIVE_ENCODE_ERRORS
     IN /\ prod' = [prod EXCEPT ![Offered] = IF over THEN retire_service(p) ELSE p]
        /\ TurnOver(own.spent, ~over)
  /\ UNCHANGED <<driver, stage, more, unsealed, outer>>

MioUndeliverable ==
  /\ Serving /\ Live(Offered) /\ own.spent < quantum /\ prod[Offered].due > 0
  /\ Offered \in Faulty
  /\ prod' = [prod EXCEPT ![Offered] = retire_service(Sent(@, Offered, 0))]
  /\ TurnOver(own.spent + 1, FALSE)
  /\ UNCHANGED <<driver, stage, more, unsealed, outer>>

NothingPending(left) == FALSE

WorkPending(left) == left

(***************************************************************************)
(* The end of drain_transmits, and push_updates: terminal events.          *)
(***************************************************************************)
MioPushes ==
  /\ stage = "tx" /\ ~Serving /\ stage' = "goodbye"
  /\ more' = WorkPending(own.line # <<>> /\ (budget.credits = 0 \/ own.capped))
  /\ LET ended(h) == Live(h) /\ prod[h].ending
         over(h) == h \in Queries /\ (ended(h) \/ prod[h].ctx = "retired")
     IN /\ prod' = [h \in Producers |->
              IF over(h) THEN Forgotten(Posted(prod[h]))
              ELSE IF ended(h) THEN retire_service(prod[h])
              ELSE Overlooked(prod[h])]
        /\ own' = [own EXCEPT !.line = Without(@, {h \in Producers : over(h)})]
  /\ UNCHANGED <<budget, mKeep>>

(***************************************************************************)
(* drain_withdrawals: begins what was retired, sends every due round.      *)
(***************************************************************************)
begin_service_withdrawal(p) == IF p.ctx = "retired" THEN Withdrawn(p) ELSE p

MioGoodbyes(n) ==
  /\ stage = "goodbye" /\ stage' = "park"
  /\ LET begun == [h \in Services |-> begin_service_withdrawal(prod[h])]
         sent == [h \in Services |-> IF begun[h].ready THEN Farewelled(begun[h]) ELSE begun[h]]
         done == {h \in Services : sent[h].ctx = "leaving" /\ sent[h].rounds = 0}
     IN /\ prod' = [h \in Producers |->
              IF h \in Queries THEN prod[h] ELSE IF h \in done THEN Forgotten(sent[h])
              ELSE sent[h]]
        /\ own' = [own EXCEPT !.line = Without(@, done)]
        /\ unsealed' = (unsealed \/ (n > 0 /\ \E h \in Services : begun[h].ready))
  /\ UNCHANGED <<driver, budget, more, outer>>

MioLoop ==
  \/ MioTicks(FALSE) \/ MioFires \/ MioTurnOver \/ MioEncodeFails \/ MioUndeliverable
  \/ \E n \in Fanouts : MioSends(n) \/ MioGoodbyes(n)
  \/ MioPushes

MioWorld ==
  \/ \E h \in Producers : MioAsks(h) \/ MioDrops(h) \/ MioHears(h)
  \/ MioTicks(TRUE) \/ MioShutdown \/ MioDropped

=============================================================================
