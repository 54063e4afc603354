------------------------------- MODULE Driver -------------------------------
(***************************************************************************)
(* What every driver of mdns-proto has to get right between its sockets,   *)
(* the protocol endpoint and the callers that hold services and queries:   *)
(* whose datagrams go out when a pass may send only so many, when received *)
(* datagrams may be classified, what becomes of a producer whose caller    *)
(* left, how a caller learns that its producer ended, and what is still    *)
(* owed to the link when the driver stops.                                 *)
(*                                                                         *)
(* The state is common; Reactor, Compio, Mio and Smoltcp give the steps of *)
(* the four drivers over it.  A producer's protocol state is reduced to    *)
(* what a driver can see of it: datagrams due, a terminal update waiting   *)
(* to be polled, goodbye rounds left.  Names, records and schedules are    *)
(* the business of Service, Query and Withdrawal.                          *)
(***************************************************************************)
EXTENDS Naturals, Sequences, FiniteSets

CONSTANTS Services, Queries,              \* handles, numbers in the order of a walk
          Links,                          \* the families with a socket
          MAX_SEND_CREDITS_PER_DRAIN,     \* 64
          MAX_CONSECUTIVE_ENCODE_ERRORS,  \* 3
          GoodbyeRounds,                  \* rounds of a withdrawal
          Fanouts,                        \* how many families may carry a datagram
          Faulty,                         \* model bound: whose records may fail to be sent
          MaxDue                          \* model bound on a producer's backlog

Producers == Services \cup Queries

ASSUME DriverAssumption ==
  /\ Producers \subseteq Nat /\ IsFiniteSet(Producers) /\ \A s \in Services, q \in Queries : s < q
  /\ MAX_SEND_CREDITS_PER_DRAIN \in Nat \ {0} /\ MAX_CONSECUTIVE_ENCODE_ERRORS \in Nat \ {0}
  /\ GoodbyeRounds \in Nat \ {0} /\ Fanouts \subseteq Nat /\ Faulty \subseteq Producers
  /\ MaxDue \in Nat \ {0}

VARIABLES driver,         \* which driver this behaviour is of
          stage,          \* where its loop is
          prod,           \* what is known of each producer
          budget,         \* DrainBudget of this pass
          more,           \* something stopped short: do not sleep
          unsealed,       \* a self-send credit was recorded since the last seal
          own,            \* the driver's own bookkeeping
          ears,           \* the families whose receive loop runs
          endpoint_open,  \* the caller still holds the endpoint
          backstopped     \* ghost: the shutdown flush ran into its wall-clock limit

outer == <<ears, endpoint_open, backstopped>>

drvVars == <<driver, stage, prod, budget, more, unsealed, own, outer>>

(***************************************************************************)
(* ServiceCtx and QueryCtx with the protocol state behind them.  ctx:      *)
(* "live" is polled; "retired" ended but its goodbye has not begun;        *)
(* "leaving" is being withdrawn; "freed" waits for its updates to be read. *)
(***************************************************************************)
NoProducer ==
  [ctx |-> "absent", open |-> FALSE, due |-> 0, failures |-> 0, ending |-> FALSE,
   told |-> "none", reader |-> "waiting", rounds |-> 0, ready |-> FALSE, wire |-> FALSE,
   waited |-> 0]

(***************************************************************************)
(* A new query asks at once; a new service waits for its first timer.      *)
(***************************************************************************)
Started(h) == [NoProducer EXCEPT !.ctx = "live", !.open = TRUE,
                                 !.due = IF h \in Queries THEN 1 ELSE 0]

(***************************************************************************)
(* The order in which a driver walks a map of producers, taken to be fixed *)
(* however the map grows: in k-th place the one with k of them up to it,   *)
(* itself included.                                                        *)
(***************************************************************************)
Walk(S) ==
  [k \in 1 .. Cardinality(S) |-> CHOOSE h \in S : Cardinality({g \in S : g <= h}) = k]

InOrder == Walk(Producers)

(***************************************************************************)
(* A queue without some of its members, the others in their order.         *)
(***************************************************************************)
Without(line, S) ==
  LET kept == Walk({i \in DOMAIN line : line[i] \notin S})
  IN [k \in DOMAIN kept |-> line[kept[k]]]

Present(h) == prod[h].ctx \notin {"absent", "gone"}

Live(h) == prod[h].ctx = "live"

(***************************************************************************)
(* Endpoint::unregister_service: the producer is never polled again, and   *)
(* what it put on the wire is withdrawn in rounds.  Idempotent.            *)
(***************************************************************************)
Withdrawn(p) ==
  IF p.ctx \notin {"live", "retired"} THEN p
  ELSE [p EXCEPT !.ctx = "leaving", !.due = 0, !.failures = 0, !.ending = FALSE, !.waited = 0,
                 !.ready = p.wire, !.rounds = IF p.wire THEN GoodbyeRounds ELSE 0]

(***************************************************************************)
(* set_terminal: the reserved slot of the caller's mailbox, first wins.    *)
(***************************************************************************)
Posted(p) == IF p.told = "none" THEN [p EXCEPT !.told = "posted"] ELSE p

Woken(p) == IF p.reader = "waiting" THEN [p EXCEPT !.reader = "busy"] ELSE p

Forgotten(p) == Woken([p EXCEPT !.ctx = "gone", !.due = 0, !.failures = 0, !.ending = FALSE,
                                !.waited = 0])

(***************************************************************************)
(* The caller dropped its handle, and the mailbox with it.                 *)
(***************************************************************************)
Dropped(p) == [p EXCEPT !.open = FALSE, !.told = "taken", !.reader = "ended"]

(***************************************************************************)
(* The driver's state is dropped with it: doorbells close, registrations   *)
(* that were not answered fail.                                            *)
(***************************************************************************)
Discarded(p) ==
  IF p.ctx = "absent" THEN [p EXCEPT !.open = FALSE]
  ELSE [Forgotten(p) EXCEPT !.rounds = 0, !.ready = FALSE]

(***************************************************************************)
(* A datagram handed to the endpoint's schedule, carried by n families.    *)
(***************************************************************************)
Sent(p, h, n) ==
  [p EXCEPT !.due = @ - 1, !.failures = 0, !.waited = 0,
            !.wire = @ \/ (h \in Services /\ n > 0)]

(***************************************************************************)
(* One goodbye round, sent or given up; after the last nothing of it is    *)
(* left in peers' caches that this endpoint could still withdraw.          *)
(***************************************************************************)
Farewelled(p) ==
  [p EXCEPT !.rounds = @ - 1, !.ready = FALSE, !.wire = p.rounds > 1]

Completed == {h \in Services : prod[h].ctx = "leaving" /\ prod[h].rounds = 0}

GoodbyeDue == {h \in Services : prod[h].ready}

(***************************************************************************)
(* What the loop would be woken for: services keep a lifecycle deadline    *)
(* armed, a query only while it is not waiting to be polled.               *)
(***************************************************************************)
Deadline ==
  \E h \in Producers : \/ Live(h) /\ ~prod[h].ending /\ (h \in Services \/ prod[h].due = 0)
                       \/ prod[h].ctx = "leaving"

HandlesLeft == endpoint_open \/ \E h \in Producers : prod[h].open

NewBudget == [credits |-> MAX_SEND_CREDITS_PER_DRAIN, started |-> FALSE, late |-> FALSE]

may_start_fanout == budget.credits > 0 /\ (~budget.started \/ ~budget.late)

(***************************************************************************)
(* charge; sending takes time, so the pass may be over its clock after it. *)
(***************************************************************************)
Charged(b, n) ==
  IF b.credits <= n THEN {[credits |-> 0, started |-> TRUE, late |-> FALSE]}
  ELSE {[credits |-> b.credits - n, started |-> TRUE, late |-> l] : l \in {b.late, TRUE}}

(***************************************************************************)
(* Ghost: at the end of a pass, who still waits for a turn, up to one pass *)
(* more than the contract allows.                                          *)
(***************************************************************************)
Patience == 4 * Cardinality(Producers) * (1 + Cardinality(Producers)) + 1

Overlooked(p) ==
  IF p.ctx = "live" /\ p.open /\ p.due > 0 /\ p.waited < Patience
  THEN [p EXCEPT !.waited = @ + 1] ELSE p

-----------------------------------------------------------------------------
(* The world around a driver.                                              *)

(***************************************************************************)
(* When anything but the driver runs: other tasks of the same thread while *)
(* the driver awaits, the caller between two calls; for the reactor see    *)
(* ReactorYields.                                                          *)
(***************************************************************************)
Yields ==
  IF driver = "compio" THEN stage \in {"sending", "farewell", "park"} ELSE stage = "park"

(***************************************************************************)
(* A datagram or a timer gives a live producer something to send, as often *)
(* as its backlog allows, or ends it.  P is what the driver made of the    *)
(* producers on the way.                                                   *)
(***************************************************************************)
Prompted(P, h, backlog) ==
  /\ P[h].ctx = "live" /\ ~P[h].ending
  /\ \/ P[h].due < backlog /\ prod' = [P EXCEPT ![h].due = @ + 1]
     \/ prod' = [P EXCEPT ![h].ending = TRUE, ![h].due = 0]

Heard(P, h) == Prompted(P, h, MaxDue)

fire_timeouts(P) ==
  \/ prod' = P
  \/ \E h \in Producers : Prompted(P, h, 1)

(***************************************************************************)
(* Time passes: the next goodbye round of a withdrawal is due.             *)
(***************************************************************************)
RoundDue(h) ==
  /\ prod[h].rounds > 0 /\ ~prod[h].ready
  /\ prod' = [prod EXCEPT ![h].ready = TRUE]
  /\ UNCHANGED <<driver, stage, budget, more, unsealed, own, outer>>

-----------------------------------------------------------------------------
(* The contract.                                                           *)

(***************************************************************************)
(* A datagram is weighed against the self-send credits only after every    *)
(* one recorded so far was sealed: an unsealed credit never expires, and   *)
(* would swallow a peer's identical bytes whenever they come.  Each driver *)
(* seals at another place of its loop.                                     *)
(***************************************************************************)
ClassifiesOnlySealed ==
  /\ driver \in {"reactor", "mio"} /\ stage = "recv" => ~unsealed
  /\ driver \in {"reactor", "compio"} /\ stage = "park" => ~unsealed

(***************************************************************************)
(* The reactor's ring comes round: two passes for every producer of its    *)
(* kind, twice over for those that may register ahead of it meanwhile.     *)
(* Its cursor is an index, and the walk it indexes is made anew on every   *)
(* pass, so each producer of its kind that leaves may cost as much again.  *)
(***************************************************************************)
RingComesRound ==
  driver = "reactor" =>
    \A h \in Producers :
      LET class == IF h \in Services THEN Services ELSE Queries
          left == {g \in class : prod[g].ctx = "gone"}
      IN prod[h].waited <= 4 * Cardinality(class) * (1 + Cardinality(left))

(***************************************************************************)
(* mio's line comes round: within ceil(n / MAX_SEND_CREDITS_PER_DRAIN)     *)
(* ticks, whoever else registers, leaves, fails or keeps refilling its     *)
(* queue.                                                                  *)
(***************************************************************************)
LineComesRound ==
  driver = "mio" =>
    \A h \in Producers :
      prod[h].waited * MAX_SEND_CREDITS_PER_DRAIN
        < Cardinality(Producers) + MAX_SEND_CREDITS_PER_DRAIN

(***************************************************************************)
(* Turns come round: under a budget that runs out on every pass, nobody    *)
(* with a datagram to send is passed over for ever, nor for longer than    *)
(* the order in which its driver takes turns allows.                       *)
(***************************************************************************)
TurnsComeRound == RingComesRound /\ LineComesRound

(***************************************************************************)
(* Nothing is left owed to the link: when a driver ends, or forgets a      *)
(* service, every record the service announced has been withdrawn, however *)
(* drops, sends, sweeps and the end of the loop interleaved.  Only the     *)
(* wall-clock backstop may cut it short.                                   *)
(***************************************************************************)
NothingLeftBehind ==
  \A h \in Services :
    ~backstopped /\ (stage = "ended" \/ prod[h].ctx = "gone") => ~prod[h].wire

(***************************************************************************)
(* The driver is going to sleep until a timer or a packet: nothing that a  *)
(* caller did, nothing the pass left undone and no withdrawal that is due  *)
(* (next_at is now when one begins) wakes it at once.                      *)
(***************************************************************************)
Asleep ==
  /\ stage = "park" /\ GoodbyeDue = {} /\ Completed = {}
  /\ CASE driver = "reactor" -> own.cmds = {}
       [] driver = "compio" -> ~own.force /\ ~own.notified
       [] driver = "mio" -> ~more
       [] driver = "smoltcp" -> ~own.kick

(***************************************************************************)
(* No work is slept on: a datagram that was due before the driver went to  *)
(* sleep was polled, whatever the driver was awaiting when it became due,  *)
(* and however many passes the budget cut short before.  (One that cannot  *)
(* be encoded is tried again at the service's next deadline.)              *)
(***************************************************************************)
NoWorkSleptOn ==
  Asleep => \A h \in Producers :
              Live(h) /\ prod[h].open /\ prod[h].failures = 0 => prod[h].due = 0

(***************************************************************************)
(* A producer whose caller dropped it is never forgotten by a sleeping     *)
(* driver, also when the drop fell into a send of its own datagram, into   *)
(* the reply to its registration, or between the sweep and the sleep: it   *)
(* is gone, or its goodbye still has a round to go.                        *)
(***************************************************************************)
OrphansCollected ==
  Asleep => \A h \in Producers :
              Present(h) /\ ~prod[h].open => prod[h].ctx = "leaving" /\ prod[h].rounds > 0

(***************************************************************************)
(* A caller is told how its producer ended (a conflict, an answer that     *)
(* completed it, records that cannot be encoded or carried): once the      *)
(* driver sleeps, the reason is where the caller reads it, and a caller    *)
(* that was waiting has been woken, or will be by the goodbyes still due.  *)
(***************************************************************************)
ReadersReleased ==
  Asleep => \A h \in Producers :
    prod[h].open /\ prod[h].ctx # "absent" /\ (~Live(h) \/ prod[h].ending) =>
      \/ prod[h].reader = "ended"
      \/ /\ prod[h].told = "posted" \/ prod[h].ending
         /\ driver \in {"reactor", "compio"} => prod[h].reader # "waiting" \/ prod[h].rounds > 0
         /\ driver = "smoltcp" => Present(h)

=============================================================================
