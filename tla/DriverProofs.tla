---------------------------- MODULE DriverProofs ----------------------------
(***************************************************************************)
(* TLAPS proofs that the four drivers keep the contract of Driver, for     *)
(* every set of services, queries and links, every credit limit and every  *)
(* number of goodbye rounds, with callers in between wherever a driver     *)
(* yields.                                                                 *)
(***************************************************************************)
EXTENDS MCDrivers, FiniteSetTheorems, SequenceTheorems, TLAPS

(* The stages of a producer's life in any of the four drivers.             *)
Contexts == {"absent", "live", "retired", "leaving", "freed", "gone"}

Producer ==
  [ctx : Contexts, open : BOOLEAN, due : Nat, failures : Nat, ending : BOOLEAN,
   told : {"none", "posted", "taken"}, reader : {"waiting", "busy", "ended"},
   rounds : Nat, ready : BOOLEAN, wire : BOOLEAN, waited : Nat]

(***************************************************************************)
(* What is known of one producer in every driver that still runs: only     *)
(* live ones have anything to send, only leaving services have rounds to   *)
(* go, and a service that announced anything can still withdraw it.        *)
(***************************************************************************)
Sound(h, p) ==
  /\ p \in Producer
  /\ h \in Queries => p.ctx \notin {"leaving", "freed"} /\ ~p.wire
  /\ p.due # 0 => p.ctx = "live" /\ ~p.ending
  /\ p.ending => p.ctx = "live"
  /\ p.rounds # 0 => p.ctx = "leaving"
  /\ p.ready => p.rounds # 0
  /\ p.wire => p.ctx \in {"live", "retired"} \/ p.rounds # 0
  /\ p.open /\ p.ctx = "live" => p.told = "none"

Inert == stage = "ended" =>
  \A h \in Producers :
    prod[h].rounds = 0 /\ (h \in Services /\ ~backstopped => ~prod[h].wire)

(***************************************************************************)
(* A caller that has not closed its handle finds in its mailbox why its    *)
(* producer is no longer polled, or has read it.                           *)
(***************************************************************************)
Told(p) ==
  p.open /\ p.ctx \notin {"absent", "live"} => p.reader = "ended" \/ p.told = "posted"

(***************************************************************************)
(* A dropped producer is on its way out.                                   *)
(***************************************************************************)
Orphaned(p) == p.ctx \notin {"absent", "gone", "leaving"} /\ ~p.open

Common ==
  /\ prod \in [Producers -> Producer]
  /\ Inert
  /\ stage # "ended" => \A h \in Producers : Sound(h, prod[h])
  /\ stage \notin {"flush", "ended"} => \A h \in Producers : Told(prod[h])
  /\ driver # "smoltcp" => \A h \in Producers : prod[h].ctx # "freed"

ReactorShape(o) ==
  o = [svc_resume |-> o.svc_resume, query_resume |-> o.query_resume,
       queries_first |-> o.queries_first, drain |-> o.drain, slots |-> o.slots,
       visited |-> o.visited, served |-> o.served, cmds |-> o.cmds]

(***************************************************************************)
(* The reactor learns of drops through its command channel: an orphan has  *)
(* its removal queued, and nothing but a closed handle queues one.         *)
(***************************************************************************)
ReactorInv ==
  /\ ReactorShape(own)
  /\ own.cmds \subseteq {"add", "remove"} \X Producers
  /\ stage \in {"recv", "tx", "goodbye", "commands", "park", "flush", "ended"}
  /\ stage \in {"recv", "commands", "park"} => ~unsealed
  /\ \A h \in Producers :
       /\ <<"add", h>> \in own.cmds => prod[h].ctx = "absent"
       /\ <<"remove", h>> \in own.cmds => prod[h].ctx # "absent" /\ ~prod[h].open
       /\ Orphaned(prod[h]) => <<"remove", h>> \in own.cmds
  /\ stage \notin {"flush", "ended"} =>
       \A h \in Producers :
         prod[h].open /\ prod[h].ctx \notin {"absent", "live"} => prod[h].reader # "waiting"
  /\ stage \in {"goodbye", "park"} =>
       \A h \in Producers : prod[h].open => ~prod[h].ending
  /\ stage = "flush" => \A h \in Services : prod[h].ctx \notin {"live", "retired"}

CompioShape(o) ==
  o = [at |-> o.at, to |-> o.to, dirty |-> o.dirty, force |-> o.force,
       notified |-> o.notified, wakes |-> o.wakes]

(***************************************************************************)
(* compio holds no borrow across an await, so callers run while it sends:  *)
(* what they change in between is remembered by dirty until the next       *)
(* sweep, by force and notified until the next pass, and a reader without  *)
(* news has a wake owed to it. A producer whose send is awaited still has  *)
(* that datagram to send.                                                  *)
(***************************************************************************)
CompioInv ==
  /\ CompioShape(own)
  /\ stage \in {"tx", "sending", "settle", "goodbye", "farewell", "seal", "park", "flush", "ended"}
  /\ stage = "park" => ~unsealed
  /\ stage = "sending" /\ own.to \in Producers =>
       prod[own.to].ctx = "live" /\ prod[own.to].due # 0
  /\ stage = "farewell" => own.to \in Services /\ prod[own.to].ready
  /\ \A h \in Producers :
       /\ stage \in {"goodbye", "farewell", "seal"} /\ Orphaned(prod[h]) => own.dirty
       /\ stage = "park" /\ Orphaned(prod[h]) => own.force \/ own.notified
       /\ stage \notin {"flush", "ended"} /\ prod[h].open =>
            /\ prod[h].ctx \notin {"absent", "live"} =>
                 \/ prod[h].reader # "waiting" \/ prod[h].ctx = "leaving"
                 \/ prod[h].ctx = "retired" /\ own.wakes
            /\ h \in Queries /\ prod[h].ending => prod[h].reader # "waiting"
       /\ stage \in {"goodbye", "farewell", "seal", "park"} /\ h \in Services => ~prod[h].ending
       /\ stage = "flush" => ~prod[h].open
  /\ stage = "park" => ~own.wakes

MioShape(o) ==
  o = [line |-> o.line, visited |-> o.visited, spent |-> o.spent, capped |-> o.capped,
       shutting_down |-> o.shutting_down]

(* mio's callers run only between turns, and their drops act at once.      *)
MioInv ==
  /\ MioShape(own)
  /\ stage \in {"park", "recv", "tx", "goodbye", "ended"}
  /\ stage = "recv" => ~unsealed
  /\ \A h \in Producers : ~Orphaned(prod[h])

(***************************************************************************)
(* smoltcp frees a slot as soon as nothing needs it, and the handle of a   *)
(* freed slot has nothing left to read.                                    *)
(***************************************************************************)
SmoltcpInv ==
  /\ own = [kick |-> own.kick]
  /\ stage \in {"park", "recv", "tx", "goodbye"}
  /\ \A h \in Producers :
       /\ ~Orphaned(prod[h])
       /\ prod[h].open /\ prod[h].ctx = "gone" => prod[h].reader = "ended"

(***************************************************************************)
(* The inductive invariant. A property of the park alone is not inductive: *)
(* what is promised of it is kept by what each stage of the pass before it *)
(* leaves for the next.                                                    *)
(***************************************************************************)
DriverInv ==
  /\ driver \in {"reactor", "compio", "mio", "smoltcp"}
  /\ Common
  /\ driver = "reactor" => ReactorInv
  /\ driver = "compio" => CompioInv
  /\ driver = "mio" => MioInv
  /\ driver = "smoltcp" => SmoltcpInv

-----------------------------------------------------------------------------
(* What the drivers' shared operators do to a producer.                    *)

(***************************************************************************)
(* Withdrawing a service starts its goodbye rounds and tells no caller     *)
(* anything.                                                               *)
(***************************************************************************)
LEMMA WithdrawnSound ==
  ASSUME NEW h \in Services, NEW p, Sound(h, p)
  PROVE  /\ Sound(h, Withdrawn(p))
         /\ Withdrawn(p).ctx = IF p.ctx \in {"live", "retired"} THEN "leaving" ELSE p.ctx
         /\ Withdrawn(p).open = p.open /\ Withdrawn(p).told = p.told
         /\ Withdrawn(p).reader = p.reader
<1>1. GoodbyeRounds \in Nat \ {0} /\ h \notin Queries
  BY DriverAssumption DEF Producers
<1> QED
  BY <1>1 DEF Withdrawn, Sound, Producer, Contexts

(* A notice is posted once; one already posted or taken stays.             *)
LEMMA PostedSound ==
  ASSUME NEW h \in Producers, NEW p, Sound(h, p)
  PROVE  /\ Posted(p) \in Producer
         /\ Posted(p) = [p EXCEPT !.told = IF p.told = "none" THEN "posted" ELSE p.told]
BY DEF Posted, Sound, Producer

(* A wake reaches a reader that waits and changes nothing else.            *)
LEMMA WokenSound ==
  ASSUME NEW h \in Producers, NEW p, Sound(h, p)
  PROVE  /\ Sound(h, Woken(p))
         /\ Woken(p).reader # "waiting"
         /\ Woken(p) = [p EXCEPT !.reader = IF p.reader = "waiting" THEN "busy" ELSE p.reader]
BY DEF Woken, Sound, Producer

(* A producer with nothing left on the links may leave the driver's maps.  *)
LEMMA ForgottenSound ==
  ASSUME NEW h \in Producers, NEW p \in Producer, p.rounds = 0, ~p.ready, ~p.wire
  PROVE  /\ Sound(h, Forgotten(p))
         /\ Forgotten(p).ctx = "gone" /\ Forgotten(p).open = p.open
         /\ Forgotten(p).told = p.told
         /\ Forgotten(p).reader = IF p.reader = "waiting" THEN "busy" ELSE p.reader
BY DEF Forgotten, Woken, Sound, Producer, Contexts

(* A service that loses its last name is withdrawn and its caller told so. *)
LEMMA GivenUpSound ==
  ASSUME NEW h \in Services, NEW p, Sound(h, p), p.ctx = "live"
  PROVE  LET q == Withdrawn(Posted(p))
         IN /\ Sound(h, q) /\ q.ctx = "leaving" /\ q.open = p.open /\ q.reader = p.reader
            /\ p.open => q.told = "posted"
<1>1. GoodbyeRounds \in Nat \ {0} /\ h \notin Queries
  BY DriverAssumption DEF Producers
<1>2. CASE p.told = "none"
  BY <1>1, <1>2 DEF Withdrawn, Posted, Sound, Producer, Contexts
<1>3. CASE p.told # "none"
  <2>1. Posted(p) = p /\ ~p.open
    BY <1>3 DEF Posted, Sound
  <2> QED
    BY <2>1, WithdrawnSound
<1> QED
  BY <1>2, <1>3

(* A service set aside to be withdrawn later has its caller told at once.  *)
LEMMA ShelvedSound ==
  ASSUME NEW h \in Producers, NEW p, Sound(h, p), p.ctx = "live"
  PROVE  LET q == [Posted(p) EXCEPT !.ctx = "retired", !.due = 0, !.ending = FALSE]
         IN /\ Sound(h, q) /\ q.ctx = "retired" /\ q.open = p.open /\ q.reader = p.reader
            /\ p.open => q.told = "posted"
<1>1. CASE p.told = "none"
  BY <1>1 DEF Posted, Sound, Producer, Contexts
<1>2. CASE p.told # "none"
  <2>1. Posted(p) = p /\ ~p.open
    BY <1>2 DEF Posted, Sound
  <2> QED
    BY <2>1 DEF Sound, Producer, Contexts
<1> QED
  BY <1>1, <1>2

(* The counters of failures and of passes waited do not matter here.       *)
Alike(p, q) ==
  /\ q \in Producer
  /\ q.ctx = p.ctx /\ q.open = p.open /\ q.told = p.told /\ q.reader = p.reader
  /\ q.due = p.due /\ q.ending = p.ending /\ q.rounds = p.rounds /\ q.ready = p.ready
  /\ q.wire = p.wire

(* What is known of a producer does not depend on its counters.            *)
LEMMA AlikeSound ==
  ASSUME NEW h \in Producers, NEW p, NEW q, Sound(h, p), Alike(p, q)
  PROVE  Sound(h, q)
BY DEF Sound, Alike

(***************************************************************************)
(* The drivers' bookkeeping of failed sends and of passes changes only     *)
(* counters.                                                               *)
(***************************************************************************)
LEMMA CountersAside ==
  ASSUME NEW p \in Producer
  PROVE  /\ Alike(p, p)
         /\ Alike(p, [p EXCEPT !.failures = 0])
         /\ Alike(p, [p EXCEPT !.failures = @ + 1])
         /\ Alike(p, [p EXCEPT !.failures = @ + 1, !.waited = 0])
         /\ Alike(p, Overlooked(p))
<1>1. p.failures + 1 \in Nat /\ p.waited + 1 \in Nat
  BY DEF Producer
<1> QED
  BY <1>1 DEF Alike, Overlooked, Producer

(* Closing a handle leaves the producer itself as it was.                  *)
LEMMA DroppedSound ==
  ASSUME NEW h \in Producers, NEW p, Sound(h, p)
  PROVE  /\ Sound(h, Dropped(p))
         /\ Dropped(p).ctx = p.ctx /\ ~Dropped(p).open /\ Dropped(p).ending = p.ending
         /\ Dropped(p).due = p.due /\ Dropped(p).rounds = p.rounds /\ Dropped(p).ready = p.ready
         /\ Dropped(p).wire = p.wire
BY DEF Dropped, Sound, Producer

(***************************************************************************)
(* A datagram that is sent counts as an announcement only for a service,   *)
(* and leaves it able to withdraw it.                                      *)
(***************************************************************************)
LEMMA SentSound ==
  ASSUME NEW h \in Producers, NEW p, Sound(h, p), p.due # 0, NEW n \in Nat
  PROVE  /\ Sound(h, Sent(p, h, n))
         /\ Sent(p, h, n).ctx = "live" /\ Sent(p, h, n).open = p.open /\ ~Sent(p, h, n).ending
         /\ Sent(p, h, n).told = p.told /\ Sent(p, h, n).reader = p.reader
<1>1. h \in Queries => h \notin Services
  BY DriverAssumption DEF Producers
<1> DEFINE k == p.due - 1
<1>4. k \in Nat /\ p.ctx = "live" /\ ~p.ending
  BY DEF Sound, Producer
<1>2. CASE p.wire \/ (h \in Services /\ n > 0)
  <2>1. (p.wire \/ (h \in Services /\ n > 0)) = TRUE
    BY <1>2
  <2>2. Sent(p, h, n) = [p EXCEPT !.due = k, !.failures = 0, !.waited = 0, !.wire = TRUE]
    BY <2>1 DEF Sent
  <2> HIDE DEF k
  <2> QED
    BY <1>1, <1>2, <1>4, <2>2 DEF Sound, Producer
<1>3. CASE ~(p.wire \/ (h \in Services /\ n > 0))
  <2>1. (p.wire \/ (h \in Services /\ n > 0)) = FALSE
    BY <1>3
  <2>2. Sent(p, h, n) = [p EXCEPT !.due = k, !.failures = 0, !.waited = 0, !.wire = FALSE]
    BY <2>1 DEF Sent
  <2> QED
    BY <1>1, <1>3, <1>4, <2>2 DEF Sound, Producer
<1> QED
  BY <1>2, <1>3

(***************************************************************************)
(* A goodbye round takes one off the rounds to go; the last one takes the  *)
(* announcement off the links.                                             *)
(***************************************************************************)
LEMMA FarewelledSound ==
  ASSUME NEW h \in Producers, NEW p, Sound(h, p), p.rounds # 0
  PROVE  /\ Sound(h, Farewelled(p))
         /\ Farewelled(p).ctx = "leaving" /\ Farewelled(p).open = p.open
         /\ ~Farewelled(p).ending
         /\ Farewelled(p).told = p.told /\ Farewelled(p).reader = p.reader
         /\ ~Farewelled(p).ready
<1> DEFINE k == p.rounds - 1
<1>3. k \in Nat /\ p.ctx = "leaving" /\ ~p.ending
  BY DEF Sound, Producer
<1>1. CASE p.rounds > 1
  <2>1. (p.rounds > 1) = TRUE
    BY <1>1
  <2>2. Farewelled(p) = [p EXCEPT !.rounds = k, !.ready = FALSE, !.wire = TRUE]
    BY <2>1 DEF Farewelled
  <2>3. k # 0
    BY <1>1
  <2> QED
    BY <1>1, <1>3, <2>2, <2>3 DEF Sound, Producer
<1>2. CASE ~(p.rounds > 1)
  <2>1. (p.rounds > 1) = FALSE
    BY <1>2
  <2>2. Farewelled(p) = [p EXCEPT !.rounds = k, !.ready = FALSE, !.wire = FALSE]
    BY <2>1 DEF Farewelled
  <2> QED
    BY <1>2, <1>3, <2>2 DEF Sound, Producer
<1> QED
  BY <1>1, <1>2

(* A producer enters the maps live, open and with nothing sent.            *)
LEMMA StartedSound ==
  ASSUME NEW h \in Producers
  PROVE  /\ Sound(h, Started(h)) /\ Sound(h, NoProducer)
         /\ Started(h).ctx = "live" /\ Started(h).open /\ ~Started(h).ending
         /\ ~NoProducer.open /\ NoProducer.ctx = "absent"
BY DEF Started, NoProducer, Sound, Producer, Contexts

(* A driver that ends leaves no round to go and nothing in its maps.       *)
LEMMA DiscardedSound ==
  ASSUME NEW h \in Producers, NEW p, Sound(h, p)
  PROVE  /\ Discarded(p) \in Producer /\ Discarded(p).rounds = 0 /\ ~Discarded(p).ready
         /\ Discarded(p).ctx \in {"absent", "gone"} /\ Discarded(p).wire = p.wire
<1>1. CASE p.ctx = "absent"
  BY <1>1 DEF Discarded, Sound, Producer
<1>2. CASE p.ctx # "absent"
  <2>1. /\ Forgotten(p) \in Producer /\ Forgotten(p).ctx = "gone"
        /\ Forgotten(p).wire = p.wire
    BY DEF Forgotten, Woken, Sound, Producer, Contexts
  <2>2. Discarded(p) = [Forgotten(p) EXCEPT !.rounds = 0, !.ready = FALSE]
    BY <1>2 DEF Discarded
  <2>3. PICK q \in Producer : q = Forgotten(p)
    BY <2>1
  <2>4. [q EXCEPT !.rounds = 0, !.ready = FALSE] \in Producer
    BY DEF Producer
  <2> QED
    BY <2>1, <2>2, <2>3, <2>4 DEF Producer
<1> QED
  BY <1>1, <1>2

(* A step that prompts a producer prompts only a live one.                 *)
LEMMA PromptedSound ==
  ASSUME NEW P \in [Producers -> Producer], NEW g \in Producers, NEW limit \in Nat,
         Prompted(P, g, limit), \A h \in Producers : Sound(h, P[h])
  PROVE  /\ prod' \in [Producers -> Producer]
         /\ \A h \in Producers :
              /\ Sound(h, prod'[h])
              /\ prod'[h].ctx = P[h].ctx /\ prod'[h].open = P[h].open
              /\ prod'[h].told = P[h].told /\ prod'[h].reader = P[h].reader
              /\ prod'[h].ready = P[h].ready /\ prod'[h].rounds = P[h].rounds
              /\ prod'[h].ctx # "live" => prod'[h] = P[h]
<1>1. P[g] \in Producer /\ Sound(g, P[g])
  OBVIOUS
<1>2. CASE prod' = [P EXCEPT ![g].due = @ + 1]
  BY <1>1, <1>2 DEF Prompted, Sound, Producer
<1>3. CASE prod' = [P EXCEPT ![g].ending = TRUE, ![g].due = 0]
  BY <1>1, <1>3 DEF Prompted, Sound, Producer
<1> QED
  BY <1>2, <1>3 DEF Prompted

(* Firing the timers prompts at most one live producer.                    *)
LEMMA FiredSound ==
  ASSUME NEW P \in [Producers -> Producer], fire_timeouts(P), \A h \in Producers : Sound(h, P[h])
  PROVE  /\ prod' \in [Producers -> Producer]
         /\ \A h \in Producers :
              /\ Sound(h, prod'[h])
              /\ prod'[h].ctx = P[h].ctx /\ prod'[h].open = P[h].open
              /\ prod'[h].told = P[h].told /\ prod'[h].reader = P[h].reader
              /\ prod'[h].ready = P[h].ready /\ prod'[h].rounds = P[h].rounds
              /\ prod'[h].ctx # "live" => prod'[h] = P[h]
BY PromptedSound DEF fire_timeouts

-----------------------------------------------------------------------------
(* smoltcp.                                                                *)

(* What smoltcp keeps true of one producer.                                *)
SmoltcpFine(h, p) ==
  Sound(h, p) /\ Told(p) /\ ~Orphaned(p) /\ (p.open /\ p.ctx = "gone" => p.reader = "ended")

(* A smoltcp step keeps the invariant if it keeps it of every producer.    *)
LEMMA SmoltcpMet ==
  ASSUME DriverInv, driver = "smoltcp", driver' = driver, own' = own \/ own' = signal(own)
            \/ own' = [own EXCEPT !.kick = FALSE],
         stage' \in {"park", "recv", "tx", "goodbye"},
         prod' = [h \in Producers |-> prod'[h]],
         \A h \in Producers : SmoltcpFine(h, prod'[h])
  PROVE  DriverInv'
BY DEF DriverInv, Common, Inert, SmoltcpInv, SmoltcpFine, Sound, signal

(***************************************************************************)
(* Every step of smoltcp's poll, of its callers and of its readers keeps   *)
(* it: deregistration and the drop of a handle act on the slot in the same *)
(* call.                                                                   *)
(***************************************************************************)
LEMMA SmoltcpStep ==
  ASSUME DriverInv, driver = "smoltcp",
         SmoltcpLoop \/ SmoltcpWorld \/ (\E h \in Producers : SmoltcpReads(h))
  PROVE  DriverInv'
<1>1. /\ \A h \in Producers : SmoltcpFine(h, prod[h])
      /\ prod \in [Producers -> Producer] /\ stage \in {"park", "recv", "tx", "goodbye"}
  BY DEF DriverInv, Common, SmoltcpInv, SmoltcpFine
<1>2. ASSUME NEW why \in {"kick", "timer", "packet"}, SmoltcpPumps(why)
      PROVE  DriverInv'
  <2>1. fire_timeouts(prod)
    BY <1>2 DEF SmoltcpPumps
  <2>2. \A h \in Producers : SmoltcpFine(h, prod'[h])
    BY <1>1, <2>1, FiredSound DEF SmoltcpFine, Told, Orphaned
  <2>3. prod' = [h \in Producers |-> prod'[h]]
    BY <1>1, <2>1, FiredSound DEF SmoltcpFine
  <2> QED
    BY <1>2, <2>2, <2>3, SmoltcpMet DEF SmoltcpPumps
<1>3. ASSUME NEW g \in Producers, SmoltcpHears(g)
      PROVE  DriverInv'
  <2>1. Prompted(prod, g, MaxDue) /\ MaxDue \in Nat
    BY <1>3, DriverAssumption DEF SmoltcpHears, Heard
  <2>2. \A h \in Producers : SmoltcpFine(h, prod'[h])
    BY <1>1, <2>1, PromptedSound DEF SmoltcpFine, Told, Orphaned
  <2>3. prod' = [h \in Producers |-> prod'[h]]
    BY <1>1, <2>1, PromptedSound DEF SmoltcpFine
  <2> QED
    BY <1>1, <1>3, <2>2, <2>3, SmoltcpMet DEF SmoltcpHears
<1>4. ASSUME NEW g \in Producers, SmoltcpAsks(g)
      PROVE  DriverInv'
  <2>1. \A h \in Producers : SmoltcpFine(h, prod'[h])
    BY <1>1, <1>4, StartedSound DEF SmoltcpAsks, SmoltcpFine, Told, Orphaned
  <2> QED
    BY <1>1, <1>4, <2>1, SmoltcpMet DEF SmoltcpAsks, sKeep
<1>5. ASSUME NEW g \in Producers, SmoltcpDrops(g)
      PROVE  DriverInv'
  <2> DEFINE p == Dropped(prod[g])
  <2>1. Sound(g, p) /\ p.ctx = prod[g].ctx /\ ~p.open /\ p.ctx # "absent"
    BY <1>1, <1>5, DroppedSound DEF SmoltcpFine, SmoltcpDrops
  <2>2. g \in Queries \/ p.ctx = "freed" => p.rounds = 0 /\ ~p.ready /\ ~p.wire /\ p.ctx # "leaving"
    BY <2>1 DEF Sound
  <2>3. g \notin Queries => g \in Services
    BY DEF Producers
  <2>4. SmoltcpFine(g, prod'[g])
    <3>1. CASE g \in Queries \/ p.ctx = "freed"
      <4>1. prod'[g] = Forgotten(p) /\ p \in Producer
        BY <1>1, <1>5, <2>1, <3>1 DEF SmoltcpDrops, Sound
      <4> QED
        BY <2>1, <2>2, <3>1, <4>1, ForgottenSound DEF SmoltcpFine, Told, Orphaned
    <3>2. CASE ~(g \in Queries \/ p.ctx = "freed")
      <4>1. prod'[g] = Withdrawn(p)
        BY <1>1, <1>5, <3>2 DEF SmoltcpDrops
      <4>2. p.ctx \in {"live", "retired", "leaving", "gone"}
        BY <2>1, <3>2 DEF Sound, Producer, Contexts
      <4> HIDE DEF p
      <4> QED
        BY <2>1, <2>3, <3>2, <4>1, <4>2, WithdrawnSound DEF SmoltcpFine, Told, Orphaned
    <3> QED
      BY <3>1, <3>2
  <2>5. \A h \in Producers : h # g => prod'[h] = prod[h]
    BY <1>1, <1>5 DEF SmoltcpDrops
  <2>6. prod' = [h \in Producers |-> prod'[h]]
    BY <1>1, <1>5 DEF SmoltcpDrops
  <2> QED
    BY <1>1, <1>5, <2>4, <2>5, <2>6, SmoltcpMet DEF SmoltcpDrops, sKeep
<1>6. ASSUME NEW g \in Producers, SmoltcpReads(g)
      PROVE  DriverInv'
  <2> DEFINE p == [prod[g] EXCEPT !.told = "taken", !.reader = "ended", !.ending = FALSE]
  <2>1. Sound(g, prod[g]) /\ prod[g] \in Producer /\ prod[g].open
    BY <1>1, <1>6 DEF SmoltcpFine, SmoltcpReads, Sound
  <2>2. p \in Producer /\ p.ctx = prod[g].ctx /\ p.open /\ p.reader = "ended"
    BY <2>1 DEF Producer
  <2>3. g \in Queries => g \notin Services
    BY DriverAssumption DEF Producers
  <2> DEFINE v == CASE g \in Queries -> [p EXCEPT !.ctx = "retired"]
                    [] g \in Services /\ p.ctx = "freed" -> Forgotten(p)
                    [] OTHER -> p
  <2>7. prod' = [prod EXCEPT ![g] = v] /\ stage' = stage /\ own' = own /\ driver' = driver
    BY <1>6, Zenon DEF SmoltcpReads, sKeep
  <2>8. prod'[g] = v /\ prod' = [h \in Producers |-> prod'[h]]
        /\ \A h \in Producers : h # g => prod'[h] = prod[h]
    <3> HIDE DEF v
    <3> QED
      BY <1>1, <2>7
  <2>9. ASSUME SmoltcpFine(g, prod'[g]) PROVE DriverInv'
    <3> HIDE DEF v
    <3> QED
      BY <1>1, <2>7, <2>8, <2>9, SmoltcpMet
  <2>4. CASE g \in Queries
    <3>1. prod'[g] = [p EXCEPT !.ctx = "retired"]
      BY <2>3, <2>4, <2>8
    <3>2. prod[g].due = 0
      BY <1>6, <2>1, <2>4 DEF SmoltcpReads, Sound
    <3>3. SmoltcpFine(g, prod'[g])
      BY <2>1, <2>3, <2>4, <3>1, <3>2 DEF SmoltcpFine, Told, Orphaned, Sound, Producer, Contexts
    <3> QED
      BY <2>9, <3>3
  <2>5. CASE g \notin Queries /\ p.ctx = "freed"
    <3>1. prod'[g] = Forgotten(p)
      BY <2>5, <2>8 DEF Producers
    <3>2. p.rounds = 0 /\ ~p.ready /\ ~p.wire
      BY <2>1, <2>5 DEF Sound
    <3>3. SmoltcpFine(g, prod'[g])
      <4> HIDE DEF p
      <4> QED
        BY <2>2, <3>1, <3>2, ForgottenSound DEF SmoltcpFine, Told, Orphaned
    <3> QED
      BY <2>9, <3>3
  <2>6. CASE g \notin Queries /\ p.ctx # "freed"
    <3>1. prod'[g] = p
      BY <2>6, <2>8 DEF Producers
    <3>2. prod[g].told = "posted"
      BY <1>6, <2>6 DEF SmoltcpReads
    <3>3. SmoltcpFine(g, prod'[g])
      BY <1>1, <2>1, <2>6, <3>1, <3>2 DEF SmoltcpFine, Told, Orphaned, Sound, Producer
    <3> QED
      BY <2>9, <3>3
  <2> QED
    BY <2>4, <2>5, <2>6
<1>7. CASE SmoltcpUpdates \/ SmoltcpSent
  <2>1. ASSUME NEW h \in Producers
        PROVE  SmoltcpFine(h, drain_service_updates[h])
    <3>1. CASE h \in Services /\ Live(h) /\ prod[h].ending
      <4>1. prod[h].open
        BY <1>1, <3>1 DEF SmoltcpFine, Orphaned, Live
      <4> QED
        BY <1>1, <3>1, <4>1, GivenUpSound
        DEF drain_service_updates, retire_origin, Live, SmoltcpFine, Told, Orphaned
    <3> QED
      BY <1>1, <3>1 DEF drain_service_updates
  <2> QED
    BY <1>7, <2>1, SmoltcpMet DEF SmoltcpUpdates, SmoltcpSent, drain_service_updates, sKeep
<1>8. ASSUME NEW g \in Producers, NEW n \in Fanouts, SmoltcpSends(g, n)
      PROVE  DriverInv'
  <2>1. n \in Nat /\ prod[g].due # 0 /\ prod[g].ctx = "live"
    BY <1>1, <1>8, DriverAssumption DEF SmoltcpSends, Pending, Live, SmoltcpFine, Sound, Producer
  <2>2. SmoltcpFine(g, Sent(prod[g], g, n))
    BY <1>1, <2>1, SentSound DEF SmoltcpFine, Told, Orphaned
  <2> QED
    BY <1>1, <1>8, <2>2, SmoltcpMet DEF SmoltcpSends, sKeep
<1>9. ASSUME NEW g \in Producers, SmoltcpRetires(g)
      PROVE  DriverInv'
  <2>1. prod[g].ctx = "live" /\ prod[g].open
    BY <1>1, <1>9 DEF SmoltcpRetires, Pending, Live, SmoltcpFine, Orphaned
  <2>2. g \in Services => SmoltcpFine(g, retire_origin(prod[g]))
    BY <1>1, <2>1, GivenUpSound DEF retire_origin, SmoltcpFine, Told, Orphaned
  <2>3. SmoltcpFine(g, retire_query(prod[g]))
    BY <1>1, <2>1, ShelvedSound DEF retire_query, SmoltcpFine, Told, Orphaned
  <2> QED
    BY <1>1, <1>9, <2>2, <2>3, SmoltcpMet DEF SmoltcpRetires
<1>10. ASSUME NEW g \in Services, SmoltcpGoodbye(g)
       PROVE  DriverInv'
  <2>1. g \in Producers /\ prod[g].rounds # 0
    BY <1>1, <1>10 DEF SmoltcpGoodbye, GoodbyeDue, SmoltcpFine, Sound, Producers
  <2>2. SmoltcpFine(g, Farewelled(prod[g]))
    BY <1>1, <2>1, FarewelledSound DEF SmoltcpFine, Told, Orphaned, Sound
  <2> QED
    BY <1>1, <1>10, <2>1, <2>2, SmoltcpMet DEF SmoltcpGoodbye, sKeep
<1>11. CASE SmoltcpSleeps
  <2>1. ASSUME NEW h \in Producers, h \in Completed
        PROVE  SmoltcpFine(h, SlotOrFreed(prod[h]))
    <3>1. /\ prod[h].ctx = "leaving" /\ prod[h].rounds = 0 /\ prod[h] \in Producer
          /\ ~prod[h].ready /\ ~prod[h].wire
      BY <1>1, <2>1 DEF Completed, SmoltcpFine, Sound
    <3>2. CASE prod[h].told # "posted" \/ ~prod[h].open
      BY <1>1, <3>1, <3>2, ForgottenSound DEF SlotOrFreed, SmoltcpFine, Told, Orphaned
    <3>3. CASE ~(prod[h].told # "posted" \/ ~prod[h].open)
      <4>1. h \notin Queries
        BY <1>1, <3>1 DEF SmoltcpFine, Sound
      <4> QED
        BY <1>1, <3>1, <3>3, <4>1
        DEF SlotOrFreed, SmoltcpFine, Told, Orphaned, Sound, Producer, Contexts
    <3> QED
      BY <3>2, <3>3
  <2> QED
    BY <1>1, <1>11, <2>1, SmoltcpMet DEF SmoltcpSleeps, sKeep
<1> QED
  BY <1>2, <1>3, <1>4, <1>5, <1>6, <1>7, <1>8, <1>9, <1>10, <1>11 DEF SmoltcpLoop, SmoltcpWorld

-----------------------------------------------------------------------------
(* mio.                                                                    *)

(* What mio keeps true of one producer.                                    *)
MioFine(h, p) == Sound(h, p) /\ Told(p) /\ ~Orphaned(p) /\ p.ctx # "freed"

(* mio's accounting of failures and turns cannot disturb it.               *)
LEMMA MioAlike ==
  ASSUME NEW h \in Producers, NEW p, NEW q, MioFine(h, p), Alike(p, q)
  PROVE  MioFine(h, q)
BY AlikeSound DEF MioFine, Told, Orphaned, Alike

(* A mio step keeps the invariant if it keeps it of every producer.        *)
LEMMA MioMet ==
  ASSUME DriverInv, driver = "mio", driver' = driver, MioShape(own'),
         stage' \in {"park", "recv", "tx", "goodbye"}, stage' = "recv" => ~unsealed',
         prod' = [h \in Producers |-> prod'[h]],
         \A h \in Producers : MioFine(h, prod'[h])
  PROVE  DriverInv'
BY DEF DriverInv, Common, Inert, MioInv, MioFine, Sound

(* A turn gives up, or serves, the head of the line.                       *)
LEMMA MioRetires ==
  ASSUME NEW h \in Producers, NEW p, MioFine(h, p), p.ctx = "live"
  PROVE  MioFine(h, retire_service(p))
BY ShelvedSound DEF retire_service, MioFine, Told, Orphaned

(* shutdown gives every service up that is still there.                    *)
LEMMA ShutDownFine ==
  ASSUME prod \in [Producers -> Producer], \A h \in Producers : MioFine(h, prod[h]),
         NEW h \in Producers
  PROVE  /\ MioFine(h, ShutDown[h])
         /\ h \in Services => ShutDown[h].ctx \in {"absent", "gone", "leaving"}
<1>1. CASE h \in Services /\ Present(h)
  <2> DEFINE p == Dropped(prod[h])
  <2>1. Sound(h, p) /\ p.ctx = prod[h].ctx /\ ~p.open /\ p.ctx \notin {"absent", "gone", "freed"}
    BY <1>1, DroppedSound DEF MioFine, Present
  <2>2. ShutDown[h] = Withdrawn(p)
    BY <1>1 DEF ShutDown
  <2>3. p.ctx \in {"live", "retired", "leaving"}
    BY <2>1 DEF Sound, Producer, Contexts
  <2> HIDE DEF p
  <2> QED
    BY <1>1, <2>1, <2>2, <2>3, WithdrawnSound DEF MioFine, Told, Orphaned
<1>2. CASE ~(h \in Services /\ Present(h))
  BY <1>2 DEF ShutDown, Present
<1> QED
  BY <1>1, <1>2

(***************************************************************************)
(* Every step of mio's turn, of its callers and of its readers keeps it: a *)
(* turn that is capped leaves its line of producers as sound as it found   *)
(* it.                                                                     *)
(***************************************************************************)
LEMMA MioStep ==
  ASSUME DriverInv, driver = "mio",
         MioLoop \/ MioWorld \/ (\E h \in Producers : MioReads(h))
  PROVE  DriverInv'
<1>1. /\ \A h \in Producers : MioFine(h, prod[h]) \/ stage = "ended"
      /\ prod \in [Producers -> Producer] /\ MioShape(own)
      /\ stage \in {"park", "recv", "tx", "goodbye", "ended"}
      /\ stage = "recv" => ~unsealed
  BY DEF DriverInv, Common, MioInv, MioFine
<1>2. ASSUME NEW g \in Producers, MioAsks(g)
      PROVE  DriverInv'
  <2>1. stage = "park" /\ stage' = stage /\ driver' = driver
    BY <1>2 DEF MioAsks, Yields
  <2>2. MioShape(own')
    BY <1>1, <1>2 DEF MioAsks, MioShape
  <2>3. \A h \in Producers : MioFine(h, prod'[h])
    BY <1>1, <1>2, <2>1, StartedSound DEF MioAsks, MioFine, Told, Orphaned
  <2> QED
    BY <1>1, <1>2, <2>1, <2>2, <2>3, MioMet DEF MioAsks
<1>3. ASSUME NEW g \in Producers, MioDrops(g)
      PROVE  DriverInv'
  <2> DEFINE p == Dropped(prod[g])
  <2>1. stage = "park" /\ stage' = stage /\ driver' = driver /\ MioFine(g, prod[g])
    BY <1>1, <1>3 DEF MioDrops, Yields
  <2>2. MioShape(own')
    BY <1>1, <1>3 DEF MioDrops, MioShape
  <2>3. Sound(g, p) /\ p.ctx = prod[g].ctx /\ ~p.open /\ p.ctx \notin {"absent", "gone", "freed"}
    BY <2>1, <1>3, DroppedSound DEF MioFine, MioDrops, Present
  <2>4. MioFine(g, prod'[g])
    <3>1. CASE g \in Services
      <4>1. prod'[g] = Withdrawn(p)
        BY <1>1, <1>3, <3>1 DEF MioDrops
      <4>2. p.ctx \in {"live", "retired", "leaving"}
        BY <2>3 DEF Sound, Producer, Contexts
      <4> HIDE DEF p
      <4> QED
        BY <2>3, <3>1, <4>1, <4>2, WithdrawnSound DEF MioFine, Told, Orphaned
    <3>2. CASE g \notin Services
      <4>1. prod'[g] = Forgotten(p) /\ g \in Queries
        BY <1>1, <1>3, <3>2 DEF MioDrops, Producers
      <4>2. p \in Producer /\ p.rounds = 0 /\ ~p.ready /\ ~p.wire
        BY <2>3, <4>1 DEF Sound
      <4> HIDE DEF p
      <4> QED
        BY <2>3, <4>1, <4>2, ForgottenSound DEF MioFine, Told, Orphaned
    <3> QED
      BY <3>1, <3>2
  <2> QED
    BY <1>1, <1>3, <2>1, <2>2, <2>4, MioMet DEF MioDrops
<1>4. ASSUME NEW g \in Producers, MioReads(g)
      PROVE  DriverInv'
  <2>1. stage = "park" /\ stage' = stage /\ driver' = driver /\ MioFine(g, prod[g]) /\ own' = own
    BY <1>1, <1>4 DEF MioReads, Yields, mKeep
  <2>2. prod'[g] = [prod[g] EXCEPT !.told = "taken", !.reader = "ended"]
    BY <1>1, <1>4 DEF MioReads
  <2>3. MioFine(g, prod'[g])
    <3>1. prod[g].open /\ prod[g].told = "posted"
      BY <1>4 DEF MioReads
    <3> QED
      BY <2>1, <2>2, <3>1 DEF MioFine, Told, Orphaned, Sound, Producer
  <2> QED
    BY <1>1, <1>4, <2>1, <2>3, MioMet DEF MioReads
<1>5. ASSUME NEW readable \in BOOLEAN, MioTicks(readable)
      PROVE  DriverInv'
  BY <1>1, <1>5, MioMet DEF MioTicks, SealsFirst
<1>6. ASSUME NEW g \in Producers, MioHears(g)
      PROVE  DriverInv'
  <2>1. Prompted(prod, g, MaxDue) /\ MaxDue \in Nat /\ stage = "recv"
    BY <1>6, DriverAssumption DEF MioHears, Heard
  <2>2. \A h \in Producers : MioFine(h, prod'[h])
    BY <1>1, <2>1, PromptedSound DEF MioFine, Told, Orphaned
  <2>3. prod' = [h \in Producers |-> prod'[h]]
    BY <1>1, <2>1, PromptedSound DEF MioFine
  <2> QED
    BY <1>1, <1>6, <2>2, <2>3, MioMet DEF MioHears
<1>7. CASE MioFires
  <2>1. fire_timeouts(prod) /\ stage = "recv" /\ MioShape(own')
    BY <1>1, <1>7 DEF MioFires, MioShape
  <2>2. \A h \in Producers : MioFine(h, prod'[h])
    BY <1>1, <2>1, FiredSound DEF MioFine, Told, Orphaned
  <2>3. prod' = [h \in Producers |-> prod'[h]]
    BY <1>1, <2>1, FiredSound DEF MioFine
  <2> QED
    BY <1>7, <2>1, <2>2, <2>3, MioMet DEF MioFires
<1>8. ASSUME NEW n \in Fanouts, MioSends(n)
      PROVE  DriverInv'
  <2>1. stage = "tx" /\ stage' = stage /\ driver' = driver /\ MioShape(own') /\ n \in Nat
    BY <1>1, <1>8, DriverAssumption DEF MioSends, Serving, MioShape
  <2>2. ASSUME NEW h \in Producers, h = Offered
        PROVE  MioFine(h, Sent(prod[h], h, n))
    <3>1. prod[h].ctx = "live" /\ prod[h].due # 0 /\ MioFine(h, prod[h])
      BY <1>1, <1>8, <2>1, <2>2 DEF MioSends, Live, MioFine, Sound, Producer
    <3> QED
      BY <2>1, <3>1, SentSound DEF MioFine, Told, Orphaned
  <2>3. \A h \in Producers : MioFine(h, prod'[h])
    BY <1>1, <1>8, <2>1, <2>2 DEF MioSends
  <2> QED
    BY <1>1, <1>8, <2>1, <2>3, MioMet DEF MioSends
<1>9. CASE MioTurnOver
  <2>1. stage = "tx" /\ stage' = stage /\ driver' = driver /\ MioShape(own')
    BY <1>1, <1>9 DEF MioTurnOver, Serving, TurnOver, MioShape, mKeep
  <2>2. \A h \in Producers :
          \/ prod'[h] = prod[h]
          \/ prod'[h] = [prod[h] EXCEPT !.failures = 0]
    BY <1>1, <1>9 DEF MioTurnOver, Producer
  <2>3. ASSUME NEW h \in Producers PROVE MioFine(h, prod'[h])
    BY <1>1, <2>1, <2>2, CountersAside, MioAlike
  <2> QED
    BY <1>1, <1>9, <2>1, <2>3, MioMet DEF MioTurnOver
<1>10. CASE MioEncodeFails \/ MioUndeliverable
  <2>1. /\ stage = "tx" /\ stage' = stage /\ driver' = driver /\ MioShape(own')
        /\ prod[Offered].due > 0 /\ prod[Offered].ctx = "live"
    BY <1>1, <1>10 DEF MioEncodeFails, MioUndeliverable, Serving, TurnOver, MioShape, Live
  <2>2. ASSUME NEW h \in Producers, h = Offered
        PROVE  /\ MioFine(h, retire_service(Sent(prod[h], h, 0)))
               /\ MioFine(h, [prod[h] EXCEPT !.failures = @ + 1, !.waited = 0])
               /\ MioFine(h, retire_service([prod[h] EXCEPT !.failures = @ + 1, !.waited = 0]))
    <3>1. prod[h].ctx = "live" /\ prod[h].due # 0 /\ MioFine(h, prod[h]) /\ prod[h].failures + 1 \in Nat
      BY <1>1, <2>1, <2>2 DEF MioFine, Sound, Producer
    <3>2. MioFine(h, Sent(prod[h], h, 0)) /\ Sent(prod[h], h, 0).ctx = "live"
      BY <3>1, SentSound DEF MioFine, Told, Orphaned
    <3>3. /\ MioFine(h, [prod[h] EXCEPT !.failures = @ + 1, !.waited = 0])
          /\ [prod[h] EXCEPT !.failures = @ + 1, !.waited = 0].ctx = "live"
      <4>1. Alike(prod[h], [prod[h] EXCEPT !.failures = @ + 1, !.waited = 0])
        BY <1>1, CountersAside
      <4> QED
        BY <3>1, <4>1, MioAlike DEF Alike
    <3> QED
      BY <3>2, <3>3, MioRetires
  <2>3. \A h \in Producers : MioFine(h, prod'[h])
    BY <1>1, <1>10, <2>1, <2>2 DEF MioEncodeFails, MioUndeliverable
  <2>4. prod' = [h \in Producers |-> prod'[h]]
    BY <1>1, <1>10 DEF MioEncodeFails, MioUndeliverable
  <2> QED
    BY <2>1, <2>3, <2>4, MioMet
<1>11. CASE MioPushes
  <2> DEFINE ended(h) == Live(h) /\ prod[h].ending
             over(h) == h \in Queries /\ (ended(h) \/ prod[h].ctx = "retired")
  <2>1. /\ stage = "tx" /\ stage' = "goodbye" /\ driver' = driver
        /\ own' = [own EXCEPT !.line = Without(@, {h \in Producers : over(h)})]
        /\ prod' = [h \in Producers |->
              IF over(h) THEN Forgotten(Posted(prod[h]))
              ELSE IF ended(h) THEN retire_service(prod[h])
              ELSE Overlooked(prod[h])]
    BY <1>11, Zenon DEF MioPushes, mKeep
  <2>2. ASSUME NEW line PROVE MioShape([own EXCEPT !.line = line])
    BY <1>1 DEF MioShape
  <2>3. MioShape(own')
    BY <2>1, <2>2, Zenon
  <2>4. ASSUME NEW h \in Producers PROVE MioFine(h, prod'[h])
    <3>1. MioFine(h, prod[h])
      BY <1>1, <2>1
    <3>2. CASE over(h)
      <4>1. /\ h \in Queries /\ prod[h].rounds = 0 /\ ~prod[h].ready /\ ~prod[h].wire
            /\ prod[h] \in Producer /\ prod[h].ctx \in {"live", "retired"}
        BY <3>1, <3>2 DEF MioFine, Sound, Live
      <4>2. /\ Posted(prod[h]) \in Producer /\ Posted(prod[h]).rounds = 0
            /\ ~Posted(prod[h]).ready /\ ~Posted(prod[h]).wire
            /\ Posted(prod[h]).open = prod[h].open
            /\ Posted(prod[h]).reader = prod[h].reader
            /\ Posted(prod[h]).told = IF prod[h].told = "none" THEN "posted" ELSE prod[h].told
        BY <4>1 DEF Posted, Producer
      <4> QED
        BY <2>1, <3>1, <3>2, <4>1, <4>2, ForgottenSound DEF MioFine, Told, Orphaned, Sound
    <3>3. CASE ~over(h) /\ ended(h)
      BY <2>1, <3>1, <3>3, MioRetires DEF Live
    <3>4. CASE ~over(h) /\ ~ended(h)
      <4>1. prod'[h] = Overlooked(prod[h]) /\ Alike(prod[h], Overlooked(prod[h]))
        BY <1>1, <2>1, <3>4, CountersAside
      <4> QED
        BY <3>1, <4>1, MioAlike
    <3> QED
      BY <3>2, <3>3, <3>4
  <2> HIDE DEF over, ended
  <2> QED
    BY <2>1, <2>3, <2>4, MioMet
<1>12. CASE MioShutdown
  <2>1. stage = "park" /\ stage' = stage /\ driver' = driver /\ MioShape(own')
    BY <1>1, <1>12 DEF MioShutdown, Yields, MioShape, mKeep
  <2>2. \A h \in Producers : MioFine(h, prod'[h])
    BY <1>1, <1>12, <2>1, ShutDownFine DEF MioShutdown
  <2>3. prod' = [h \in Producers |-> prod'[h]]
    BY <1>12 DEF MioShutdown, ShutDown
  <2> QED
    BY <2>1, <2>2, <2>3, MioMet
<1>13. ASSUME NEW n \in Fanouts, MioGoodbyes(n)
       PROVE  DriverInv'
  <2> DEFINE begun == [h \in Services |-> begin_service_withdrawal(prod[h])]
             sent == [h \in Services |-> IF begun[h].ready THEN Farewelled(begun[h]) ELSE begun[h]]
             done == {h \in Services : sent[h].ctx = "leaving" /\ sent[h].rounds = 0}
  <2>1. /\ stage = "goodbye" /\ stage' = "park" /\ driver' = driver
        /\ own' = [own EXCEPT !.line = Without(@, done)]
        /\ prod' = [h \in Producers |->
              IF h \in Queries THEN prod[h] ELSE IF h \in done THEN Forgotten(sent[h])
              ELSE sent[h]]
    BY <1>13, Zenon DEF MioGoodbyes
  <2>2. ASSUME NEW line PROVE MioShape([own EXCEPT !.line = line])
    BY <1>1 DEF MioShape
  <2>3. MioShape(own')
    BY <2>1, <2>2, Zenon
  <2>4. ASSUME NEW h \in Services
        PROVE  MioFine(h, sent[h])
    <3>1. MioFine(h, prod[h]) /\ h \in Producers
      BY <1>1, <2>1 DEF Producers
    <3>2. MioFine(h, begun[h])
      BY <3>1, GivenUpSound, WithdrawnSound DEF begin_service_withdrawal, MioFine, Told, Orphaned
    <3>3. begun[h].ready => begun[h].rounds # 0 /\ begun[h].ctx = "leaving"
      BY <3>2 DEF MioFine, Sound
    <3> HIDE DEF begun
    <3>4. begun[h].ready => MioFine(h, Farewelled(begun[h]))
      BY <3>1, <3>2, <3>3, FarewelledSound DEF MioFine, Told, Orphaned
    <3> QED
      BY <3>2, <3>4
  <2>5. ASSUME NEW h \in done
        PROVE  MioFine(h, Forgotten(sent[h]))
    <3>1. /\ MioFine(h, sent[h]) /\ h \in Producers /\ sent[h].ctx = "leaving"
          /\ sent[h].rounds = 0
      BY <2>4 DEF Producers
    <3> HIDE DEF sent
    <3>2. sent[h] \in Producer /\ ~sent[h].ready /\ ~sent[h].wire
      BY <3>1 DEF MioFine, Sound
    <3> QED
      BY <3>1, <3>2, ForgottenSound DEF MioFine, Told, Orphaned
  <2> HIDE DEF sent, done
  <2>6. ASSUME NEW h \in Producers PROVE MioFine(h, prod'[h])
    BY <1>1, <2>1, <2>4, <2>5, <2>6 DEF Producers
  <2> QED
    BY <2>1, <2>3, <2>6, MioMet
<1>14. CASE MioDropped
  <2> DEFINE P == [h \in Producers |-> IF ShutDown[h].ready THEN Farewelled(ShutDown[h])
                                      ELSE ShutDown[h]]
  <2>1. /\ stage = "park" /\ stage' = "ended" /\ driver' = driver /\ own' = own
        /\ backstopped' = (\E h \in Services : P[h].rounds > 0)
        /\ prod' = [h \in Producers |-> [Discarded(P[h]) EXCEPT !.open = FALSE]]
    BY <1>14, Zenon DEF MioDropped, Yields, mKeep
  <2>2. ASSUME NEW h \in Producers
        PROVE  /\ Sound(h, P[h]) /\ P[h].ctx # "freed"
               /\ h \in Services => P[h].ctx \in {"absent", "gone", "leaving"}
    <3>1. MioFine(h, ShutDown[h])
          /\ (h \in Services => ShutDown[h].ctx \in {"absent", "gone", "leaving"})
      BY <1>1, <2>1, ShutDownFine
    <3>2. CASE ShutDown[h].ready
      <4>1. ShutDown[h].rounds # 0 /\ ShutDown[h].ctx = "leaving"
        BY <3>1, <3>2 DEF MioFine, Sound
      <4> QED
        <5>1. P[h] = Farewelled(ShutDown[h])
          BY <3>2
        <5>2. Sound(h, Farewelled(ShutDown[h])) /\ Farewelled(ShutDown[h]).ctx = "leaving"
          BY <3>1, <4>1, FarewelledSound DEF MioFine
        <5> QED
          BY <5>1, <5>2
    <3>3. CASE ~ShutDown[h].ready
      BY <3>1, <3>3 DEF MioFine
    <3> QED
      BY <3>2, <3>3
  <2> HIDE DEF P
  <2>3. ASSUME NEW h \in Producers
        PROVE  /\ prod'[h] \in Producer /\ prod'[h].rounds = 0 /\ ~prod'[h].open
               /\ prod'[h].ctx \in {"absent", "gone"}
               /\ h \in Services /\ P[h].rounds = 0 => ~prod'[h].wire
    <3>1. prod'[h] = [Discarded(P[h]) EXCEPT !.open = FALSE]
      BY <2>1
    <3>2. h \in Services /\ P[h].rounds = 0 => ~P[h].wire
      BY <2>2 DEF Sound
    <3>3. /\ Discarded(P[h]) \in Producer /\ Discarded(P[h]).rounds = 0
          /\ Discarded(P[h]).ctx \in {"absent", "gone"} /\ Discarded(P[h]).wire = P[h].wire
      BY <2>2, DiscardedSound
    <3> QED
      BY <3>1, <3>2, <3>3 DEF Producer
  <2>4. ~backstopped' => \A h \in Services : P[h].rounds = 0
    BY <2>1, <2>2 DEF Producers, Sound, Producer
  <2>5. MioInv'
    BY <1>1, <2>1, <2>3 DEF MioInv, Orphaned
  <2>6. prod' \in [Producers -> Producer]
    BY <2>1, <2>3
  <2>7. Common'
    BY <2>1, <2>3, <2>4, <2>6 DEF Common, Inert, Told
  <2> QED
    BY <2>1, <2>5, <2>7 DEF DriverInv
<1> QED
  BY <1>2, <1>3, <1>4, <1>5, <1>6, <1>7, <1>8, <1>9, <1>10, <1>11, <1>12, <1>13, <1>14
  DEF MioLoop, MioWorld

-----------------------------------------------------------------------------
(* compio.                                                                 *)

(* What compio keeps true of one producer in every stage.                  *)
CompioFine(h, p) ==
  /\ Sound(h, p) /\ Told(p) /\ p.ctx # "freed"
  /\ p.open /\ h \in Queries /\ p.ending => p.reader # "waiting"

(***************************************************************************)
(* A reader is awake, or will be rung: by the end of the withdrawal, or at *)
(* the end of the pass.                                                    *)
(***************************************************************************)
Waking(p, o) ==
  p.open /\ p.ctx \notin {"absent", "live"} =>
    p.reader # "waiting" \/ p.ctx = "leaving" \/ (p.ctx = "retired" /\ o.wakes)

(* The stages between a sweep and the decision to sleep.                   *)
AfterSweep == {"goodbye", "farewell", "seal"}

(* What the sweep and the flags it left say of one producer in stage `at`. *)
Placed(h, p, at, o) ==
  /\ at \in AfterSweep /\ Orphaned(p) => o.dirty
  /\ at = "park" /\ Orphaned(p) => o.force \/ o.notified
  /\ at \in AfterSweep \cup {"park"} /\ h \in Services => ~p.ending
  /\ at = "flush" => ~p.open

(* The stages in which compio still runs.                                  *)
CompioStages ==
  {"tx", "sending", "settle", "goodbye", "farewell", "seal", "park", "flush"}

(* A send that is awaited is for a producer that still has it to send.     *)
Awaited ==
  /\ stage = "sending" /\ own.to \in Producers =>
       prod[own.to].ctx = "live" /\ prod[own.to].due # 0
  /\ stage = "farewell" => own.to \in Services /\ prod[own.to].ready

(***************************************************************************)
(* A compio step keeps the invariant if it keeps it of every producer, of  *)
(* the awaited send and of the wakes it owes.                              *)
(***************************************************************************)
LEMMA CompioMet ==
  ASSUME DriverInv, driver = "compio", driver' = driver, CompioShape(own'),
         stage' \in CompioStages, Awaited',
         stage' = "park" => ~unsealed' /\ ~own'.wakes,
         prod' = [h \in Producers |-> prod'[h]],
         \A h \in Producers : /\ CompioFine(h, prod'[h]) /\ Waking(prod'[h], own')
                              /\ Placed(h, prod'[h], stage', own')
  PROVE  DriverInv'
BY DEF DriverInv, Common, Inert, CompioInv, CompioFine, Waking, Placed, Sound, CompioStages,
       AfterSweep, Awaited

(* Ringing the readers wakes those who wait and changes nothing else.      *)
LEMMA RungFine ==
  ASSUME NEW h \in Producers, NEW p, CompioFine(h, p)
  PROVE  /\ CompioFine(h, Woken(p)) /\ \A o : Waking(Woken(p), o)
         /\ Woken(p).ctx = p.ctx /\ Woken(p).open = p.open /\ Woken(p).ending = p.ending
         /\ Woken(p).ready = p.ready /\ Woken(p).due = p.due /\ Woken(p).rounds = p.rounds
         /\ \A at, o : Placed(h, p, at, o) => Placed(h, Woken(p), at, o)
<1>1. /\ Sound(h, Woken(p)) /\ Woken(p).reader # "waiting"
      /\ Woken(p) = [p EXCEPT !.reader = IF p.reader = "waiting" THEN "busy" ELSE p.reader]
  BY WokenSound DEF CompioFine
<1>2. /\ Woken(p).ctx = p.ctx /\ Woken(p).open = p.open /\ Woken(p).ending = p.ending
      /\ Woken(p).ready = p.ready /\ Woken(p).due = p.due /\ Woken(p).rounds = p.rounds
      /\ Woken(p).told = p.told /\ (p.reader = "ended" => Woken(p).reader = "ended")
  BY <1>1 DEF CompioFine, Sound, Producer
<1> QED
  BY <1>1, <1>2 DEF CompioFine, Told, Waking, Placed, Orphaned

(* A handle's notification is kept while the driver is parked.             *)
LEMMA Notified ==
  ASSUME NEW o, CompioShape(o)
  PROVE  /\ CompioShape(Rung(o)) /\ CompioShape(mark_dirty(o))
         /\ Rung(o).to = o.to /\ Rung(o).dirty = o.dirty /\ Rung(o).force = o.force
         /\ Rung(o).wakes = o.wakes /\ (stage = "park" => Rung(o).notified)
         /\ mark_dirty(o).to = o.to /\ mark_dirty(o).dirty
         /\ mark_dirty(o).wakes = o.wakes
         /\ stage = "park" => mark_dirty(o).notified
<1>1. ASSUME NEW b, Rung(o) = [o EXCEPT !.notified = b]
      PROVE  /\ CompioShape(Rung(o)) /\ Rung(o).to = o.to /\ Rung(o).dirty = o.dirty
             /\ Rung(o).force = o.force /\ Rung(o).wakes = o.wakes /\ Rung(o).notified = b
  BY <1>1 DEF CompioShape
<1>2. ASSUME NEW q, CompioShape(q)
      PROVE  LET d == [q EXCEPT !.dirty = TRUE]
             IN /\ CompioShape(d) /\ d.to = q.to /\ d.dirty = TRUE /\ d.wakes = q.wakes
                /\ d.notified = q.notified
  <2>1. ASSUME NEW b PROVE CompioShape([q EXCEPT !.dirty = b])
    BY <1>2 DEF CompioShape
  <2>2. ASSUME NEW b
        PROVE  /\ [q EXCEPT !.dirty = b].to = q.to /\ [q EXCEPT !.dirty = b].dirty = b
               /\ [q EXCEPT !.dirty = b].wakes = q.wakes
               /\ [q EXCEPT !.dirty = b].notified = q.notified
    BY <1>2 DEF CompioShape
  <2> QED
    BY <2>1, <2>2, Zenon
<1>3. /\ CompioShape(Rung(o)) /\ Rung(o).to = o.to /\ Rung(o).dirty = o.dirty
      /\ Rung(o).force = o.force /\ Rung(o).wakes = o.wakes
      /\ (stage = "park" => Rung(o).notified)
  <2>1. CASE stage = "park"
    <3>1. (stage = "park") = TRUE
      BY <2>1
    <3>2. Rung(o) = [o EXCEPT !.notified = TRUE]
      BY <3>1 DEF Rung
    <3> QED
      BY <1>1, <3>2
  <2>2. CASE stage # "park"
    <3>1. (stage = "park") = FALSE
      BY <2>2
    <3>2. Rung(o) = [o EXCEPT !.notified = FALSE]
      BY <3>1 DEF Rung
    <3> QED
      BY <1>1, <2>2, <3>2
  <2> QED
    BY <2>1, <2>2
<1>4. PICK q : q = Rung(o)
  OBVIOUS
<1>5. mark_dirty(o) = [q EXCEPT !.dirty = TRUE]
  BY <1>4 DEF mark_dirty
<1> QED
  BY <1>2, <1>3, <1>4, <1>5

(* What a handle changes before it rings, P, may be what the driver finds. *)
LEMMA Ringing ==
  ASSUME DriverInv, driver = "compio", Yields, driver' = driver, stage' = stage,
         unsealed' = unsealed, own' \in {Rung(own), mark_dirty(own)},
         NEW P, prod' = RingReaders(P),
         \A h \in Producers : CompioFine(h, P[h]) /\ Placed(h, P[h], stage, own'),
         stage = "sending" /\ own.to \in Producers =>
           P[own.to].ctx = "live" /\ P[own.to].due # 0,
         stage = "farewell" => P[own.to].ready
  PROVE  DriverInv'
<1>1. /\ CompioShape(own) /\ Awaited /\ stage \in {"sending", "farewell", "park"}
      /\ stage = "park" => ~unsealed /\ ~own.wakes
  BY DEF DriverInv, CompioInv, Awaited, Yields
<1>2. CompioShape(own') /\ own'.to = own.to /\ own'.wakes = own.wakes
  BY <1>1, Notified
<1>3. prod' = [h \in Producers |-> prod'[h]] /\ \A h \in Producers : prod'[h] = Woken(P[h])
  BY DEF RingReaders
<1>4. ASSUME NEW h \in Producers
      PROVE  /\ CompioFine(h, prod'[h]) /\ Waking(prod'[h], own')
             /\ Placed(h, prod'[h], stage', own') /\ prod'[h].ctx = P[h].ctx
             /\ prod'[h].due = P[h].due /\ prod'[h].ready = P[h].ready
  <2>1. PICK p : p = P[h]
    OBVIOUS
  <2>2. CompioFine(h, p) /\ Placed(h, p, stage, own') /\ prod'[h] = Woken(p)
    BY <1>3, <2>1
  <2> QED
    BY <2>1, <2>2, RungFine
<1>5. Awaited'
  BY <1>1, <1>2, <1>4 DEF Awaited, Producers
<1> QED
  BY <1>1, <1>2, <1>3, <1>4, <1>5, CompioMet DEF CompioStages

(* Callers ask, drop and read while the driver awaits a send or sleeps.    *)
LEMMA CompioCallers ==
  ASSUME DriverInv, driver = "compio",
         \/ \E h \in Producers : CompioAsks(h) \/ CompioDrops(h) \/ CompioReads(h)
         \/ CompioEndpointDropped
  PROVE  DriverInv'
<1>1. Yields => /\ stage \in {"sending", "farewell", "park"}
                /\ stage = "park" => ~unsealed /\ ~own.wakes
  BY DEF Yields, DriverInv, CompioInv
<1>2. Yields => \A h \in Producers : /\ CompioFine(h, prod[h]) /\ Waking(prod[h], own)
                                     /\ Placed(h, prod[h], stage, own)
  BY <1>1 DEF DriverInv, Common, CompioInv, CompioFine, Waking, Placed, AfterSweep
<1>3. CompioShape(own) /\ Awaited /\ prod \in [Producers -> Producer]
  BY DEF DriverInv, Common, CompioInv, Awaited
<1>4. Services \subseteq Producers
  BY DEF Producers
<1>5. /\ mark_dirty(own).dirty /\ (stage = "park" => mark_dirty(own).notified)
      /\ Rung(own).dirty = own.dirty /\ Rung(own).force = own.force
      /\ (stage = "park" => Rung(own).notified)
  BY <1>3, Notified
<1>6. ASSUME NEW g \in Producers, CompioAsks(g)
      PROVE  DriverInv'
  <2> DEFINE P == [prod EXCEPT ![g] = Started(g)]
  <2>1. /\ Yields /\ prod[g].ctx = "absent" /\ stage' = stage /\ driver' = driver
        /\ unsealed' = unsealed /\ own' = mark_dirty(own) /\ prod' = RingReaders(P)
    BY <1>6 DEF CompioAsks, cKeep
  <2>2. P[g] = Started(g) /\ \A h \in Producers : h # g => P[h] = prod[h]
    BY <1>3
  <2>3. CompioFine(g, P[g]) /\ Placed(g, P[g], stage, own')
    BY <1>1, <2>1, <2>2, StartedSound DEF CompioFine, Placed, Told, Orphaned
  <2>4. \A h \in Producers : Placed(h, prod[h], stage, own')
    BY <1>1, <1>2, <1>5, <2>1 DEF Placed
  <2>5. \A h \in Producers : CompioFine(h, P[h]) /\ Placed(h, P[h], stage, own')
    BY <1>2, <2>1, <2>2, <2>3, <2>4
  <2>6. own.to = g => stage \notin {"sending", "farewell"}
    BY <1>2, <1>3, <2>1 DEF Awaited, CompioFine, Sound
  <2> HIDE DEF P
  <2> QED
    BY <1>3, <1>4, <2>1, <2>2, <2>5, <2>6, Ringing DEF Awaited
<1>7. ASSUME NEW g \in Producers, CompioDrops(g)
      PROVE  DriverInv'
  <2> DEFINE P == [prod EXCEPT ![g] = Dropped(@)]
  <2>1. /\ Yields /\ prod[g].open /\ stage' = stage /\ driver' = driver
        /\ unsealed' = unsealed /\ own' = mark_dirty(own) /\ prod' = RingReaders(P)
    BY <1>7 DEF CompioDrops, cKeep
  <2>2. P[g] = Dropped(prod[g]) /\ \A h \in Producers : h # g => P[h] = prod[h]
    BY <1>3
  <2>3. /\ Sound(g, P[g]) /\ P[g].ctx = prod[g].ctx /\ ~P[g].open
        /\ P[g].ending = prod[g].ending /\ P[g].due = prod[g].due
        /\ P[g].ready = prod[g].ready
    BY <1>2, <2>1, <2>2, DroppedSound DEF CompioFine
  <2>4. CompioFine(g, P[g])
    BY <1>2, <2>1, <2>3 DEF CompioFine, Told
  <2>5. \A h \in Producers : Placed(h, prod[h], stage, own')
    BY <1>1, <1>2, <1>5, <2>1 DEF Placed
  <2>6. Placed(g, P[g], stage, own')
    BY <1>1, <1>5, <2>1, <2>3, <2>5 DEF Placed
  <2>7. \A h \in Producers : CompioFine(h, P[h]) /\ Placed(h, P[h], stage, own')
    BY <1>2, <2>1, <2>2, <2>4, <2>5, <2>6
  <2> HIDE DEF P
  <2> QED
    BY <1>3, <1>4, <2>1, <2>2, <2>3, <2>7, Ringing DEF Awaited
<1>8. CASE CompioEndpointDropped
  <2>1. /\ Yields /\ stage' = stage /\ driver' = driver /\ unsealed' = unsealed
        /\ own' = Rung(own) /\ prod' = RingReaders(prod)
    BY <1>8 DEF CompioEndpointDropped
  <2>2. \A h \in Producers : CompioFine(h, prod[h]) /\ Placed(h, prod[h], stage, own')
    BY <1>1, <1>2, <1>5, <2>1 DEF Placed, AfterSweep
  <2> QED
    BY <1>3, <2>1, <2>2, Ringing DEF Awaited
<1>9. ASSUME NEW g \in Producers, CompioReads(g)
      PROVE  DriverInv'
  <2> DEFINE p == prod[g]
             over == p.told = "posted" \/ (g \in Queries /\ (p.ending \/ ~Present(g)))
             read == [p EXCEPT !.told = IF over THEN "taken" ELSE @,
                               !.reader = IF over THEN "ended" ELSE "waiting"]
  <2>1. /\ Yields /\ p.open /\ p.reader = "busy" /\ p.ctx # "absent" /\ own' = own
        /\ stage' = stage /\ driver' = driver /\ unsealed' = unsealed
        /\ prod' = [prod EXCEPT ![g] = IF over /\ g \in Queries THEN Forgotten(read) ELSE read]
    BY <1>9, Zenon DEF CompioReads, cKeep
  <2>2. /\ CompioFine(g, p) /\ Waking(p, own) /\ Placed(g, p, stage, own) /\ p \in Producer
        /\ Sound(g, p) /\ Told(p)
    BY <1>2, <2>1 DEF CompioFine, Sound
  <2>3. g \in Queries => g \notin Services
    BY DriverAssumption DEF Producers
  <2>4. ASSUME CompioFine(g, prod'[g]), Waking(prod'[g], own), Placed(g, prod'[g], stage, own),
               own.to = g => stage \notin {"sending", "farewell"}
                             \/ (prod'[g].ctx = p.ctx /\ prod'[g].due = p.due
                                 /\ prod'[g].ready = p.ready)
        PROVE  DriverInv'
    <3>1. \A h \in Producers : h # g => prod'[h] = prod[h]
      BY <1>3, <2>1
    <3>2. prod' = [h \in Producers |-> prod'[h]]
      BY <1>3, <2>1
    <3> HIDE DEF p, read, over
    <3>3. Awaited'
      BY <1>3, <1>4, <2>1, <2>4, <3>1 DEF Awaited, p
    <3> QED
      BY <1>1, <1>2, <1>3, <2>1, <2>4, <3>1, <3>2, <3>3, CompioMet DEF CompioStages
  <2>5. CASE ~over
    <3>1. p.ctx = "live" /\ ~(g \in Queries /\ p.ending)
      BY <2>1, <2>2, <2>5 DEF Told
    <3>2. PICK t : t = p.told /\ read = [p EXCEPT !.told = t, !.reader = "waiting"]
      BY <2>5
    <3>3. prod'[g] = read
      BY <1>3, <2>1, <2>5
    <3> HIDE DEF p, read, over
    <3>4. prod'[g].ctx = p.ctx /\ prod'[g].due = p.due /\ prod'[g].ready = p.ready
      BY <2>2, <3>2, <3>3 DEF Producer
    <3>5. CompioFine(g, prod'[g]) /\ Waking(prod'[g], own) /\ Placed(g, prod'[g], stage, own)
      <4>1. t \in {"none", "posted", "taken"}
        BY <2>2, <3>2 DEF Producer
      <4>2. PICK q \in Producer : q = p
        BY <2>2
      <4>3. PICK r : r = [q EXCEPT !.told = t, !.reader = "waiting"]
        OBVIOUS
      <4>4. r \in Producer
        BY <4>1, <4>3 DEF Producer
      <4>5. r.ending = q.ending /\ r.rounds = q.rounds /\ r.wire = q.wire /\ r.told = t
            /\ r.open = q.open
        BY <4>1, <4>3 DEF Producer
      <4>6. prod'[g] = r
        BY <3>2, <3>3, <4>2, <4>3
      <4> QED
        BY <2>2, <3>1, <3>2, <3>4, <4>2, <4>4, <4>5, <4>6 DEF CompioFine, Sound, Told, Waking, Placed, Orphaned
    <3> QED
      BY <2>4, <3>4, <3>5
  <2>6. CASE over
    <3>1. read = [p EXCEPT !.told = "taken", !.reader = "ended"]
      BY <2>6
    <3>2. p.ctx = "live" => p.told = "none" /\ g \in Queries /\ p.ending
      BY <2>1, <2>2, <2>6 DEF Sound, Present
    <3>3. CASE g \in Queries
      <4>1. prod'[g] = Forgotten(read)
        BY <1>3, <2>1, <2>6, <3>3
      <4> HIDE DEF p, read, over
      <4>2. /\ read \in Producer /\ read.rounds = 0 /\ ~read.ready /\ ~read.wire /\ read.open
            /\ read.reader = "ended"
        BY <2>1, <2>2, <3>1, <3>3 DEF Sound, Producer
      <4>3. /\ Sound(g, prod'[g]) /\ prod'[g].ctx = "gone" /\ prod'[g].open
            /\ prod'[g].reader = "ended"
        BY <4>1, <4>2, ForgottenSound
      <4>4. CompioFine(g, prod'[g]) /\ Waking(prod'[g], own) /\ Placed(g, prod'[g], stage, own)
        BY <1>1, <2>1, <2>3, <3>3, <4>3 DEF CompioFine, Told, Waking, Placed, Orphaned
      <4>5. own.to = g => stage \notin {"sending", "farewell"}
        BY <1>3, <2>2, <2>3, <3>2, <3>3 DEF Awaited, Sound, p
      <4> QED
        BY <2>4, <4>4, <4>5
    <3>4. CASE g \notin Queries
      <4>1. prod'[g] = read
        BY <1>3, <2>1, <2>6, <3>4
      <4> HIDE DEF p, read, over
      <4>2. prod'[g].ctx = p.ctx /\ prod'[g].due = p.due /\ prod'[g].ready = p.ready
        BY <2>2, <3>1, <4>1 DEF Producer
      <4>3. CompioFine(g, prod'[g]) /\ Waking(prod'[g], own) /\ Placed(g, prod'[g], stage, own)
        <5>1. prod'[g] \in Producer /\ prod'[g].reader = "ended"
          <6>1. read \in Producer /\ read.reader = "ended"
            BY <2>2, <3>1 DEF Producer
          <6> QED
            BY <4>1, <6>1
        <5>2. /\ prod'[g].open = p.open /\ prod'[g].ending = p.ending
              /\ prod'[g].rounds = p.rounds /\ prod'[g].wire = p.wire
          BY <2>2, <3>1, <4>1 DEF Producer
        <5>3. p.ctx # "live" /\ ~p.ending /\ p.due = 0
          BY <2>2, <3>2, <3>4 DEF Sound
        <5> QED
          BY <2>1, <2>2, <3>4, <4>2, <5>1, <5>2, <5>3
          DEF CompioFine, Sound, Told, Waking, Placed, Orphaned
      <4> QED
        BY <2>4, <4>2, <4>3
    <3> QED
      BY <3>3, <3>4
  <2> QED
    BY <2>5, <2>6
<1> QED
  BY <1>6, <1>7, <1>8, <1>9

(* compio's accounting of failures and passes cannot disturb a producer.    *)
LEMMA CompioAlike ==
  ASSUME NEW h \in Producers, NEW p, NEW q, CompioFine(h, p), Alike(p, q)
  PROVE  CompioFine(h, q) /\ (\A o : Waking(p, o) => Waking(q, o))
BY AlikeSound DEF CompioFine, Told, Waking, Alike

(* A driver that ends has said its goodbyes, or hit its wall-clock limit.  *)
LEMMA AllEnded ==
  ASSUME stage' = "ended", driver' = driver,
         NEW P, prod' = [h \in Producers |-> Discarded(P[h])],
         \A h \in Producers : Sound(h, P[h]),
         backstopped' \/ \A h \in Services : ~P[h].wire
  PROVE  /\ Common'
         /\ \A h \in Producers : prod'[h].ctx \in {"absent", "gone"}
<1>1. ASSUME NEW h \in Producers
      PROVE  /\ prod'[h] \in Producer /\ prod'[h].rounds = 0
             /\ prod'[h].ctx \in {"absent", "gone"} /\ prod'[h].wire = P[h].wire
  <2>1. PICK p : p = P[h]
    OBVIOUS
  <2>2. Sound(h, p) /\ prod'[h] = Discarded(p)
    BY <2>1
  <2> QED
    BY <2>1, <2>2, DiscardedSound
<1>2. prod' \in [Producers -> Producer]
  BY <1>1
<1> QED
  BY <1>1, <1>2 DEF Common, Inert

(* compio ends with an empty map.                                          *)
LEMMA CompioEnded ==
  ASSUME DriverInv, driver = "compio", driver' = driver, own' = own, stage' = "ended",
         NEW P, prod' = [h \in Producers |-> Discarded(P[h])],
         \A h \in Producers : Sound(h, P[h]),
         backstopped' \/ \A h \in Services : ~P[h].wire
  PROVE  DriverInv'
<1>1. Common' /\ (\A h \in Producers : prod'[h].ctx \in {"absent", "gone"})
  BY AllEnded
<1>2. CompioInv'
  BY <1>1 DEF DriverInv, CompioInv, CompioShape
<1> QED
  BY <1>1, <1>2 DEF DriverInv

(* The sweep leaves no orphan behind it.                                   *)
LEMMA CompioSwept ==
  ASSUME NEW h \in Producers, CompioFine(h, prod[h])
  PROVE  LET p == sweep_cancelled(prod)[h]
         IN /\ CompioFine(h, p) /\ p.open = prod[h].open /\ ~Orphaned(p)
            /\ p.open => p = prod[h]
<1>1. h \notin Services => h \in Queries
  BY DEF Producers
<1>2. CASE prod[h].open
  BY <1>2 DEF sweep_cancelled, Orphaned
<1>3. CASE ~prod[h].open /\ h \in Services
  <2>1. sweep_cancelled(prod)[h] = Withdrawn(prod[h])
    BY <1>3 DEF sweep_cancelled
  <2>2. prod[h].ctx \in {"absent", "live", "retired", "leaving", "gone"}
    BY DEF CompioFine, Sound, Producer, Contexts
  <2> QED
    BY <1>3, <2>1, <2>2, WithdrawnSound DEF CompioFine, Told, Orphaned
<1>4. CASE ~prod[h].open /\ h \notin Services /\ Present(h)
  <2>1. sweep_cancelled(prod)[h] = Forgotten(prod[h])
    BY <1>4 DEF sweep_cancelled
  <2>2. prod[h] \in Producer /\ prod[h].rounds = 0 /\ ~prod[h].ready /\ ~prod[h].wire
    BY <1>1, <1>4 DEF CompioFine, Sound
  <2> QED
    BY <1>4, <2>1, <2>2, ForgottenSound DEF CompioFine, Told, Orphaned
<1>5. CASE ~prod[h].open /\ h \notin Services /\ ~Present(h)
  BY <1>5 DEF sweep_cancelled, Present, Orphaned
<1> QED
  BY <1>2, <1>3, <1>4, <1>5

(* What holds wherever the loop runs on from.                              *)
LEMMA CompioHolds ==
  ASSUME DriverInv, driver = "compio", stage \in CompioStages
  PROVE  /\ \A h \in Producers : /\ CompioFine(h, prod[h]) /\ Waking(prod[h], own)
                                 /\ Placed(h, prod[h], stage, own)
         /\ CompioShape(own) /\ Awaited /\ prod \in [Producers -> Producer]
         /\ stage = "park" => ~unsealed /\ ~own.wakes
BY DEF DriverInv, Common, CompioInv, CompioFine, Waking, Placed, AfterSweep, Awaited,
       CompioStages, Told

(* The shape of the bookkeeping outlives the updates of the transmit pump. *)
LEMMA CompioMoves ==
  ASSUME NEW o, CompioShape(o), NEW at, NEW to
  PROVE  /\ CompioShape([o EXCEPT !.at = at]) /\ [o EXCEPT !.at = at].wakes = o.wakes
         /\ CompioShape(WakesLater(o)) /\ WakesLater(o).wakes = TRUE
         /\ CompioShape([o EXCEPT !.to = to]) /\ [o EXCEPT !.to = to].wakes = o.wakes
         /\ [o EXCEPT !.to = to].to = to /\ [o EXCEPT !.to = to].dirty = o.dirty
<1>1. /\ CompioShape([o EXCEPT !.at = at]) /\ CompioShape([o EXCEPT !.to = to])
  <2>1. CompioShape([o EXCEPT !.at = at])
    BY DEF CompioShape
  <2>2. CompioShape([o EXCEPT !.to = to])
    BY DEF CompioShape
  <2> QED
    BY <2>1, <2>2
<1>4. CompioShape(WakesLater(o))
  <2>1. ASSUME NEW b PROVE CompioShape([o EXCEPT !.wakes = b])
    BY DEF CompioShape
  <2> QED
    BY <2>1, Zenon DEF WakesLater
<1>2. /\ [o EXCEPT !.at = at].wakes = o.wakes /\ [o EXCEPT !.to = to].wakes = o.wakes
      /\ [o EXCEPT !.to = to].to = to /\ [o EXCEPT !.to = to].dirty = o.dirty
  BY DEF CompioShape
<1>3. WakesLater(o).wakes = TRUE
  BY DEF CompioShape, WakesLater
<1> QED
  BY <1>1, <1>2, <1>3, <1>4, Zenon

(* When an awaited send comes back, the walk starts over.                  *)
LEMMA CompioReturns ==
  ASSUME NEW o, CompioShape(o), NEW q, q = [o EXCEPT !.at = 1, !.to = 0]
  PROVE  CompioShape(q) /\ q.wakes = o.wakes
<1>1. CompioShape(q)
  BY DEF CompioShape
<1>2. q.wakes = o.wakes
  BY DEF CompioShape
<1> QED
  BY <1>1, <1>2

(* poll_one_transmit and the sends it awaits.                              *)
LEMMA CompioPump ==
  ASSUME DriverInv, driver = "compio",
         \/ CompioPassesOver \/ CompioEncodeFails \/ CompioSends \/ CompioPumped
         \/ (\E n \in Fanouts : CompioConfirms(n)) \/ CompioUndeliverable
  PROVE  DriverInv'
<1>1. /\ stage \in {"tx", "sending"} /\ stage' \in {"tx", "sending", "settle"} /\ driver' = driver
  BY DEF CompioPassesOver, CompioEncodeFails, CompioSends, CompioPumped, CompioConfirms,
         CompioUndeliverable, Polling, cKeep
<1>2. /\ \A h \in Producers : CompioFine(h, prod[h]) /\ Waking(prod[h], own)
      /\ CompioShape(own) /\ Awaited /\ prod \in [Producers -> Producer]
  BY <1>1, CompioHolds DEF CompioStages
<1>3. ASSUME CompioShape(own'), Awaited', prod' = [h \in Producers |-> prod'[h]],
             \A h \in Producers : CompioFine(h, prod'[h]) /\ Waking(prod'[h], own')
      PROVE  DriverInv'
  BY <1>1, <1>3, CompioMet DEF CompioStages, Placed, AfterSweep
<1>4. CASE CompioPassesOver
  <2>1. /\ stage' = "tx" /\ own' = [own EXCEPT !.at = @ + 1]
        /\ prod' = [prod EXCEPT ![Turn].failures = IF Live(Turn) /\ prod[Turn].open THEN 0 ELSE @]
    BY <1>4, Zenon DEF CompioPassesOver, Polling, cKeep
  <2>2. CompioShape(own') /\ own'.wakes = own.wakes
    BY <1>2, <2>1, CompioMoves
  <2>3. ASSUME NEW h \in Producers PROVE Alike(prod[h], prod'[h])
    <3>1. prod[h] \in Producer
      BY <1>2
    <3>2. prod'[h] = prod[h] \/ prod'[h] = [prod[h] EXCEPT !.failures = 0]
      BY <1>2, <2>1, <3>1 DEF Producer
    <3> QED
      BY <3>1, <3>2, CountersAside
  <2>4. \A h \in Producers : CompioFine(h, prod'[h]) /\ Waking(prod'[h], own)
    BY <1>2, <2>3, CompioAlike
  <2>5. Awaited' /\ prod' = [h \in Producers |-> prod'[h]]
    BY <1>2, <2>1 DEF Awaited
  <2> QED
    BY <1>3, <2>2, <2>4, <2>5 DEF Waking
<1>5. CASE CompioEncodeFails
  <2> DEFINE p == [prod[Turn] EXCEPT !.failures = @ + 1]
             v == IF Turn \in Queries
                  THEN [Posted(p) EXCEPT !.ctx = "retired", !.due = 0, !.ending = FALSE]
                  ELSE IF p.failures < MAX_CONSECUTIVE_ENCODE_ERRORS THEN p
                  ELSE Withdrawn(Posted(p))
  <2>1. /\ stage' = "tx" /\ prod[Turn].ctx = "live" /\ prod' = [prod EXCEPT ![Turn] = v]
        /\ own' = [(IF Turn \in Queries THEN WakesLater(own) ELSE own) EXCEPT !.at = @ + 1]
    BY <1>5, Zenon DEF CompioEncodeFails, Polling, Live
  <2>2. /\ CompioShape(own') /\ (own.wakes => own'.wakes)
        /\ Turn \in Queries => own'.wakes
    <3>1. PICK o : /\ o = IF Turn \in Queries THEN WakesLater(own) ELSE own
                   /\ own' = [o EXCEPT !.at = @ + 1]
      BY <2>1
    <3>2. CompioShape(o) /\ (own.wakes => o.wakes) /\ (Turn \in Queries => o.wakes)
      BY <1>2, <3>1, CompioMoves
    <3>3. PICK at : own' = [o EXCEPT !.at = at]
      BY <3>1
    <3> QED
      BY <3>2, <3>3, CompioMoves
  <2>3. ASSUME Turn \in Producers PROVE CompioFine(Turn, v) /\ Waking(v, own')
    <3>1. CompioFine(Turn, prod[Turn]) /\ prod[Turn] \in Producer /\ Waking(prod[Turn], own)
      BY <1>2, <2>3
    <3>2. Alike(prod[Turn], p)
      BY <3>1, CountersAside
    <3> HIDE DEF p
    <3>3. CompioFine(Turn, p) /\ p.ctx = "live" /\ Sound(Turn, p) /\ Waking(p, own')
      BY <2>1, <2>3, <3>1, <3>2, CompioAlike DEF Alike, CompioFine, Waking
    <3>4. CASE Turn \in Queries
      BY <2>2, <2>3, <3>3, <3>4, ShelvedSound DEF CompioFine, Told, Waking, Sound
    <3>5. CASE Turn \in Services /\ Turn \notin Queries
      BY <3>3, <3>5, GivenUpSound DEF CompioFine, Told, Waking
    <3> QED
      BY <2>3, <3>4, <3>5 DEF Producers
  <2> HIDE DEF v
  <2>4. \A h \in Producers : CompioFine(h, prod'[h]) /\ Waking(prod'[h], own')
    BY <1>2, <2>1, <2>2, <2>3 DEF Waking
  <2>5. Awaited' /\ prod' = [h \in Producers |-> prod'[h]]
    BY <1>2, <2>1 DEF Awaited
  <2> QED
    BY <1>3, <2>2, <2>4, <2>5
<1>6. CASE CompioSends
  <2>1. /\ stage' = "sending" /\ own' = [own EXCEPT !.to = Turn] /\ prod' = prod
        /\ prod[Turn].ctx = "live" /\ prod[Turn].due > 0
    BY <1>6 DEF CompioSends, Live
  <2>2. CompioShape(own') /\ own'.wakes = own.wakes /\ own'.to = Turn
    BY <1>2, <2>1, CompioMoves
  <2>3. Awaited'
    BY <2>1, <2>2 DEF Awaited
  <2> QED
    BY <1>2, <1>3, <2>1, <2>2, <2>3 DEF Waking
<1>7. CASE CompioPumped
  <2>1. stage' = "settle" /\ own' = own /\ prod' = prod
    BY <1>7 DEF CompioPumped
  <2> QED
    BY <1>2, <1>3, <2>1 DEF Awaited
<1>8. ASSUME NEW n \in Fanouts, CompioConfirms(n)
      PROVE  DriverInv'
  <2>1. /\ stage = "sending" /\ stage' = "tx" /\ own' = [own EXCEPT !.at = 1, !.to = 0]
        /\ prod' = [prod EXCEPT ![own.to] = Sent(@, own.to, n)] /\ n \in Nat
    BY <1>8, DriverAssumption DEF CompioConfirms
  <2>2. CompioShape(own') /\ own'.wakes = own.wakes
    BY <1>2, <2>1, CompioReturns
  <2>3. ASSUME NEW h \in Producers, h = own.to
        PROVE  CompioFine(h, prod'[h]) /\ Waking(prod'[h], own')
    <3>1. PICK p : p = prod[h]
      OBVIOUS
    <3>2. prod'[h] = Sent(p, h, n) /\ Sound(h, p) /\ p.due # 0
      BY <1>2, <2>1, <2>3, <3>1 DEF Awaited, CompioFine
    <3>3. /\ Sound(h, Sent(p, h, n)) /\ Sent(p, h, n).ctx = "live" /\ ~Sent(p, h, n).ending
      <4>1. n \in Nat
        BY <2>1
      <4> QED
        BY <3>2, <4>1, SentSound, Zenon
    <3> QED
      BY <3>2, <3>3 DEF CompioFine, Told, Waking
  <2>4. \A h \in Producers : CompioFine(h, prod'[h]) /\ Waking(prod'[h], own')
    BY <1>2, <2>1, <2>2, <2>3 DEF Waking
  <2>5. Awaited' /\ prod' = [h \in Producers |-> prod'[h]]
    BY <1>2, <2>1 DEF Awaited
  <2> QED
    BY <1>3, <2>2, <2>4, <2>5
<1>9. CASE CompioUndeliverable
  <2> DEFINE s == Sent(prod[own.to], own.to, 0)
             v == IF own.to \in Services THEN Withdrawn(Posted(s))
                  ELSE [Posted(s) EXCEPT !.ctx = "retired", !.due = 0, !.ending = FALSE]
             P == [prod EXCEPT ![own.to] = v]
  <2>1. /\ stage = "sending" /\ stage' = "tx" /\ own' = [own EXCEPT !.at = 1, !.to = 0]
        /\ prod' = RingReaders(P)
    BY <1>9, Zenon DEF CompioUndeliverable
  <2>2. CompioShape(own')
    BY <1>2, <2>1, CompioReturns
  <2>3. ASSUME own.to \in Producers PROVE CompioFine(own.to, v)
    <3>1. Sound(own.to, prod[own.to]) /\ prod[own.to].due # 0
      BY <1>2, <2>1, <2>3 DEF Awaited, CompioFine
    <3>2. Sound(own.to, s) /\ s.ctx = "live"
      BY <2>3, <3>1, SentSound
    <3> HIDE DEF s
    <3>3. CASE own.to \in Services
      BY <3>2, <3>3, GivenUpSound DEF CompioFine, Told, Sound
    <3>4. CASE own.to \notin Services
      BY <2>3, <3>2, <3>4, ShelvedSound DEF CompioFine, Told, Sound
    <3> QED
      BY <3>3, <3>4
  <2>4. ASSUME NEW h \in Producers PROVE CompioFine(h, P[h]) /\ prod'[h] = Woken(P[h])
    <3> HIDE DEF v
    <3> QED
      BY <1>2, <2>1, <2>3 DEF RingReaders
  <2>5. Awaited' /\ prod' = [h \in Producers |-> prod'[h]]
    BY <2>1 DEF Awaited, RingReaders
  <2>6. ASSUME NEW h \in Producers PROVE CompioFine(h, prod'[h]) /\ Waking(prod'[h], own')
    <3>1. PICK p : p = P[h]
      OBVIOUS
    <3> QED
      BY <2>4, <3>1, RungFine
  <2> QED
    BY <1>3, <2>2, <2>5, <2>6
<1> QED
  BY <1>4, <1>5, <1>6, <1>7, <1>8, <1>9

(* The sweep, the goodbyes and the seal at the end of a pass.              *)
LEMMA CompioPassEnds ==
  ASSUME DriverInv, driver = "compio",
         \/ CompioSettles \/ (\E h \in Services : CompioGoodbye(h))
         \/ (\E n \in Fanouts : CompioFarewelled(n)) \/ CompioGoodbyesDone \/ CompioSeals
  PROVE  DriverInv'
<1>1. stage \in {"settle", "goodbye", "farewell", "seal"} /\ driver' = driver
  BY DEF CompioSettles, CompioGoodbye, CompioFarewelled, CompioGoodbyesDone, CompioSeals, cKeep
<1>2. /\ \A h \in Producers : /\ CompioFine(h, prod[h]) /\ Waking(prod[h], own)
                              /\ Placed(h, prod[h], stage, own)
      /\ CompioShape(own) /\ Awaited /\ prod \in [Producers -> Producer]
  BY <1>1, CompioHolds DEF CompioStages
<1>3. Services \subseteq Producers
  BY DEF Producers
<1>4. CASE CompioSettles
  <2> DEFINE P == sweep_cancelled(prod)
             ended == {h \in Services : P[h].ctx = "live" /\ P[h].ending}
             pushed == [h \in Producers |-> IF h \in ended THEN Withdrawn(Posted(P[h])) ELSE P[h]]
  <2>1. /\ stage' = "goodbye" /\ own' = own
        /\ prod' = pushed \/ prod' = RingReaders(pushed)
    BY <1>4, Zenon DEF CompioSettles, cKeep
  <2>2. ASSUME NEW h \in Producers
        PROVE  /\ CompioFine(h, pushed[h]) /\ Waking(pushed[h], own)
               /\ Placed(h, pushed[h], "goodbye", own)
    <3>1. PICK p : p = P[h]
      OBVIOUS
    <3>2. /\ CompioFine(h, p) /\ p.open = prod[h].open /\ ~Orphaned(p)
          /\ p.open => p = prod[h]
      BY <1>2, <3>1, CompioSwept
    <3>3. pushed[h] = IF h \in ended THEN Withdrawn(Posted(p)) ELSE p
      BY <3>1
    <3>4. h \in ended <=> h \in Services /\ p.ctx = "live" /\ p.ending
      BY <3>1
    <3> HIDE DEF P, ended, pushed
    <3>5. CASE h \in ended
      <4>1. /\ Sound(h, pushed[h]) /\ pushed[h].ctx = "leaving" /\ pushed[h].open = p.open
            /\ p.open => pushed[h].told = "posted"
        BY <3>2, <3>3, <3>4, <3>5, GivenUpSound DEF CompioFine
      <4>2. ~pushed[h].ending
        BY <4>1 DEF Sound
      <4> QED
        BY <4>1, <4>2 DEF CompioFine, Told, Waking, Placed, Orphaned
    <3>6. CASE h \notin ended
      <4>1. h \in Services => ~p.ending
        BY <3>2, <3>4, <3>6 DEF CompioFine, Sound
      <4> QED
        BY <1>2, <3>2, <3>3, <3>6, <4>1 DEF Waking, Placed
    <3> QED
      BY <3>5, <3>6
  <2>3. pushed = [h \in Producers |-> pushed[h]]
    OBVIOUS
  <2> HIDE DEF pushed, ended, P
  <2>4. ASSUME NEW h \in Producers
        PROVE  /\ CompioFine(h, prod'[h]) /\ Waking(prod'[h], own)
               /\ Placed(h, prod'[h], "goodbye", own)
    <3>1. PICK p : p = pushed[h]
      OBVIOUS
    <3>2. prod'[h] = p \/ prod'[h] = Woken(p)
      BY <2>1, <3>1 DEF RingReaders
    <3> QED
      BY <2>2, <3>1, <3>2, RungFine
  <2>5. prod' = [h \in Producers |-> prod'[h]]
    BY <2>1, <2>3 DEF RingReaders
  <2> QED
    BY <1>1, <1>2, <2>1, <2>4, <2>5, CompioMet DEF CompioStages, Awaited
<1>5. ASSUME NEW g \in Services, CompioGoodbye(g)
      PROVE  DriverInv'
  <2>1. /\ stage = "goodbye" /\ stage' = "farewell" /\ prod' = prod /\ prod[g].ready
        /\ own' = [own EXCEPT !.to = g]
    BY <1>5 DEF CompioGoodbye, GoodbyeDue
  <2>2. /\ CompioShape(own') /\ own'.to = g /\ own'.wakes = own.wakes
        /\ own'.dirty = own.dirty
    BY <1>2, <2>1, CompioMoves
  <2>3. ASSUME NEW h \in Producers
        PROVE  Waking(prod[h], own') /\ Placed(h, prod[h], "farewell", own')
    <3>1. Waking(prod[h], own) /\ Placed(h, prod[h], "goodbye", own)
      BY <1>2, <2>1
    <3> QED
      BY <2>2, <3>1 DEF Waking, Placed, AfterSweep
  <2> QED
    BY <1>1, <1>2, <2>1, <2>2, <2>3, CompioMet DEF CompioStages, Awaited
<1>6. ASSUME NEW n \in Fanouts, CompioFarewelled(n)
      PROVE  DriverInv'
  <2>1. /\ stage = "farewell" /\ stage' = "goodbye" /\ own' = [own EXCEPT !.to = 0]
        /\ prod' = [prod EXCEPT ![own.to] = Farewelled(@)]
    BY <1>6 DEF CompioFarewelled
  <2>2. CompioShape(own') /\ own'.wakes = own.wakes /\ own'.dirty = own.dirty
    BY <1>2, <2>1, CompioMoves
  <2>3. ASSUME NEW h \in Producers, h = own.to
        PROVE  /\ CompioFine(h, prod'[h]) /\ Waking(prod'[h], own')
               /\ Placed(h, prod'[h], "goodbye", own')
    <3>1. PICK p : p = prod[h]
      OBVIOUS
    <3>2. /\ prod'[h] = Farewelled(p) /\ CompioFine(h, p) /\ Sound(h, p)
          /\ p.rounds # 0 /\ p.ctx = "leaving"
      BY <1>2, <2>1, <2>3, <3>1 DEF Awaited, CompioFine, Sound
    <3>3. /\ Sound(h, prod'[h]) /\ prod'[h].ctx = "leaving" /\ prod'[h].open = p.open
          /\ ~prod'[h].ending /\ prod'[h].told = p.told /\ prod'[h].reader = p.reader
      BY <3>2, FarewelledSound
    <3> QED
      BY <3>2, <3>3 DEF CompioFine, Told, Waking, Placed, Orphaned
  <2>4. ASSUME NEW h \in Producers, h # own.to
        PROVE  /\ prod'[h] = prod[h] /\ Waking(prod[h], own')
               /\ Placed(h, prod[h], "goodbye", own')
    <3>1. Waking(prod[h], own) /\ Placed(h, prod[h], "farewell", own)
      BY <1>2, <2>1
    <3>2. prod'[h] = prod[h]
      BY <1>2, <2>1, <2>4
    <3> QED
      BY <2>2, <3>1, <3>2 DEF Waking, Placed, AfterSweep
  <2>5. prod' = [h \in Producers |-> prod'[h]]
    BY <1>2, <2>1
  <2> QED
    BY <1>1, <1>2, <2>1, <2>2, <2>3, <2>4, <2>5, CompioMet DEF CompioStages, Awaited
<1>7. CASE CompioGoodbyesDone
  <2> DEFINE P == [h \in Producers |-> IF h \in Completed THEN Forgotten(prod[h]) ELSE prod[h]]
  <2>1. /\ stage = "goodbye" /\ stage' = "seal" /\ own' = own
        /\ prod' = P \/ prod' = RingReaders(P)
    BY <1>7, Zenon DEF CompioGoodbyesDone
  <2>2. ASSUME NEW h \in Producers
        PROVE  /\ CompioFine(h, P[h]) /\ Waking(P[h], own) /\ Placed(h, P[h], "seal", own)
    <3>1. PICK p : p = prod[h]
      OBVIOUS
    <3>2. CompioFine(h, p) /\ Waking(p, own) /\ Placed(h, p, "seal", own) /\ Sound(h, p)
      BY <1>2, <2>1, <3>1 DEF CompioFine, Placed, AfterSweep
    <3>3. CASE h \in Completed
      <4>1. p.ctx = "leaving" /\ p.rounds = 0 /\ p \in Producer /\ ~p.ready /\ ~p.wire
        BY <3>1, <3>2, <3>3 DEF Completed, Sound
      <4>2. P[h] = Forgotten(p)
        BY <3>1, <3>3
      <4>3. /\ Sound(h, P[h]) /\ P[h].ctx = "gone" /\ P[h].open = p.open /\ P[h].told = p.told
            /\ P[h].reader = IF p.reader = "waiting" THEN "busy" ELSE p.reader
        BY <4>1, <4>2, ForgottenSound
      <4>4. ~P[h].ending
        BY <4>3 DEF Sound
      <4> HIDE DEF P
      <4> QED
        BY <3>2, <4>1, <4>3, <4>4 DEF CompioFine, Told, Waking, Placed, Orphaned
    <3>4. CASE h \notin Completed
      BY <3>1, <3>2, <3>4
    <3> QED
      BY <3>3, <3>4
  <2>3. P = [h \in Producers |-> P[h]]
    OBVIOUS
  <2> HIDE DEF P
  <2>4. ASSUME NEW h \in Producers
        PROVE  /\ CompioFine(h, prod'[h]) /\ Waking(prod'[h], own)
               /\ Placed(h, prod'[h], "seal", own)
    <3>1. PICK p : p = P[h]
      OBVIOUS
    <3>2. prod'[h] = p \/ prod'[h] = Woken(p)
      BY <2>1, <3>1 DEF RingReaders
    <3> QED
      BY <2>2, <3>1, <3>2, RungFine
  <2>5. prod' = [h \in Producers |-> prod'[h]]
    BY <2>1, <2>3 DEF RingReaders
  <2> QED
    BY <1>1, <1>2, <2>1, <2>4, <2>5, CompioMet DEF CompioStages, Awaited
<1>8. CASE CompioSeals
  <2>1. /\ stage = "seal" /\ unsealed' = FALSE
        /\ prod' = IF own.wakes THEN RingReaders(prod) ELSE prod
    BY <1>8 DEF CompioSeals
  <2>2. ASSUME NEW h \in Producers
        PROVE  /\ CompioFine(h, prod'[h]) /\ prod'[h].open = prod[h].open
               /\ \A o : Waking(prod'[h], o)
               /\ Orphaned(prod'[h]) => own.dirty
               /\ h \in Services => ~prod'[h].ending
    <3>1. PICK p : p = prod[h]
      OBVIOUS
    <3>2. /\ CompioFine(h, p) /\ Waking(p, own) /\ Placed(h, p, "seal", own)
          /\ (Orphaned(p) => own.dirty) /\ (h \in Services => ~p.ending)
      BY <1>2, <2>1, <3>1 DEF Placed, AfterSweep
    <3>3. CASE own.wakes
      <4>1. prod'[h] = Woken(p)
        BY <2>1, <3>1, <3>3 DEF RingReaders
      <4> QED
        BY <3>1, <3>2, <4>1, RungFine DEF Orphaned
    <3>4. CASE ~own.wakes
      <4>1. prod'[h] = p
        BY <2>1, <3>1, <3>4
      <4> QED
        BY <3>1, <3>2, <3>4, <4>1 DEF Waking
    <3> QED
      BY <3>3, <3>4
  <2>3. prod' = [h \in Producers |-> prod'[h]]
    BY <1>2, <2>1 DEF RingReaders
  <2>4. CASE HandlesLeft
    <3>1. PICK force : /\ force = (own.dirty \/ more)
                       /\ stage' = "park"
                       /\ own' = [own EXCEPT !.wakes = FALSE, !.force = force, !.dirty = FALSE,
                                             !.notified = FALSE]
      BY <1>8, <2>4 DEF CompioSeals
    <3>2. CompioShape(own')
      BY <1>2, <3>1 DEF CompioShape
    <3>3. own'.wakes = FALSE /\ own'.force = force
      BY <1>2, <3>1 DEF CompioShape
    <3>4. ASSUME NEW h \in Producers PROVE Placed(h, prod'[h], "park", own')
      BY <2>2, <3>1, <3>3 DEF Placed, AfterSweep
    <3> QED
      BY <1>1, <2>1, <2>2, <2>3, <3>1, <3>2, <3>3, <3>4, CompioMet DEF CompioStages, Awaited
  <2>5. CASE ~HandlesLeft
    <3>1. stage' = "flush" /\ own' = [own EXCEPT !.wakes = FALSE]
      BY <1>8, <2>5 DEF CompioSeals
    <3>2. CompioShape(own')
      BY <1>2, <3>1 DEF CompioShape
    <3>3. ASSUME NEW h \in Producers PROVE Placed(h, prod'[h], "flush", own')
      BY <2>2, <2>5 DEF Placed, AfterSweep, HandlesLeft
    <3> QED
      BY <1>1, <2>1, <2>2, <2>3, <3>1, <3>2, <3>3, CompioMet DEF CompioStages, Awaited
  <2> QED
    BY <2>4, <2>5
<1> QED
  BY <1>4, <1>5, <1>6, <1>7, <1>8

(* What wakes the driver, and what follows the last handle.                *)
LEMMA CompioWakesAndEnds ==
  ASSUME DriverInv, driver = "compio",
         \/ (\E h \in Producers : CompioHears(h)) \/ CompioTimer \/ CompioNotified
         \/ (\E h \in Services : CompioFlushes(h)) \/ CompioFlushed \/ CompioBackstop
  PROVE  DriverInv'
<1>1. stage \in {"park", "flush"} /\ driver' = driver
  BY DEF CompioHears, CompioTimer, CompioNotified, CompioFlushes, CompioFlushed, CompioBackstop, cKeep
<1>2. /\ \A h \in Producers : /\ CompioFine(h, prod[h]) /\ Waking(prod[h], own)
                              /\ Placed(h, prod[h], stage, own)
      /\ CompioShape(own) /\ prod \in [Producers -> Producer]
      /\ stage = "park" => ~own.wakes
  BY <1>1, CompioHolds DEF CompioStages
<1>3. Services \subseteq Producers
  BY DEF Producers
<1>4. ASSUME CompioWakes
      PROVE  CompioShape(own') /\ stage' = "tx"
  BY <1>2, <1>4 DEF CompioWakes, CompioShape
<1>5. ASSUME NEW h \in Producers
      PROVE  /\ Sound(h, Woken(prod[h])) /\ CompioFine(h, Woken(prod[h]))
             /\ Woken(prod[h]) \in Producer /\ Woken(prod[h]).reader # "waiting"
  <2>1. PICK p : p = prod[h]
    OBVIOUS
  <2>2. CompioFine(h, p) /\ Sound(h, p)
    BY <1>2, <2>1 DEF CompioFine
  <2>3. CompioFine(h, Woken(p)) /\ Sound(h, Woken(p)) /\ Woken(p).reader # "waiting"
    BY <2>2, RungFine, WokenSound
  <2> QED
    BY <2>1, <2>3 DEF Sound
<1>6. RingReaders(prod) \in [Producers -> Producer]
  BY <1>5 DEF RingReaders
<1>7. CASE (\E h \in Producers : CompioHears(h)) \/ CompioTimer
  <2> DEFINE P == RingReaders(prod)
  <2>1. P \in [Producers -> Producer] /\ \A h \in Producers : P[h] = Woken(prod[h])
    BY <1>6 DEF RingReaders
  <2>2. \A h \in Producers : Sound(h, P[h]) /\ CompioFine(h, P[h]) /\ P[h].reader # "waiting"
    BY <1>5, <2>1
  <2>3. (\E g \in Producers : Prompted(P, g, MaxDue)) \/ fire_timeouts(P)
    BY <1>7 DEF CompioHears, CompioTimer, Heard
  <2>4. MaxDue \in Nat
    BY DriverAssumption
  <2> HIDE DEF P
  <2>5. /\ prod' \in [Producers -> Producer]
        /\ \A h \in Producers :
              /\ Sound(h, prod'[h])
              /\ prod'[h].ctx = P[h].ctx /\ prod'[h].open = P[h].open
              /\ prod'[h].told = P[h].told /\ prod'[h].reader = P[h].reader
    BY <2>1, <2>2, <2>3, <2>4, PromptedSound, FiredSound
  <2>6. ASSUME NEW h \in Producers PROVE CompioFine(h, prod'[h]) /\ Waking(prod'[h], own')
    BY <2>2, <2>5 DEF CompioFine, Told, Waking
  <2>7. CompioWakes
    BY <1>7 DEF CompioHears, CompioTimer
  <2>8. prod' = [h \in Producers |-> prod'[h]]
    BY <2>5
  <2> QED
    BY <1>1, <1>4, <2>6, <2>7, <2>8, CompioMet DEF CompioStages, Awaited, Placed, AfterSweep
<1>8. CASE CompioNotified
  <2>1. stage = "park" /\ prod' = prod /\ CompioWakes
    BY <1>8 DEF CompioNotified
  <2>2. ASSUME NEW h \in Producers PROVE Waking(prod'[h], own')
    BY <1>2, <2>1 DEF Waking
  <2> QED
    BY <1>1, <1>2, <1>4, <2>1, <2>2, CompioMet DEF CompioStages, Awaited, Placed, AfterSweep
<1>9. ASSUME NEW g \in Services, CompioFlushes(g)
      PROVE  DriverInv'
  <2>1. /\ stage = "flush" /\ stage' = stage /\ own' = own /\ prod[g].ready
        /\ prod' = [prod EXCEPT ![g] = Farewelled(@)]
    BY <1>9 DEF CompioFlushes, GoodbyeDue, cKeep
  <2>2. \A h \in Producers : ~prod[h].open
    BY <1>2, <2>1 DEF Placed
  <2>3. Sound(g, prod'[g]) /\ prod'[g].ctx = "leaving" /\ ~prod'[g].open
    <3>1. PICK p : p = prod[g]
      OBVIOUS
    <3>2. prod'[g] = Farewelled(p) /\ Sound(g, p) /\ p.rounds # 0 /\ ~p.open
      BY <1>2, <1>3, <2>1, <2>2, <3>1 DEF CompioFine, Sound
    <3> QED
      BY <1>3, <3>2, FarewelledSound
  <2>4. \A h \in Producers : h # g => prod'[h] = prod[h]
    BY <1>2, <2>1
  <2>5. ASSUME NEW h \in Producers
        PROVE  /\ CompioFine(h, prod'[h]) /\ Waking(prod'[h], own')
               /\ Placed(h, prod'[h], "flush", own')
    BY <1>2, <2>2, <2>3, <2>4 DEF CompioFine, Told, Waking, Placed, AfterSweep
  <2>6. prod' = [h \in Producers |-> prod'[h]]
    BY <1>2, <2>1
  <2> QED
    BY <1>1, <1>2, <2>1, <2>5, <2>6, CompioMet DEF CompioStages, Awaited
<1>10. CASE CompioFlushed
  <2> DEFINE P == sweep_cancelled(prod)
  <2>1. /\ stage = "flush" /\ own' = own
        /\ \/ prod' = P /\ stage' = stage
           \/ /\ ~\E h \in Services : P[h].rounds > 0
              /\ prod' = [h \in Producers |-> Discarded(P[h])] /\ stage' = "ended"
    BY <1>10, Zenon DEF CompioFlushed, cKeep
  <2>2. \A h \in Producers : ~prod[h].open
    BY <1>2, <2>1 DEF Placed
  <2>3. ASSUME NEW h \in Producers
        PROVE  CompioFine(h, P[h]) /\ ~P[h].open /\ ~Orphaned(P[h]) /\ Sound(h, P[h])
    <3>1. PICK p : p = P[h]
      OBVIOUS
    <3>2. CompioFine(h, p) /\ p.open = prod[h].open /\ ~Orphaned(p)
      BY <1>2, <3>1, CompioSwept
    <3> QED
      BY <2>2, <3>1, <3>2 DEF CompioFine
  <2>4. P = [h \in Producers |-> P[h]]
    BY DEF sweep_cancelled
  <2> HIDE DEF P
  <2>5. CASE prod' = P /\ stage' = stage
    <3>1. ASSUME NEW h \in Producers
          PROVE  /\ CompioFine(h, prod'[h]) /\ Waking(prod'[h], own')
                 /\ Placed(h, prod'[h], "flush", own')
      BY <2>3, <2>5 DEF Waking, Placed, AfterSweep
    <3> QED
      BY <1>1, <1>2, <2>1, <2>4, <2>5, <3>1, CompioMet DEF CompioStages, Awaited
  <2>6. CASE /\ ~\E h \in Services : P[h].rounds > 0
             /\ prod' = [h \in Producers |-> Discarded(P[h])] /\ stage' = "ended"
    <3>1. ASSUME NEW h \in Services PROVE ~P[h].wire
      <4>1. P[h].rounds = 0
        BY <1>3, <2>3, <2>6 DEF Sound, Producer
      <4> QED
        BY <1>3, <2>3, <4>1 DEF Sound, Orphaned
    <3> QED
      BY <1>1, <2>1, <2>3, <2>6, <3>1, CompioEnded
  <2> QED
    BY <2>1, <2>5, <2>6
<1>11. CASE CompioBackstop
  <2>1. /\ stage' = "ended" /\ own' = own /\ backstopped'
        /\ prod' = [h \in Producers |-> Discarded(prod[h])]
    BY <1>11 DEF CompioBackstop
  <2>2. \A h \in Producers : Sound(h, prod[h])
    BY <1>2 DEF CompioFine
  <2> QED
    BY <1>1, <2>1, <2>2, CompioEnded
<1> QED
  BY <1>7, <1>8, <1>9, <1>10, <1>11

(***************************************************************************)
(* Every step of compio's pump, of its callers and of its readers keeps    *)
(* it, with a caller at each of its awaits.                                *)
(***************************************************************************)
LEMMA CompioStep ==
  ASSUME DriverInv, driver = "compio",
         CompioLoop \/ CompioWorld \/ (\E h \in Producers : CompioReads(h))
  PROVE  DriverInv'
BY CompioCallers, CompioPump, CompioPassEnds, CompioWakesAndEnds DEF CompioLoop, CompioWorld

-----------------------------------------------------------------------------
(* reactor.                                                                *)

(* What the reactor keeps true of one producer in stage `at`.              *)
ReactorFine(h, p, at) ==
  /\ Sound(h, p) /\ p.ctx # "freed"
  /\ at # "flush" => /\ Told(p)
                     /\ p.open /\ p.ctx \notin {"absent", "live"} => p.reader # "waiting"
  /\ at \in {"goodbye", "park"} /\ p.open => ~p.ending
  /\ at = "flush" /\ h \in Services => p.ctx \notin {"live", "retired"}

(***************************************************************************)
(* What the command channel holds of a producer.                           *)
(***************************************************************************)
Mail(h, p, cmds) ==
  /\ <<"add", h>> \in cmds => p.ctx = "absent"
  /\ <<"remove", h>> \in cmds => p.ctx # "absent" /\ ~p.open
  /\ Orphaned(p) => <<"remove", h>> \in cmds

(* The stages in which the reactor still runs.                             *)
ReactorStages == {"recv", "tx", "goodbye", "commands", "park", "flush"}

(***************************************************************************)
(* A reactor step keeps the invariant if it keeps it of every producer and *)
(* of its mail.                                                            *)
(***************************************************************************)
LEMMA ReactorMet ==
  ASSUME DriverInv, driver = "reactor", driver' = driver, ReactorShape(own'),
         own'.cmds \subseteq {"add", "remove"} \X Producers, stage' \in ReactorStages,
         stage' \in {"recv", "commands", "park"} => ~unsealed',
         prod' = [h \in Producers |-> prod'[h]],
         \A h \in Producers :
           ReactorFine(h, prod'[h], stage') /\ Mail(h, prod'[h], own'.cmds)
  PROVE  DriverInv'
<1>1. Common'
  <2>1. prod' \in [Producers -> Producer]
    BY DEF ReactorFine, Sound
  <2> QED
    BY <2>1 DEF DriverInv, Common, Inert, ReactorFine, ReactorStages
<1>2. ReactorInv'
  <2>1. \A h \in Producers : h \in Services => ReactorFine(h, prod'[h], stage')
    OBVIOUS
  <2> QED
    BY <2>1 DEF ReactorInv, ReactorFine, Mail, ReactorStages, Producers
<1> QED
  BY <1>1, <1>2 DEF DriverInv

(* What holds wherever the loop runs on from.                              *)
LEMMA ReactorHolds ==
  ASSUME DriverInv, driver = "reactor", stage \in ReactorStages
  PROVE  /\ \A h \in Producers :
              ReactorFine(h, prod[h], stage) /\ Mail(h, prod[h], own.cmds)
         /\ ReactorShape(own) /\ own.cmds \subseteq {"add", "remove"} \X Producers
         /\ prod \in [Producers -> Producer]
         /\ stage \in {"recv", "commands", "park"} => ~unsealed
BY DEF DriverInv, Common, ReactorInv, ReactorFine, Mail, ReactorStages

(* The walk's accounting of failures and passes cannot disturb it.         *)
LEMMA ReactorAlike ==
  ASSUME NEW h \in Producers, NEW p, NEW q, NEW at, NEW cmds,
         ReactorFine(h, p, at), Mail(h, p, cmds), Alike(p, q)
  PROVE  ReactorFine(h, q, at) /\ Mail(h, q, cmds)
BY AlikeSound DEF ReactorFine, Told, Orphaned, Mail, Alike

(* A producer that is removed is withdrawn, or forgotten at once.          *)
LEMMA ReactorRemoves ==
  ASSUME NEW h \in Producers, NEW p, Sound(h, p), p.ctx \notin {"freed", "absent"},
         p.open => p.reader # "waiting" /\ (p.reader = "ended" \/ p.told = "posted"),
         NEW r, r = IF h \in Services THEN Withdrawn(p) ELSE Forgotten(p)
  PROVE  /\ \A at : ReactorFine(h, r, at)
         /\ \A cmds : Mail(h, p, cmds) => Mail(h, r, cmds)
         /\ r.ctx \in {"leaving", "gone"} /\ r.open = p.open
<1>1. p.ctx \in {"live", "retired", "leaving", "gone"}
  BY DEF Sound, Producer, Contexts
<1>2. /\ Sound(h, r) /\ r.ctx \in {"leaving", "gone"} /\ r.open = p.open /\ r.told = p.told
      /\ r.reader = p.reader \/ (p.reader = "waiting" /\ r.reader = "busy")
  <2>1. CASE h \in Services
    BY <1>1, <2>1, WithdrawnSound
  <2>2. CASE h \notin Services
    <3>1. r = Forgotten(p) /\ h \in Queries
      BY <2>2 DEF Producers
    <3>2. p \in Producer /\ p.rounds = 0 /\ ~p.ready /\ ~p.wire
      BY <3>1 DEF Sound
    <3> QED
      BY <3>1, <3>2, ForgottenSound
  <2> QED
    BY <2>1, <2>2
<1>3. r.ctx # "live" /\ ~r.ending
  BY <1>2 DEF Sound
<1> QED
  BY <1>1, <1>2, <1>3 DEF ReactorFine, Told, Mail, Orphaned

(* A producer that ended is given up with its caller told and woken.       *)
LEMMA ReactorRetires ==
  ASSUME NEW h \in Producers, NEW p, Sound(h, p), p.ctx = "live",
         NEW r, \/ r = RetiredProducer(p, h)
                \/ h \in Queries /\ r = Forgotten(Woken(Posted(p)))
                \/ h \in Services /\ r = Withdrawn(Woken(Posted(p)))
  PROVE  /\ \A at : ReactorFine(h, r, at)
         /\ \A cmds : Mail(h, p, cmds) => Mail(h, r, cmds)
<1> DEFINE w == Woken(p)
<1>1. /\ Sound(h, w) /\ w.ctx = "live" /\ w.reader # "waiting" /\ w.open = p.open
      /\ w.told = p.told
  <2>1. /\ Sound(h, w) /\ w.reader # "waiting"
        /\ w = [p EXCEPT !.reader = IF p.reader = "waiting" THEN "busy" ELSE p.reader]
    BY WokenSound
  <2> HIDE DEF w
  <2> QED
    BY <2>1 DEF Sound, Producer
<1>2. Woken(Posted(p)) = Posted(w)
  BY DEF Woken, Posted, Sound, Producer
<1> HIDE DEF w
<1>3. /\ Sound(h, r) /\ r.ctx # "live" /\ r.ctx \notin {"freed", "absent"} /\ r.open = p.open
      /\ r.reader # "waiting" /\ (p.open => r.told = "posted")
      /\ h \in Services => r.ctx = "leaving"
  <2>1. CASE r = Withdrawn(Posted(w)) /\ h \in Services
    BY <1>1, <2>1, GivenUpSound
  <2>2. CASE /\ h \in Queries
             /\ r = [Posted(w) EXCEPT !.ctx = "retired", !.due = 0, !.ending = FALSE]
    <3>1. h \notin Services
      BY <2>2, DriverAssumption DEF Producers
    <3> QED
      BY <1>1, <2>2, <3>1, ShelvedSound
  <2>3. CASE h \in Queries /\ r = Forgotten(Posted(w))
    <3>1. h \notin Services
      BY <2>3, DriverAssumption DEF Producers
    <3>2. /\ Posted(w) \in Producer
          /\ Posted(w) = [w EXCEPT !.told = IF w.told = "none" THEN "posted" ELSE w.told]
          /\ w.rounds = 0 /\ ~w.ready /\ ~w.wire /\ w \in Producer
      BY <1>1, <2>3, PostedSound DEF Sound
    <3>3. PICK q : q = Posted(w)
      OBVIOUS
    <3>4. /\ q \in Producer /\ q.rounds = 0 /\ ~q.ready /\ ~q.wire /\ q.open = p.open
          /\ q.reader = w.reader /\ (p.open => q.told = "posted")
      BY <1>1, <3>2, <3>3 DEF Producer, Sound
    <3>5. /\ Sound(h, r) /\ r.ctx = "gone" /\ r.open = q.open /\ r.told = q.told
          /\ r.reader = IF q.reader = "waiting" THEN "busy" ELSE q.reader
      BY <2>3, <3>3, <3>4, ForgottenSound
    <3> QED
      BY <1>1, <3>1, <3>4, <3>5
  <2> QED
    BY <1>2, <2>1, <2>2, <2>3
    DEF RetiredProducer, RetiredService, RetiredQuery, Producers
<1>4. ~r.ending
  BY <1>3 DEF Sound
<1> QED
  BY <1>3, <1>4 DEF ReactorFine, Told, Mail, Orphaned

(* The command channel is the only part of the bookkeeping proved about.   *)
LEMMA CommandsChange ==
  ASSUME NEW o, ReactorShape(o), NEW cmds, NEW q, q = [o EXCEPT !.cmds = cmds]
  PROVE  ReactorShape(q) /\ q.cmds = cmds
<1>1. ReactorShape(q)
  BY DEF ReactorShape
<1>2. q.cmds = cmds
  BY DEF ReactorShape
<1> QED
  BY <1>1, <1>2

(* Callers on other threads, and the receive tasks.                        *)
LEMMA ReactorCallers ==
  ASSUME DriverInv, driver = "reactor",
         \/ \E h \in Producers : ReactorAsks(h) \/ ReactorDrops(h) \/ ReactorReads(h)
         \/ EndpointDropped \/ (\E f \in Links : RecvFails(f))
         \/ \E f \in Links, h \in Producers : ReactorHears(f, h)
  PROVE  DriverInv'
<1>1. stage \in {"recv", "tx", "commands", "park"} /\ stage' = stage /\ driver' = driver
      /\ unsealed' = unsealed
  BY DEF ReactorAsks, ReactorDrops, ReactorReads, EndpointDropped, RecvFails, ReactorHears,
         ReactorYields, rKeep
<1>2. /\ \A h \in Producers : ReactorFine(h, prod[h], stage) /\ Mail(h, prod[h], own.cmds)
      /\ ReactorShape(own) /\ own.cmds \subseteq {"add", "remove"} \X Producers
      /\ prod \in [Producers -> Producer]
      /\ stage \in {"recv", "commands", "park"} => ~unsealed
  BY <1>1, ReactorHolds DEF ReactorStages
<1>3. ASSUME ReactorShape(own'), own'.cmds \subseteq {"add", "remove"} \X Producers,
             prod' = [h \in Producers |-> prod'[h]],
             \A h \in Producers : ReactorFine(h, prod'[h], stage) /\ Mail(h, prod'[h], own'.cmds)
      PROVE  DriverInv'
  BY <1>1, <1>2, <1>3, ReactorMet DEF ReactorStages
<1>4. ASSUME NEW g \in Producers, ReactorAsks(g)
      PROVE  DriverInv'
  <2>1. /\ prod[g].ctx = "absent" /\ prod' = [prod EXCEPT ![g].open = TRUE]
        /\ own' = [own EXCEPT !.cmds = @ \cup {<<"add", g>>}]
    BY <1>4 DEF ReactorAsks
  <2>2. ReactorShape(own') /\ own'.cmds = own.cmds \cup {<<"add", g>>}
    BY <1>2, <2>1, CommandsChange
  <2>3. own'.cmds \subseteq {"add", "remove"} \X Producers
    BY <1>2, <2>2
  <2>4. ReactorFine(g, prod'[g], stage) /\ prod'[g].ctx = "absent"
    <3>1. PICK p : p = prod[g]
      OBVIOUS
    <3>2. /\ prod'[g] = [p EXCEPT !.open = TRUE] /\ Sound(g, p) /\ p.ctx = "absent"
          /\ ReactorFine(g, p, stage)
      BY <1>2, <2>1, <3>1 DEF ReactorFine
    <3>3. Sound(g, prod'[g]) /\ prod'[g].ctx = "absent" /\ ~prod'[g].ending
      BY <3>2 DEF Sound, Producer
    <3> QED
      BY <1>1, <3>2, <3>3 DEF ReactorFine, Told
  <2>5. Mail(g, prod'[g], own'.cmds)
    <3>1. <<"remove", g>> \notin own.cmds
      BY <1>2, <2>1 DEF Mail
    <3>2. <<"remove", g>> \notin own'.cmds
      BY <2>2, <3>1
    <3> QED
      BY <2>4, <3>2 DEF Mail, Orphaned
  <2>6. ASSUME NEW h \in Producers, h # g
        PROVE  prod'[h] = prod[h] /\ Mail(h, prod[h], own'.cmds)
    BY <1>2, <2>1, <2>2, <2>6 DEF Mail
  <2>7. prod' = [h \in Producers |-> prod'[h]]
    BY <1>2, <2>1
  <2> QED
    BY <1>2, <1>3, <2>2, <2>3, <2>4, <2>5, <2>6, <2>7
<1>5. ASSUME NEW g \in Producers, ReactorDrops(g)
      PROVE  DriverInv'
  <2>1. /\ prod' = [prod EXCEPT ![g] = Dropped(@)]
        /\ own' = IF prod[g].ctx = "absent" THEN own
                  ELSE [own EXCEPT !.cmds = @ \cup {<<"remove", g>>}]
    BY <1>5 DEF ReactorDrops
  <2>2. /\ ReactorShape(own') /\ own'.cmds \subseteq {"add", "remove"} \X Producers
        /\ own.cmds \subseteq own'.cmds /\ own'.cmds \subseteq own.cmds \cup {<<"remove", g>>}
        /\ prod[g].ctx = "absent" => own'.cmds = own.cmds
        /\ prod[g].ctx # "absent" => <<"remove", g>> \in own'.cmds
    <3>1. CASE prod[g].ctx = "absent"
      BY <1>2, <2>1, <3>1
    <3>2. CASE prod[g].ctx # "absent"
      <4>1. ReactorShape(own') /\ own'.cmds = own.cmds \cup {<<"remove", g>>}
        BY <1>2, <2>1, <3>2, CommandsChange
      <4> QED
        BY <1>2, <3>2, <4>1
    <3> QED
      BY <3>1, <3>2
  <2>3. PICK p : p = prod[g]
    OBVIOUS
  <2>4. prod'[g] = Dropped(p) /\ Sound(g, p) /\ ReactorFine(g, p, stage) /\ Mail(g, p, own.cmds)
    BY <1>2, <2>1, <2>3 DEF ReactorFine
  <2>5. Sound(g, prod'[g]) /\ prod'[g].ctx = p.ctx /\ ~prod'[g].open
    BY <2>4, DroppedSound
  <2>6. ReactorFine(g, prod'[g], stage)
    BY <1>1, <2>4, <2>5 DEF ReactorFine, Told
  <2>7. Mail(g, prod'[g], own'.cmds)
    BY <2>2, <2>3, <2>4, <2>5 DEF Mail, Orphaned
  <2>8. ASSUME NEW h \in Producers, h # g
        PROVE  prod'[h] = prod[h] /\ Mail(h, prod[h], own'.cmds)
    BY <1>2, <2>1, <2>2, <2>8 DEF Mail
  <2>9. prod' = [h \in Producers |-> prod'[h]]
    BY <1>2, <2>1
  <2> QED
    BY <1>2, <1>3, <2>2, <2>6, <2>7, <2>8, <2>9
<1>6. ASSUME NEW g \in Producers, ReactorReads(g)
      PROVE  DriverInv'
  <2>1. PICK p : p = prod[g]
    OBVIOUS
  <2>2. /\ ReactorFine(g, p, stage) /\ Mail(g, p, own.cmds) /\ Sound(g, p) /\ Told(p)
        /\ p.open /\ p.reader = "busy" /\ p.ctx # "absent" /\ own' = own /\ stage = "park"
    BY <1>2, <1>6, <2>1 DEF ReactorFine, ReactorReads
  <2>3. PICK t, r : /\ t = (IF p.told = "posted" THEN "taken" ELSE p.told)
                    /\ r = (IF p.told = "posted" \/ ~Present(g) THEN "ended" ELSE "waiting")
                    /\ prod' = [prod EXCEPT ![g].told = t, ![g].reader = r]
    BY <1>6, <2>1 DEF ReactorReads
  <2>4. prod'[g] = [p EXCEPT !.told = t, !.reader = r]
    BY <1>2, <2>1, <2>3
  <2>5. t \in {"none", "posted", "taken"} /\ r \in {"waiting", "busy", "ended"} /\ p \in Producer
    BY <2>2, <2>3 DEF Sound, Producer
  <2>6. prod'[g] \in Producer /\ prod'[g].told = t /\ prod'[g].reader = r
    BY <2>4, <2>5 DEF Producer
  <2>7. /\ prod'[g].ctx = p.ctx /\ prod'[g].open = p.open /\ prod'[g].ending = p.ending
        /\ prod'[g].due = p.due /\ prod'[g].rounds = p.rounds /\ prod'[g].ready = p.ready
        /\ prod'[g].wire = p.wire
    BY <2>4, <2>5 DEF Producer
  <2>8. (p.ctx = "live" => t = "none") /\ (p.ctx # "live" => r = "ended")
    BY <2>2, <2>3 DEF Sound, Told
  <2>9. ReactorFine(g, prod'[g], stage) /\ Mail(g, prod'[g], own.cmds)
    BY <2>2, <2>6, <2>7, <2>8 DEF ReactorFine, Sound, Told, Mail, Orphaned
  <2>10. \A h \in Producers : h # g => prod'[h] = prod[h]
    BY <1>2, <2>3
  <2>11. prod' = [h \in Producers |-> prod'[h]]
    BY <1>2, <2>3
  <2> QED
    BY <1>2, <1>3, <2>2, <2>9, <2>10, <2>11
<1>7. CASE EndpointDropped \/ (\E f \in Links : RecvFails(f))
  BY <1>2, <1>3, <1>7 DEF EndpointDropped, RecvFails
<1>8. ASSUME NEW f \in Links, NEW g \in Producers, ReactorHears(f, g)
      PROVE  DriverInv'
  <2>1. stage = "recv" /\ own' = own /\ Prompted(prod, g, MaxDue) /\ MaxDue \in Nat
    BY <1>8, DriverAssumption DEF ReactorHears, Heard
  <2>2. \A h \in Producers : Sound(h, prod[h])
    BY <1>2 DEF ReactorFine
  <2>3. /\ prod' \in [Producers -> Producer]
        /\ \A h \in Producers :
              /\ Sound(h, prod'[h])
              /\ prod'[h].ctx = prod[h].ctx /\ prod'[h].open = prod[h].open
              /\ prod'[h].told = prod[h].told /\ prod'[h].reader = prod[h].reader
    BY <1>2, <2>1, <2>2, PromptedSound
  <2>4. ASSUME NEW h \in Producers
        PROVE  ReactorFine(h, prod'[h], stage) /\ Mail(h, prod'[h], own.cmds)
    BY <1>2, <2>1, <2>3 DEF ReactorFine, Told, Mail, Orphaned
  <2>5. prod' = [h \in Producers |-> prod'[h]]
    BY <2>3
  <2> QED
    BY <1>2, <1>3, <2>1, <2>4, <2>5
<1> QED
  BY <1>4, <1>5, <1>6, <1>7, <1>8

(* The walk of a drain leaves the command channel alone.                   *)
LEMMA WalkMoves ==
  ASSUME NEW o, ReactorShape(o), NEW a,
         NEW q, \/ q = [o EXCEPT !.slots = a]
                \/ q = [o EXCEPT !.served = a]
                \/ q = [o EXCEPT !.query_resume = a]
                \/ q = [o EXCEPT !.svc_resume = a]
                \/ q = [o EXCEPT !.drain = a]
  PROVE  ReactorShape(q) /\ q.cmds = o.cmds
<1>1. q.cmds = o.cmds
  BY DEF ReactorShape
<1>2. CASE q = [o EXCEPT !.slots = a]
  BY <1>2 DEF ReactorShape
<1>3. CASE q = [o EXCEPT !.served = a]
  BY <1>3 DEF ReactorShape
<1>4. CASE q = [o EXCEPT !.query_resume = a] \/ q = [o EXCEPT !.svc_resume = a]
  BY <1>4 DEF ReactorShape
<1>5. CASE q = [o EXCEPT !.drain = a]
  BY <1>5 DEF ReactorShape
<1> QED
  BY <1>1, <1>2, <1>3, <1>4, <1>5

(* The end of a class of producers, and with the second one of the drain.  *)
LEMMA ClassEndsFine ==
  ASSUME NEW o, ReactorShape(o), o.cmds = own.cmds, NEW cut, ClassEnds(o, cut), stage = "tx",
         \A h \in Producers : ReactorFine(h, prod[h], "tx") /\ Mail(h, prod[h], own.cmds)
  PROVE  /\ ReactorShape(own') /\ own'.cmds = own.cmds /\ stage' \in {"tx", "goodbye"}
         /\ prod' = [h \in Producers |-> prod'[h]]
         /\ \A h \in Producers :
              ReactorFine(h, prod'[h], stage') /\ Mail(h, prod'[h], own.cmds)
<1> DEFINE left == [h \in Producers |-> IF h \in Queries /\ prod[h].ctx = "retired"
                                        THEN cancel_query(prod[h]) ELSE prod[h]]
<1>1. ASSUME NEW h \in Producers
      PROVE  /\ \A at \in {"tx", "goodbye"} :
                  left[h].ctx # "live" => ReactorFine(h, left[h], at)
             /\ ReactorFine(h, left[h], "tx")
             /\ Mail(h, left[h], own.cmds) /\ Sound(h, left[h])
  <2>1. PICK p : p = prod[h]
    OBVIOUS
  <2>2. ReactorFine(h, p, "tx") /\ Mail(h, p, own.cmds) /\ Sound(h, p)
    BY <2>1 DEF ReactorFine
  <2>3. CASE h \in Queries /\ p.ctx = "retired"
    <3>1. left[h] = Forgotten(p) /\ h \notin Services
      BY <2>1, <2>3, DriverAssumption DEF cancel_query, Producers
    <3>2. p.open => p.reader # "waiting" /\ (p.reader = "ended" \/ p.told = "posted")
      BY <2>2, <2>3 DEF ReactorFine, Told
    <3>3. /\ \A at : ReactorFine(h, left[h], at)
          /\ \A cmds : Mail(h, p, cmds) => Mail(h, left[h], cmds)
      <4> HIDE DEF left
      <4> QED
        BY <2>2, <2>3, <3>1, <3>2, ReactorRemoves
    <3> HIDE DEF left
    <3> QED
      BY <2>2, <3>3 DEF ReactorFine
  <2>4. CASE ~(h \in Queries /\ p.ctx = "retired")
    <3>1. left[h] = p
      BY <2>1, <2>4
    <3>2. p.ctx # "live" => ~p.ending
      BY <2>2 DEF Sound
    <3> HIDE DEF left
    <3> QED
      BY <2>2, <3>1, <3>2 DEF ReactorFine
  <2> QED
    BY <2>3, <2>4
<1>2. CASE own.drain = 1
  <2>1. /\ prod' = left /\ stage' = stage
        /\ own' = [o EXCEPT !.drain = 2, !.visited = 0, !.served = FALSE,
                            !.slots = handle_scratch(~own.queries_first, prod)]
    BY <1>2, Zenon DEF ClassEnds
  <2>2. ReactorShape(own') /\ own'.cmds = own.cmds
    <3>1. PICK a, b, c, d : own' = [o EXCEPT !.drain = a, !.visited = b, !.served = c, !.slots = d]
      BY <2>1
    <3>2. ReactorShape(own')
      BY <3>1 DEF ReactorShape
    <3>3. own'.cmds = o.cmds
      BY <3>1 DEF ReactorShape
    <3> QED
      BY <3>2, <3>3
  <2>3. prod' = [h \in Producers |-> prod'[h]]
    BY <2>1
  <2> HIDE DEF left
  <2> QED
    BY <1>1, <2>1, <2>2, <2>3
<1>3. CASE own.drain # 1
  <2>1. /\ prod' = push_updates([h \in Producers |-> Overlooked(left[h])])
        /\ stage' = "goodbye"
        /\ own' = [o EXCEPT !.queries_first = IF more' THEN ~@ ELSE @, !.slots = <<>>,
                            !.visited = 0, !.served = FALSE]
    BY <1>3, Zenon DEF ClassEnds
  <2>2. ReactorShape(own') /\ own'.cmds = own.cmds
    <3>1. PICK a, b, c, d : own' = [o EXCEPT !.queries_first = a, !.slots = b, !.visited = c,
                                             !.served = d]
      BY <2>1
    <3>2. ReactorShape(own')
      BY <3>1 DEF ReactorShape
    <3>3. own'.cmds = o.cmds
      BY <3>1 DEF ReactorShape
    <3> QED
      BY <3>2, <3>3
  <2> HIDE DEF left
  <2>3. ASSUME NEW h \in Producers
        PROVE  ReactorFine(h, prod'[h], "goodbye") /\ Mail(h, prod'[h], own.cmds)
    <3>1. PICK p : p = left[h]
      OBVIOUS
    <3>2. PICK q : q = Overlooked(p)
      OBVIOUS
    <3>3. prod'[h] = Pushed(q, h)
      BY <2>1, <3>1, <3>2 DEF push_updates
    <3>4. /\ ReactorFine(h, p, "tx") /\ Mail(h, p, own.cmds) /\ Sound(h, p)
          /\ p.ctx # "live" => ReactorFine(h, p, "goodbye")
      BY <1>1, <3>1
    <3>5. Alike(p, q)
      BY <3>2, <3>4, CountersAside DEF Sound
    <3>6. /\ ReactorFine(h, q, "tx") /\ Mail(h, q, own.cmds) /\ Sound(h, q)
          /\ q.ctx # "live" => ReactorFine(h, q, "goodbye")
      BY <3>4, <3>5, ReactorAlike DEF ReactorFine, Alike
    <3>7. CASE q.ctx # "live"
      BY <3>3, <3>6, <3>7 DEF Pushed
    <3>8. CASE q.ctx = "live" /\ ~q.open
      <4>1. prod'[h] = IF h \in Services THEN Withdrawn(q) ELSE Forgotten(q)
        BY <3>3, <3>8 DEF Pushed, remove_service, cancel_query
      <4> QED
        BY <3>6, <3>8, <4>1, ReactorRemoves
    <3>9. CASE q.ctx = "live" /\ q.open /\ q.ending
      <4>1. \/ h \in Queries /\ prod'[h] = Forgotten(Woken(Posted(q)))
            \/ h \in Services /\ prod'[h] = Withdrawn(Woken(Posted(q)))
        BY <3>3, <3>9 DEF Pushed, remove_service, cancel_query, Producers
      <4> QED
        BY <3>6, <3>9, <4>1, ReactorRetires
    <3>10. CASE q.ctx = "live" /\ q.open /\ ~q.ending
      BY <3>3, <3>6, <3>10 DEF Pushed, ReactorFine
    <3> QED
      BY <3>7, <3>8, <3>9, <3>10
  <2>4. prod' = [h \in Producers |-> prod'[h]]
    BY <2>1 DEF push_updates
  <2> QED
    BY <2>1, <2>2, <2>3, <2>4
<1> QED
  BY <1>2, <1>3

(* A pass from its sweep to the end of its drain.                          *)
LEMMA ReactorDrain ==
  ASSUME DriverInv, driver = "reactor",
         \/ ReactorPass \/ CutShort \/ ClassDone \/ PassOver \/ NothingDue \/ EncodeFails
         \/ (\E n \in Fanouts : ReactorSends(n)) \/ Undeliverable
  PROVE  DriverInv'
<1>1. stage \in {"recv", "tx"} /\ driver' = driver
  BY DEF ReactorPass, CutShort, ClassDone, PassOver, NothingDue, EncodeFails, ReactorSends,
         Undeliverable, Polled, Draining, rKeep
<1>2. /\ \A h \in Producers : /\ ReactorFine(h, prod[h], stage) /\ Mail(h, prod[h], own.cmds)
                              /\ ReactorFine(h, prod[h], "tx") /\ Sound(h, prod[h])
      /\ ReactorShape(own) /\ own.cmds \subseteq {"add", "remove"} \X Producers
      /\ prod \in [Producers -> Producer]
  BY <1>1, ReactorHolds DEF ReactorStages, ReactorFine
<1>3. ASSUME ReactorShape(own'), own'.cmds = own.cmds, stage' \in {"tx", "goodbye"},
             prod' = [h \in Producers |-> prod'[h]],
             \A h \in Producers : ReactorFine(h, prod'[h], stage') /\ Mail(h, prod'[h], own.cmds)
      PROVE  DriverInv'
  BY <1>1, <1>2, <1>3, ReactorMet DEF ReactorStages
<1>4. CASE ReactorPass
  <2> DEFINE P == sweep_closed_handles
  <2>1. /\ stage = "recv" /\ stage' = "tx" /\ fire_timeouts(P)
        /\ own' = [own EXCEPT !.slots = handle_scratch(own.queries_first, P)]
    BY <1>4, Zenon DEF ReactorPass
  <2>2. ReactorShape(own') /\ own'.cmds = own.cmds
    BY <1>2, <2>1, WalkMoves
  <2>3. ASSUME NEW h \in Producers
        PROVE  ReactorFine(h, P[h], "tx") /\ Mail(h, P[h], own.cmds)
    <3>1. PICK p : p = prod[h]
      OBVIOUS
    <3>2. ReactorFine(h, p, "tx") /\ Mail(h, p, own.cmds) /\ Sound(h, p)
      BY <1>2, <3>1
    <3>3. P[h] = IF p.ctx # "live" \/ p.open THEN p
                 ELSE IF h \in Services THEN Withdrawn(p) ELSE Forgotten(p)
      BY <3>1 DEF sweep_closed_handles, Live, remove_service, cancel_query
    <3> HIDE DEF P
    <3>4. CASE p.ctx # "live" \/ p.open
      BY <3>2, <3>3, <3>4
    <3>5. CASE p.ctx = "live" /\ ~p.open
      <4>1. P[h] = IF h \in Services THEN Withdrawn(p) ELSE Forgotten(p)
        BY <3>3, <3>5
      <4> QED
        BY <3>2, <3>5, <4>1, ReactorRemoves
    <3> QED
      BY <3>4, <3>5
  <2>4. P = [h \in Producers |-> P[h]]
    BY DEF sweep_closed_handles
  <2> HIDE DEF P
  <2>5. P \in [Producers -> Producer] /\ \A h \in Producers : Sound(h, P[h])
    BY <2>3, <2>4 DEF ReactorFine, Sound
  <2>6. /\ prod' \in [Producers -> Producer]
        /\ \A h \in Producers :
              /\ Sound(h, prod'[h])
              /\ prod'[h].ctx = P[h].ctx /\ prod'[h].open = P[h].open
              /\ prod'[h].told = P[h].told /\ prod'[h].reader = P[h].reader
    BY <2>1, <2>5, FiredSound
  <2>7. ASSUME NEW h \in Producers
        PROVE  ReactorFine(h, prod'[h], "tx") /\ Mail(h, prod'[h], own.cmds)
    BY <2>3, <2>6 DEF ReactorFine, Told, Mail, Orphaned
  <2>8. prod' = [h \in Producers |-> prod'[h]]
    BY <2>6
  <2> QED
    BY <1>3, <2>1, <2>2, <2>7, <2>8
<1>5. CASE CutShort \/ ClassDone
  <2>1. /\ stage = "tx"
        /\ ClassEnds(own, FALSE) \/ ClassEnds(ResumeAt(own), TRUE)
    BY <1>5 DEF CutShort, ClassDone, Draining
  <2>2. ReactorShape(ResumeAt(own)) /\ ResumeAt(own).cmds = own.cmds
    <3>1. PICK a : \/ ResumeAt(own) = [own EXCEPT !.query_resume = a]
                   \/ ResumeAt(own) = [own EXCEPT !.svc_resume = a]
      BY DEF ResumeAt
    <3> QED
      BY <1>2, <3>1, WalkMoves
  <2>3. /\ ReactorShape(own') /\ own'.cmds = own.cmds /\ stage' \in {"tx", "goodbye"}
        /\ prod' = [h \in Producers |-> prod'[h]]
        /\ \A h \in Producers :
              ReactorFine(h, prod'[h], stage') /\ Mail(h, prod'[h], own.cmds)
    <3>1. CASE ClassEnds(own, FALSE)
      BY <1>2, <2>1, <3>1, ClassEndsFine
    <3>2. CASE ClassEnds(ResumeAt(own), TRUE)
      BY <1>2, <2>1, <2>2, <3>2, ClassEndsFine
    <3> QED
      BY <2>1, <3>1, <3>2
  <2> QED
    BY <1>3, <2>3
<1>6. ASSUME NextSlot
      PROVE  ReactorShape(own') /\ own'.cmds = own.cmds
  <2>1. PICK a, b : own' = [own EXCEPT !.visited = a, !.served = b]
    BY <1>6 DEF NextSlot
  <2>2. ReactorShape(own')
    BY <1>2, <2>1 DEF ReactorShape
  <2>3. own'.cmds = own.cmds
    BY <1>2, <2>1 DEF ReactorShape
  <2> QED
    BY <2>2, <2>3
<1>7. CASE PassOver
  <2>1. stage' = stage /\ prod' = prod /\ stage = "tx" /\ NextSlot
    BY <1>7 DEF PassOver, Draining
  <2> QED
    BY <1>2, <1>3, <1>6, <2>1
<1>8. ASSUME stage = "tx", stage' = stage, ReactorShape(own'), own'.cmds = own.cmds,
             NEW v, prod' = [prod EXCEPT ![Slot] = v],
             Slot \in Producers => /\ ReactorFine(Slot, v, "tx")
                                  /\ Mail(Slot, v, own.cmds)
      PROVE  DriverInv'
  <2>1. \A h \in Producers : ReactorFine(h, prod'[h], "tx") /\ Mail(h, prod'[h], own.cmds)
    BY <1>2, <1>8
  <2>2. prod' = [h \in Producers |-> prod'[h]]
    BY <1>2, <1>8
  <2> QED
    BY <1>3, <1>8, <2>1, <2>2
<1>9. CASE NothingDue
  <2>1. PICK v : /\ v = [prod[Slot] EXCEPT !.failures = 0]
                 /\ prod' = [prod EXCEPT ![Slot] = v]
    BY <1>9 DEF NothingDue
  <2>2. stage = "tx" /\ stage' = stage /\ NextSlot
    BY <1>9 DEF NothingDue, Polled, Draining
  <2>3. ASSUME Slot \in Producers
        PROVE  ReactorFine(Slot, v, "tx") /\ Mail(Slot, v, own.cmds)
    <3>1. PICK p : p = prod[Slot]
      OBVIOUS
    <3>2. ReactorFine(Slot, p, "tx") /\ Mail(Slot, p, own.cmds) /\ p \in Producer
      BY <1>2, <2>3, <3>1
    <3>3. Alike(p, v)
      BY <2>1, <3>1, <3>2, CountersAside
    <3> QED
      BY <2>3, <3>2, <3>3, ReactorAlike
  <2> QED
    BY <1>6, <1>8, <2>1, <2>2, <2>3
<1>10. CASE EncodeFails
  <2>1. PICK p, v : /\ p = [prod[Slot] EXCEPT !.failures = @ + 1, !.waited = 0]
                    /\ v = p \/ v = RetiredProducer(p, Slot)
                    /\ prod' = [prod EXCEPT ![Slot] = v]
    <3> DEFINE f == [prod[Slot] EXCEPT !.failures = @ + 1, !.waited = 0]
               r == IF Slot \in Services /\ f.failures < MAX_CONSECUTIVE_ENCODE_ERRORS THEN f
                    ELSE RetiredProducer(f, Slot)
    <3>1. prod' = [prod EXCEPT ![Slot] = r]
      BY <1>10, Zenon DEF EncodeFails
    <3>2. r = f \/ r = RetiredProducer(f, Slot)
      OBVIOUS
    <3> HIDE DEF r
    <3> QED
      BY <3>1, <3>2
  <2>2. stage = "tx" /\ stage' = stage /\ NextSlot /\ prod[Slot].due > 0
    BY <1>10 DEF EncodeFails, Polled, Draining
  <2>3. ASSUME Slot \in Producers
        PROVE  ReactorFine(Slot, v, "tx") /\ Mail(Slot, v, own.cmds)
    <3>1. PICK q : q = prod[Slot]
      OBVIOUS
    <3>2. /\ ReactorFine(Slot, q, "tx") /\ Mail(Slot, q, own.cmds) /\ q \in Producer
          /\ q.ctx = "live"
      BY <1>2, <2>2, <2>3, <3>1 DEF Sound
    <3>3. Alike(q, p)
      BY <2>1, <3>1, <3>2, CountersAside
    <3>4. /\ ReactorFine(Slot, p, "tx") /\ Mail(Slot, p, own.cmds) /\ p.ctx = "live"
          /\ Sound(Slot, p)
      BY <2>3, <3>2, <3>3, ReactorAlike DEF Alike, ReactorFine
    <3> QED
      BY <2>1, <2>3, <3>4, ReactorRetires
  <2> QED
    BY <1>6, <1>8, <2>1, <2>2, <2>3
<1>11. ASSUME NEW n \in Nat, prod[Slot].due > 0, Slot \in Producers
       PROVE  LET p == Sent(prod[Slot], Slot, n)
              IN /\ ReactorFine(Slot, p, "tx") /\ Mail(Slot, p, own.cmds)
                 /\ Sound(Slot, p) /\ p.ctx = "live"
  <2>1. PICK q : q = prod[Slot]
    OBVIOUS
  <2>2. PICK p : p = Sent(q, Slot, n)
    OBVIOUS
  <2>3. /\ ReactorFine(Slot, q, "tx") /\ Mail(Slot, q, own.cmds) /\ Sound(Slot, q)
        /\ q.due # 0 /\ q.ctx = "live"
    BY <1>2, <1>11, <2>1 DEF Sound
  <2>4. /\ Sound(Slot, p) /\ p.ctx = "live" /\ p.open = q.open /\ ~p.ending
        /\ p.told = q.told /\ p.reader = q.reader
    BY <1>11, <2>2, <2>3, SentSound
  <2>5. ReactorFine(Slot, p, "tx") /\ Mail(Slot, p, own.cmds)
    BY <2>3, <2>4 DEF ReactorFine, Told, Mail, Orphaned
  <2> QED
    BY <2>1, <2>2, <2>4, <2>5
<1>12. ASSUME NEW n \in Fanouts, ReactorSends(n)
       PROVE  DriverInv'
  <2>1. /\ stage = "tx" /\ stage' = stage /\ prod[Slot].due > 0
        /\ own' = [own EXCEPT !.served = TRUE] /\ n \in Nat
        /\ prod' = [prod EXCEPT ![Slot] = Sent(@, Slot, n)]
    BY <1>12, DriverAssumption DEF ReactorSends, Polled, Draining
  <2>2. PICK v : v = Sent(prod[Slot], Slot, n) /\ prod' = [prod EXCEPT ![Slot] = v]
    BY <2>1
  <2>3. Slot \in Producers => ReactorFine(Slot, v, "tx") /\ Mail(Slot, v, own.cmds)
    BY <1>11, <2>1, <2>2
  <2>4. ReactorShape(own') /\ own'.cmds = own.cmds
    BY <1>2, <2>1, WalkMoves
  <2> QED
    BY <1>8, <2>1, <2>2, <2>3, <2>4
<1>13. CASE Undeliverable
  <2>1. PICK v : /\ v = RetiredProducer(Sent(prod[Slot], Slot, 0), Slot)
                 /\ prod' = [prod EXCEPT ![Slot] = v]
    BY <1>13 DEF Undeliverable
  <2>2. stage = "tx" /\ stage' = stage /\ NextSlot /\ prod[Slot].due > 0
    BY <1>13 DEF Undeliverable, Polled, Draining
  <2>3. ASSUME Slot \in Producers
        PROVE  ReactorFine(Slot, v, "tx") /\ Mail(Slot, v, own.cmds)
    <3>1. PICK p : p = Sent(prod[Slot], Slot, 0)
      OBVIOUS
    <3>2. Mail(Slot, p, own.cmds) /\ Sound(Slot, p) /\ p.ctx = "live"
      BY <1>11, <2>2, <2>3, <3>1
    <3> QED
      BY <2>1, <2>3, <3>1, <3>2, ReactorRetires
  <2> QED
    BY <1>6, <1>8, <2>1, <2>2, <2>3
<1> QED
  BY <1>4, <1>5, <1>7, <1>9, <1>10, <1>12, <1>13

(* The goodbyes, the commands, the sleep and the end.                      *)
LEMMA ReactorRest ==
  ASSUME DriverInv, driver = "reactor",
         \/ (\E h \in Services, n \in Fanouts : ReactorGoodbye(h, n)) \/ ReactorPassOver
         \/ (\E c \in {"add", "remove"} \X Producers : handle_command(c))
         \/ ReactorResumes \/ (\E by_timer \in BOOLEAN : ReactorWakes(by_timer)) \/ ReactorCloses
         \/ (\E h \in Services : ReactorFlushes(h)) \/ ReactorEnds
  PROVE  DriverInv'
<1>1. stage \in ReactorStages /\ driver' = driver
  BY DEF ReactorGoodbye, ReactorPassOver, handle_command, ReactorResumes, ReactorWakes,
         ReactorCloses, ReactorFlushes, ReactorEnds, rKeep, ReactorStages
<1>2. /\ \A h \in Producers : /\ ReactorFine(h, prod[h], stage) /\ Mail(h, prod[h], own.cmds)
                              /\ Sound(h, prod[h])
      /\ ReactorShape(own) /\ own.cmds \subseteq {"add", "remove"} \X Producers
      /\ prod \in [Producers -> Producer]
      /\ stage \in {"recv", "commands", "park"} => ~unsealed
  BY <1>1, ReactorHolds DEF ReactorFine
<1>3. Services \subseteq Producers
  BY DEF Producers
<1>4. ASSUME NEW g \in Services, prod[g].ready, prod' = [prod EXCEPT ![g] = Farewelled(@)],
             stage \in {"goodbye", "flush"}
      PROVE  /\ prod' = [h \in Producers |-> prod'[h]]
             /\ \A h \in Producers :
                  ReactorFine(h, prod'[h], stage) /\ Mail(h, prod'[h], own.cmds)
  <2>1. PICK p : p = prod[g]
    OBVIOUS
  <2>2. /\ ReactorFine(g, p, stage) /\ Mail(g, p, own.cmds) /\ Sound(g, p) /\ p.rounds # 0
        /\ p.ctx = "leaving" /\ prod'[g] = Farewelled(p)
    BY <1>2, <1>3, <1>4, <2>1 DEF Sound
  <2>3. /\ Sound(g, prod'[g]) /\ prod'[g].ctx = "leaving" /\ prod'[g].open = p.open
        /\ ~prod'[g].ending /\ prod'[g].told = p.told /\ prod'[g].reader = p.reader
    BY <1>3, <2>2, FarewelledSound
  <2>4. ReactorFine(g, prod'[g], stage) /\ Mail(g, prod'[g], own.cmds)
    BY <2>2, <2>3 DEF ReactorFine, Told, Mail, Orphaned
  <2>5. \A h \in Producers : h # g => prod'[h] = prod[h]
    BY <1>2, <1>4
  <2>6. prod' = [h \in Producers |-> prod'[h]]
    BY <1>2, <1>4
  <2> QED
    BY <1>2, <2>4, <2>5, <2>6
<1>5. CASE \/ \E h \in Services, n \in Fanouts : ReactorGoodbye(h, n)
           \/ \E h \in Services : ReactorFlushes(h)
  <2>1. PICK g \in Services : /\ prod[g].ready /\ prod' = [prod EXCEPT ![g] = Farewelled(@)]
                              /\ stage \in {"goodbye", "flush"} /\ stage' = stage
                              /\ own' = own
    BY <1>5 DEF ReactorGoodbye, ReactorFlushes, GoodbyeDue, rKeep
  <2>2. /\ prod' = [h \in Producers |-> prod'[h]]
        /\ \A h \in Producers :
              ReactorFine(h, prod'[h], stage) /\ Mail(h, prod'[h], own.cmds)
    BY <1>4, <2>1
  <2> QED
    BY <1>1, <1>2, <2>1, <2>2, ReactorMet
<1>6. CASE ReactorPassOver
  <2>1. /\ stage = "goodbye" /\ stage' \in {"commands", "park"} /\ unsealed' = FALSE
        /\ prod' = [h \in Producers |-> IF h \in Completed THEN Forgotten(prod[h]) ELSE prod[h]]
        /\ own' = [own EXCEPT !.drain = 1]
    BY <1>6 DEF ReactorPassOver, seal_after_records
  <2>2. ReactorShape(own') /\ own'.cmds = own.cmds
    BY <1>2, <2>1, WalkMoves
  <2>3. ASSUME NEW h \in Producers
        PROVE  ReactorFine(h, prod'[h], stage') /\ Mail(h, prod'[h], own.cmds)
    <3>1. PICK p : p = prod[h]
      OBVIOUS
    <3>2. ReactorFine(h, p, "goodbye") /\ Mail(h, p, own.cmds) /\ Sound(h, p)
      BY <1>2, <2>1, <3>1
    <3>3. CASE h \in Completed
      <4>1. p.ctx = "leaving" /\ p.rounds = 0 /\ p \in Producer /\ ~p.ready /\ ~p.wire
        BY <3>1, <3>2, <3>3 DEF Completed, Sound
      <4>2. prod'[h] = Forgotten(p)
        BY <2>1, <3>1, <3>3
      <4>3. /\ Sound(h, prod'[h]) /\ prod'[h].ctx = "gone" /\ prod'[h].open = p.open
            /\ prod'[h].told = p.told
            /\ prod'[h].reader = IF p.reader = "waiting" THEN "busy" ELSE p.reader
        BY <4>1, <4>2, ForgottenSound
      <4>4. ~prod'[h].ending
        BY <4>3 DEF Sound
      <4> QED
        BY <2>1, <3>2, <4>1, <4>3, <4>4 DEF ReactorFine, Told, Mail, Orphaned
    <3>4. CASE h \notin Completed
      <4>1. prod'[h] = p
        BY <2>1, <3>1, <3>4
      <4> QED
        BY <2>1, <3>2, <4>1 DEF ReactorFine
    <3> QED
      BY <3>3, <3>4
  <2>4. prod' = [h \in Producers |-> prod'[h]]
    BY <2>1
  <2> QED
    BY <1>1, <1>2, <2>1, <2>2, <2>3, <2>4, ReactorMet DEF ReactorStages
<1>7. ASSUME NEW c \in {"add", "remove"} \X Producers, handle_command(c)
      PROVE  DriverInv'
  <2>1. PICK g \in Producers : c = <<c[1], g>> /\ c[2] = g /\ c[1] \in {"add", "remove"}
    OBVIOUS
  <2>2. /\ stage \in {"commands", "park"} /\ stage' \in {"commands", "recv"}
        /\ unsealed' = unsealed /\ c \in own.cmds
        /\ own' = [own EXCEPT !.cmds = @ \ {c}]
        /\ prod' = [prod EXCEPT ![g] = Commanded(c)]
    BY <1>7, <2>1 DEF handle_command, rKeep
  <2>3. ReactorShape(own') /\ own'.cmds = own.cmds \ {c}
    <3>1. PICK cmds : cmds = own.cmds \ {c} /\ own' = [own EXCEPT !.cmds = cmds]
      BY <2>2
    <3> QED
      BY <1>2, <3>1, CommandsChange
  <2>4. PICK p : p = prod[g]
    OBVIOUS
  <2>5. PICK v : v = Commanded(c) /\ prod' = [prod EXCEPT ![g] = v]
    BY <2>2
  <2>6. /\ ReactorFine(g, p, stage) /\ Mail(g, p, own.cmds) /\ Sound(g, p)
        /\ p.ctx # "freed" /\ <<c[1], g>> \in own.cmds
    BY <1>2, <2>1, <2>2, <2>4 DEF ReactorFine
  <2>7. ReactorFine(g, v, stage') /\ Mail(g, v, own'.cmds)
    <3>1. CASE c[1] = "add"
      <4>1. /\ p.ctx = "absent" /\ <<"remove", g>> \notin own.cmds
        BY <2>6, <3>1 DEF Mail
      <4>2. /\ <<"remove", g>> \notin own'.cmds /\ <<"add", g>> \notin own'.cmds
        BY <2>1, <2>3, <3>1, <4>1
      <4>3. v = AddOrRollBack(g)
        BY <2>1, <2>5, <3>1 DEF Commanded
      <4>4. /\ Sound(g, Started(g)) /\ Started(g).ctx = "live" /\ Started(g).open
        BY StartedSound
      <4>5. CASE p.open
        <5>1. v = Started(g)
          BY <2>4, <4>3, <4>5 DEF AddOrRollBack
        <5> QED
          BY <2>2, <4>2, <4>4, <5>1 DEF ReactorFine, Told, Mail, Orphaned
      <4>6. CASE ~p.open
        <5>1. PICK s : s = Started(g)
          OBVIOUS
        <5>2. PICK q : q = [s EXCEPT !.open = FALSE]
          OBVIOUS
        <5>3. v = IF g \in Services THEN Withdrawn(q) ELSE Forgotten(q)
          BY <2>4, <4>3, <4>6, <5>1, <5>2 DEF AddOrRollBack, remove_service, cancel_query
        <5>4. Sound(g, q) /\ q.ctx = "live" /\ ~q.open
          BY <4>4, <5>1, <5>2 DEF Sound, Producer
        <5>5. ReactorFine(g, v, stage') /\ v.ctx \in {"leaving", "gone"} /\ v.open = q.open
          BY <5>3, <5>4, ReactorRemoves
        <5>6. v.ctx = "gone" \/ v.ctx = "leaving"
          BY <5>5
        <5> QED
          BY <4>2, <5>5, <5>6 DEF Mail, Orphaned
      <4> QED
        BY <4>5, <4>6
    <3>2. CASE c[1] = "remove"
      <4>1. p.ctx # "absent" /\ ~p.open /\ <<"add", g>> \notin own.cmds
        BY <2>6, <3>2 DEF Mail
      <4>2. /\ <<"remove", g>> \notin own'.cmds /\ <<"add", g>> \notin own'.cmds
        BY <2>1, <2>3, <3>2, <4>1
      <4>3. v = IF g \in Services THEN Withdrawn(p) ELSE Forgotten(p)
        <5>1. c[1] # "add" /\ (g \in Queries => g \notin Services)
          BY <3>2, DriverAssumption DEF Producers
        <5>2. g \in Services => v = Withdrawn(p)
          BY <2>1, <2>4, <2>5, <3>2, <5>1 DEF Commanded, remove_service
        <5>3. g \in Queries => v = Forgotten(p)
          BY <2>1, <2>4, <2>5, <3>2, <5>1 DEF Commanded, cancel_query
        <5> QED
          BY <5>2, <5>3 DEF Producers
      <4>4. ReactorFine(g, v, stage') /\ v.ctx \in {"leaving", "gone"}
        BY <2>6, <4>1, <4>3, ReactorRemoves
      <4>5. v.ctx = "gone" \/ v.ctx = "leaving"
        BY <4>4
      <4> QED
        BY <4>2, <4>4, <4>5 DEF Mail, Orphaned
    <3> QED
      BY <2>1, <3>1, <3>2
  <2>8. ASSUME NEW h \in Producers, h # g
        PROVE  ReactorFine(h, prod'[h], stage') /\ Mail(h, prod'[h], own'.cmds)
    <3>1. prod'[h] = prod[h]
      BY <1>2, <2>5, <2>8
    <3>2. \A k : <<k, h>> \in own'.cmds <=> <<k, h>> \in own.cmds
      BY <2>1, <2>3, <2>8
    <3>3. ReactorFine(h, prod[h], stage) /\ Mail(h, prod[h], own.cmds)
      BY <1>2
    <3> QED
      BY <2>2, <3>1, <3>2, <3>3 DEF ReactorFine, Mail
  <2>9. prod'[g] = v /\ prod' = [h \in Producers |-> prod'[h]]
    BY <1>2, <2>5
  <2>10. own'.cmds \subseteq {"add", "remove"} \X Producers
    BY <1>2, <2>3
  <2> QED
    BY <1>1, <1>2, <2>2, <2>3, <2>7, <2>8, <2>9, <2>10, ReactorMet DEF ReactorStages
<1>8. CASE ReactorResumes \/ (\E by_timer \in BOOLEAN : ReactorWakes(by_timer))
  <2>1. /\ stage \in {"commands", "park"} /\ stage' = "recv" /\ prod' = prod /\ own' = own
        /\ unsealed' = unsealed
    BY <1>8 DEF ReactorResumes, ReactorWakes, rKeep
  <2>2. \A h \in Producers : ReactorFine(h, prod'[h], stage')
    BY <1>2, <2>1 DEF ReactorFine
  <2> QED
    BY <1>1, <1>2, <2>1, <2>2, ReactorMet DEF ReactorStages
<1>9. CASE ReactorCloses
  <2>1. /\ stage \in {"commands", "park"} /\ stage' = "flush" /\ own' = own
        /\ prod' = [h \in Producers |-> IF h \in Services THEN Withdrawn(prod[h]) ELSE prod[h]]
    BY <1>9 DEF ReactorCloses, remove_service, rKeep
  <2>2. ASSUME NEW h \in Producers
        PROVE  ReactorFine(h, prod'[h], "flush") /\ Mail(h, prod'[h], own.cmds)
    <3>1. PICK p : p = prod[h]
      OBVIOUS
    <3>2. ReactorFine(h, p, stage) /\ Mail(h, p, own.cmds) /\ Sound(h, p)
      BY <1>2, <3>1
    <3>3. CASE h \in Services
      <4>1. prod'[h] = Withdrawn(p)
        BY <2>1, <3>1, <3>3
      <4>2. /\ Sound(h, prod'[h]) /\ prod'[h].open = p.open
            /\ prod'[h].ctx = IF p.ctx \in {"live", "retired"} THEN "leaving" ELSE p.ctx
        BY <3>2, <3>3, <4>1, WithdrawnSound
      <4> QED
        BY <2>1, <3>2, <4>2 DEF ReactorFine, Mail, Orphaned
    <3>4. CASE h \notin Services
      <4>1. prod'[h] = p
        BY <2>1, <3>1, <3>4
      <4> QED
        BY <2>1, <3>2, <3>4, <4>1 DEF ReactorFine
    <3> QED
      BY <3>3, <3>4
  <2>3. prod' = [h \in Producers |-> prod'[h]]
    BY <2>1
  <2> QED
    BY <1>1, <1>2, <2>1, <2>2, <2>3, ReactorMet DEF ReactorStages
<1>10. CASE ReactorEnds
  <2>1. /\ stage = "flush" /\ stage' = "ended" /\ own' = [own EXCEPT !.cmds = {}]
        /\ backstopped' = TRUE \/ \A h \in Services : prod[h].rounds = 0
        /\ prod' = [h \in Producers |-> Discarded(prod[h])]
    BY <1>10 DEF ReactorEnds
  <2>2. ASSUME NEW h \in Services, prod[h].rounds = 0 PROVE ~prod[h].wire
    <3>1. ReactorFine(h, prod[h], "flush") /\ Sound(h, prod[h])
      BY <1>2, <1>3, <2>1
    <3> QED
      BY <2>2, <3>1 DEF ReactorFine, Sound
  <2>3. backstopped' \/ \A h \in Services : ~prod[h].wire
    BY <2>1, <2>2
  <2>4. Common' /\ (\A h \in Producers : prod'[h].ctx \in {"absent", "gone"})
    BY <1>1, <1>2, <2>1, <2>3, AllEnded
  <2>5. ReactorShape(own') /\ own'.cmds = {}
    BY <1>2, <2>1, CommandsChange
  <2>6. ReactorInv'
    BY <2>1, <2>4, <2>5 DEF ReactorInv, Orphaned
  <2> QED
    BY <1>1, <2>4, <2>6 DEF DriverInv
<1> QED
  BY <1>5, <1>6, <1>7, <1>8, <1>9, <1>10

(***************************************************************************)
(* Every step of the reactor's loop, of its callers and of its readers     *)
(* keeps it, in whichever order the channel is drained.                    *)
(***************************************************************************)
LEMMA ReactorStep ==
  ASSUME DriverInv, driver = "reactor",
         ReactorLoop \/ ReactorWorld \/ EndpointDropped \/ (\E h \in Producers : ReactorReads(h))
  PROVE  DriverInv'
BY ReactorCallers, ReactorDrain, ReactorRest DEF ReactorLoop, ReactorWorld

-----------------------------------------------------------------------------
(* The four drivers together.                                              *)

(* Before a driver ran, its maps are empty and nothing was sent.           *)
LEMMA DriverInit == Init => DriverInv
<1> SUFFICES ASSUME Init PROVE DriverInv
  OBVIOUS
<1>1. /\ driver \in {"reactor", "compio", "mio", "smoltcp"}
      /\ prod = [h \in Producers |-> NoProducer] /\ unsealed = FALSE
  BY DEF Init
<1>2. \A h \in Producers : Sound(h, prod[h]) /\ prod[h].ctx = "absent" /\ ~prod[h].open
  BY <1>1, StartedSound
<1>3. stage \in {"recv", "tx", "park"}
  BY <1>1 DEF Init
<1>4. Common
  <2>1. prod \in [Producers -> Producer]
    BY <1>1, <1>2 DEF Sound
  <2> QED
    BY <1>2, <1>3, <2>1 DEF Common, Inert, Told
<1>5. CASE driver = "reactor"
  <2>1. stage = "recv" /\ own = NewReactor
    BY <1>5 DEF Init
  <2>2. ReactorShape(own) /\ own.cmds = {}
    BY <2>1 DEF NewReactor, ReactorShape
  <2> QED
    BY <1>1, <1>2, <1>4, <1>5, <2>1, <2>2 DEF DriverInv, ReactorInv, Orphaned
<1>6. CASE driver = "compio"
  <2>1. stage = "tx" /\ own = NewCompio
    BY <1>6 DEF Init
  <2>2. CompioShape(own)
    BY <2>1 DEF NewCompio, CompioShape
  <2> QED
    BY <1>2, <1>4, <1>6, <2>1, <2>2 DEF DriverInv, CompioInv, Orphaned
<1>7. CASE driver = "mio"
  <2>1. stage = "park" /\ own = NewMio
    BY <1>7 DEF Init
  <2>2. MioShape(own)
    BY <2>1 DEF NewMio, MioShape
  <2> QED
    BY <1>2, <1>4, <1>7, <2>1, <2>2 DEF DriverInv, MioInv, Orphaned
<1>8. CASE driver = "smoltcp"
  <2>1. stage = "park" /\ own = NewSmoltcp
    BY <1>8 DEF Init
  <2>2. own = [kick |-> own.kick]
    BY <2>1 DEF NewSmoltcp
  <2> QED
    BY <1>2, <1>4, <1>8, <2>1, <2>2 DEF DriverInv, SmoltcpInv, Orphaned
<1> QED
  BY <1>1, <1>5, <1>6, <1>7, <1>8

(* A goodbye round may fall due under any driver, between any two steps.   *)
LEMMA RoundFallsDue ==
  ASSUME DriverInv, NEW g \in Producers, RoundDue(g)
  PROVE  DriverInv'
<1>1. /\ prod' = [prod EXCEPT ![g].ready = TRUE] /\ prod[g].rounds > 0
      /\ driver' = driver /\ stage' = stage /\ own' = own /\ unsealed' = unsealed
      /\ backstopped' = backstopped
  BY DEF RoundDue, outer
<1>2. prod \in [Producers -> Producer] /\ stage # "ended"
  BY <1>1 DEF DriverInv, Common, Inert
<1>3. ASSUME NEW h \in Producers
      PROVE  /\ Sound(h, prod'[h]) /\ prod'[h].ctx = prod[h].ctx /\ prod'[h].open = prod[h].open
             /\ prod'[h].told = prod[h].told /\ prod'[h].reader = prod[h].reader
             /\ prod'[h].due = prod[h].due /\ prod'[h].ending = prod[h].ending
             /\ prod[h].ready => prod'[h].ready
  <2>1. PICK p : p = prod[h]
    OBVIOUS
  <2>2. Sound(h, p) /\ p \in Producer
    BY <1>2, <2>1 DEF DriverInv, Common
  <2>3. CASE h = g
    <3>1. prod'[h] = [p EXCEPT !.ready = TRUE] /\ p.rounds # 0
      BY <1>1, <1>2, <2>1, <2>2, <2>3 DEF Producer
    <3>2. Sound(h, prod'[h])
      BY <2>2, <3>1 DEF Sound, Producer
    <3> QED
      BY <2>1, <2>2, <3>1, <3>2 DEF Producer
  <2>4. CASE h # g
    BY <1>1, <1>2, <2>1, <2>2, <2>4
  <2> QED
    BY <2>3, <2>4
<1>4. prod' = [h \in Producers |-> prod'[h]]
  BY <1>1, <1>2
<1>5. CASE driver = "reactor"
  <2>1. stage \in ReactorStages
    BY <1>2, <1>5 DEF DriverInv, ReactorInv, ReactorStages
  <2>2. ASSUME NEW h \in Producers
        PROVE  ReactorFine(h, prod'[h], stage) /\ Mail(h, prod'[h], own.cmds)
    <3>1. ReactorFine(h, prod[h], stage) /\ Mail(h, prod[h], own.cmds)
      BY <1>5, <2>1, ReactorHolds
    <3> QED
      BY <1>3, <3>1 DEF ReactorFine, Told, Mail, Orphaned
  <2> QED
    BY <1>1, <1>4, <1>5, <2>1, <2>2, ReactorHolds, ReactorMet
<1>6. CASE driver = "compio"
  <2>1. stage \in CompioStages
    BY <1>2, <1>6 DEF DriverInv, CompioInv, CompioStages
  <2>2. /\ \A h \in Producers : /\ CompioFine(h, prod[h]) /\ Waking(prod[h], own)
                                /\ Placed(h, prod[h], stage, own)
        /\ CompioShape(own) /\ Awaited
        /\ stage = "park" => ~unsealed /\ ~own.wakes
    BY <1>6, <2>1, CompioHolds
  <2>3. \A h \in Producers : /\ CompioFine(h, prod'[h]) /\ Waking(prod'[h], own)
                             /\ Placed(h, prod'[h], stage, own)
    BY <1>3, <2>2 DEF CompioFine, Told, Waking, Placed, Orphaned
  <2>4. Awaited'
    BY <1>1, <1>3, <2>2 DEF Awaited, Producers
  <2> QED
    BY <1>1, <1>4, <1>6, <2>1, <2>2, <2>3, <2>4, CompioMet
<1>7. CASE driver = "mio"
  <2>1. \A h \in Producers : MioFine(h, prod'[h])
    BY <1>2, <1>3, <1>7 DEF DriverInv, Common, MioInv, MioFine, Told, Orphaned
  <2>2. /\ MioShape(own) /\ stage \in {"park", "recv", "tx", "goodbye"}
        /\ stage = "recv" => ~unsealed
    BY <1>2, <1>7 DEF DriverInv, MioInv
  <2> QED
    BY <1>1, <1>4, <1>7, <2>1, <2>2, MioMet
<1>8. CASE driver = "smoltcp"
  <2>1. \A h \in Producers : SmoltcpFine(h, prod'[h])
    BY <1>2, <1>3, <1>8 DEF DriverInv, Common, SmoltcpInv, SmoltcpFine, Told, Orphaned
  <2>2. stage \in {"park", "recv", "tx", "goodbye"}
    BY <1>8 DEF DriverInv, SmoltcpInv
  <2> QED
    BY <1>1, <1>4, <1>8, <2>1, <2>2, SmoltcpMet
<1> QED
  BY <1>5, <1>6, <1>7, <1>8 DEF DriverInv

(* Every step of every driver, of its callers and of the world keeps it.   *)
LEMMA DriverNext == DriverInv /\ [Next]_drvVars => DriverInv'
<1> SUFFICES ASSUME DriverInv, [Next]_drvVars PROVE DriverInv'
  OBVIOUS
<1>1. CASE Loop \/ World \/ \E h \in Producers : Reads(h)
  BY <1>1, ReactorStep, CompioStep, MioStep, SmoltcpStep DEF Loop, World, Reads
<1>2. CASE \E h \in Producers : RoundDue(h)
  BY <1>2, RoundFallsDue
<1>3. CASE UNCHANGED drvVars
  <2>1. /\ driver' = driver /\ stage' = stage /\ prod' = prod /\ own' = own
        /\ unsealed' = unsealed /\ backstopped' = backstopped
    BY <1>3 DEF drvVars, outer
  <2> QED
    BY <2>1 DEF DriverInv, Common, Inert, ReactorInv, CompioInv, MioInv, SmoltcpInv
<1> QED
  BY <1>1, <1>2, <1>3 DEF Next

(***************************************************************************)
(* The inductive invariant holds in every state of every driver.           *)
(***************************************************************************)
THEOREM DriversSound == Spec => []DriverInv
<1>1. Init => DriverInv
  BY DriverInit
<1>2. DriverInv /\ [Next]_drvVars => DriverInv'
  BY DriverNext
<1> QED
  BY <1>1, <1>2, PTL DEF Spec

(***************************************************************************)
(* No driver reads or classifies a datagram while a send has not been      *)
(* entered in the self-send ledger (seal_sends_in_doubt before every       *)
(* receive).                                                               *)
(***************************************************************************)
THEOREM SealedFirst == Spec => []ClassifiesOnlySealed
<1>1. DriverInv => ClassifiesOnlySealed
  BY DEF DriverInv, ReactorInv, CompioInv, MioInv, ClassifiesOnlySealed
<1> QED
  BY <1>1, DriversSound, PTL

(***************************************************************************)
(* Unless the wall-clock limit cut the shutdown short, a service that is   *)
(* gone, or whose driver ended, has nothing it announced still on the      *)
(* links.                                                                  *)
(***************************************************************************)
THEOREM EverythingWithdrawn == Spec => []NothingLeftBehind
<1>1. DriverInv => NothingLeftBehind
  <2> SUFFICES ASSUME DriverInv, NEW h \in Services, ~backstopped,
                      stage = "ended" \/ prod[h].ctx = "gone"
               PROVE  ~prod[h].wire
    BY DEF NothingLeftBehind
  <2>1. h \in Producers
    BY DEF Producers
  <2>2. CASE stage = "ended"
    BY <2>1, <2>2 DEF DriverInv, Common, Inert
  <2>3. CASE stage # "ended" /\ prod[h].ctx = "gone"
    BY <2>1, <2>3 DEF DriverInv, Common, Sound
  <2> QED
    BY <2>2, <2>3
<1> QED
  BY <1>1, DriversSound, PTL

(* In the park every driver has run a whole pass since anything was asked. *)
LEMMA AsleepFine ==
  ASSUME DriverInv, Asleep, NEW h \in Producers
  PROVE  /\ Sound(h, prod[h]) /\ Told(prod[h]) /\ ~Orphaned(prod[h])
         /\ prod[h].ctx = "leaving" => prod[h].rounds > 0
<1>1. stage = "park" /\ Completed = {}
  BY DEF Asleep
<1>2. Sound(h, prod[h]) /\ Told(prod[h])
  BY <1>1 DEF DriverInv, Common
<1>3. prod[h].ctx = "leaving" => prod[h].rounds > 0
  <2>1. prod[h].ctx = "leaving" => h \in Services
    BY <1>2 DEF Sound, Producers
  <2>2. prod[h].rounds \in Nat
    BY <1>2 DEF Sound, Producer
  <2> QED
    BY <1>1, <2>1, <2>2 DEF Completed
<1>4. ~Orphaned(prod[h])
  <2>1. CASE driver = "reactor"
    <3>1. own.cmds = {}
      BY <2>1 DEF Asleep
    <3> QED
      BY <2>1, <3>1 DEF DriverInv, ReactorInv
  <2>2. CASE driver = "compio"
    <3>1. ~own.force /\ ~own.notified
      BY <2>2 DEF Asleep
    <3> QED
      BY <1>1, <2>2, <3>1 DEF DriverInv, CompioInv
  <2>3. CASE driver \in {"mio", "smoltcp"}
    BY <2>3 DEF DriverInv, MioInv, SmoltcpInv
  <2> QED
    BY <2>1, <2>2, <2>3 DEF DriverInv
<1> QED
  BY <1>2, <1>3, <1>4

(***************************************************************************)
(* A driver never goes to sleep on a producer whose handle was dropped,    *)
(* except to wait for its next goodbye round.                              *)
(***************************************************************************)
THEOREM NoOrphanForgotten == Spec => []OrphansCollected
<1>1. DriverInv => OrphansCollected
  <2> SUFFICES ASSUME DriverInv, Asleep, NEW h \in Producers, Present(h), ~prod[h].open
               PROVE  prod[h].ctx = "leaving" /\ prod[h].rounds > 0
    BY DEF OrphansCollected
  <2>1. ~Orphaned(prod[h]) /\ (prod[h].ctx = "leaving" => prod[h].rounds > 0)
    BY AsleepFine
  <2> QED
    BY <2>1 DEF Orphaned, Present
<1> QED
  BY <1>1, DriversSound, PTL

(***************************************************************************)
(* A driver never goes to sleep with an open handle whose producer has     *)
(* ended and whose caller was not told, or, where wakes are the driver's,  *)
(* is still waiting.                                                       *)
(***************************************************************************)
THEOREM CallersTold == Spec => []ReadersReleased
<1>1. DriverInv => ReadersReleased
  <2> SUFFICES ASSUME DriverInv, Asleep, NEW h \in Producers, prod[h].open,
                      prod[h].ctx # "absent", ~Live(h) \/ prod[h].ending,
                      prod[h].reader # "ended"
               PROVE  /\ prod[h].told = "posted" \/ prod[h].ending
                      /\ driver \in {"reactor", "compio"} =>
                           prod[h].reader # "waiting" \/ prod[h].rounds > 0
                      /\ driver = "smoltcp" => Present(h)
    BY DEF ReadersReleased
  <2>1. /\ Sound(h, prod[h]) /\ Told(prod[h]) /\ stage = "park"
        /\ prod[h].ctx = "leaving" => prod[h].rounds > 0
    BY AsleepFine DEF Asleep
  <2>2. prod[h].told = "posted" \/ prod[h].ending
    BY <2>1 DEF Told, Live
  <2>3. driver = "reactor" => prod[h].reader # "waiting"
    BY <2>1 DEF DriverInv, ReactorInv, Live
  <2>4. driver = "compio" => prod[h].reader # "waiting" \/ prod[h].rounds > 0
    <3> SUFFICES ASSUME driver = "compio" PROVE prod[h].reader # "waiting" \/ prod[h].rounds > 0
      OBVIOUS
    <3>1. CASE prod[h].ending
      BY <2>1, <3>1 DEF DriverInv, CompioInv, Producers
    <3>2. CASE prod[h].ctx \notin {"absent", "live"}
      BY <2>1, <3>2 DEF DriverInv, CompioInv
    <3> QED
      BY <3>1, <3>2 DEF Live
  <2>5. driver = "smoltcp" => Present(h)
    BY DEF DriverInv, SmoltcpInv, Present
  <2> QED
    BY <2>2, <2>3, <2>4, <2>5
<1> QED
  BY <1>1, DriversSound, PTL

-----------------------------------------------------------------------------
(* No work is slept on.                                                    *)

(***************************************************************************)
(* A walk visits every member of a finite set once, and nothing else: each *)
(* in the place that its rank among the members gives it.                  *)
(***************************************************************************)
LEMMA WalkRanks ==
  ASSUME NEW S \in SUBSET Nat, IsFiniteSet(S)
  PROVE  /\ Walk(S) \in Seq(S) /\ Len(Walk(S)) \in Nat
         /\ \A h \in S : /\ Cardinality({g \in S : g <= h}) \in 1 .. Len(Walk(S))
                         /\ Walk(S)[Cardinality({g \in S : g <= h})] = h
         /\ \A j, k \in 1 .. Len(Walk(S)) : Walk(S)[j] = Walk(S)[k] => j = k
<1> DEFINE n == Cardinality(S)
           UpTo(h) == {g \in S : g <= h}
           rank == [h \in S |-> Cardinality(UpTo(h))]
<1>1. n \in Nat /\ IsFiniteSet(1 .. n) /\ Cardinality(1 .. n) = n
  <2>1. n \in Nat
    BY FS_CardinalityType
  <2> QED
    BY <2>1, FS_Interval
<1>2. ASSUME NEW h \in S PROVE IsFiniteSet(UpTo(h)) /\ Cardinality(UpTo(h)) \in 1 .. n
  <2>1. UpTo(h) \in SUBSET S /\ h \in UpTo(h)
    OBVIOUS
  <2>2. IsFiniteSet(UpTo(h)) /\ Cardinality(UpTo(h)) <= n
    BY <2>1, FS_Subset
  <2>3. Cardinality(UpTo(h)) \in Nat /\ Cardinality(UpTo(h)) # 0
    BY <2>1, <2>2, FS_CardinalityType, FS_EmptySet
  <2> QED
    BY <1>1, <2>2, <2>3
<1>3. ASSUME NEW g \in S, NEW h \in S, g < h PROVE Cardinality(UpTo(g)) # Cardinality(UpTo(h))
  <2>1. \A x \in S : x \in Nat
    OBVIOUS
  <2>2. h <= h /\ ~(h <= g) /\ \A x \in S : x <= g => x <= h
    BY <1>3, <2>1
  <2>3. UpTo(g) \in SUBSET UpTo(h) /\ h \in UpTo(h) /\ h \notin UpTo(g)
    BY <2>2, Zenon
  <2> QED
    BY <1>2, <2>3, FS_Subset
<1>4. \A g, h \in S : Cardinality(UpTo(g)) = Cardinality(UpTo(h)) => g = h
  BY <1>3
<1> HIDE DEF UpTo
<1>5. rank \in Injection(S, 1 .. n)
  BY <1>2, <1>4 DEF Injection, IsInjective
<1>6. \A k \in 1 .. n : \E h \in S : rank[h] = k
  <2>1. rank \in Surjection(S, 1 .. n)
    BY <1>1, <1>5, FS_Injection
  <2> QED
    BY <2>1 DEF Surjection
<1>7. Walk(S) = [k \in 1 .. n |-> CHOOSE h \in S : Cardinality(UpTo(h)) = k]
  BY DEF Walk, UpTo
<1>8. ASSUME NEW k \in 1 .. n PROVE Walk(S)[k] \in S /\ Cardinality(UpTo(Walk(S)[k])) = k
  <2>1. \E h \in S : Cardinality(UpTo(h)) = k
    BY <1>6
  <2> QED
    BY <1>7, <2>1
<1>9. Walk(S) \in Seq(S) /\ Len(Walk(S)) = n
  <2>1. Walk(S) \in [1 .. n -> S]
    BY <1>7, <1>8
  <2> HIDE DEF n
  <2> QED
    BY <1>1, <2>1
<1>10. ASSUME NEW h \in S PROVE Walk(S)[Cardinality(UpTo(h))] = h
  BY <1>2, <1>4, <1>8
<1>11. \A j, k \in 1 .. n : Walk(S)[j] = Walk(S)[k] => j = k
  BY <1>8
<1> QED
  BY <1>1, <1>2, <1>9, <1>10, <1>11 DEF UpTo

(* A walk comes by every member.                                           *)
LEMMA WalkVisits ==
  ASSUME NEW S \in SUBSET Nat, IsFiniteSet(S)
  PROVE  /\ Walk(S) \in Seq(S) /\ Len(Walk(S)) \in Nat
         /\ \A h \in S : \E k \in 1 .. Len(Walk(S)) : Walk(S)[k] = h
BY WalkRanks

(***************************************************************************)
(* Nothing a live producer has to send waits, short of a datagram that     *)
(* could not be encoded.                                                   *)
(***************************************************************************)
Idle(p) == p.ctx = "live" /\ p.open /\ p.failures = 0 => p.due = 0

AllIdle == \A h \in Producers : Idle(prod[h])

(* The class the reactor drains now, and the part of it not yet reached.   *)
Class(queries) == IF queries THEN Queries ELSE Services

ClassNow == Class(DrainsQueries)

ComesBy(s, c, n, h) == \E v \in n .. Len(s) - 1 : s[(((c % Len(s)) + v) % Len(s)) + 1] = h

Ahead(h) == ComesBy(own.slots, Cursor, own.visited, h)

(***************************************************************************)
(* The reactor: a drain has still ahead of it whoever of its class is not  *)
(* idle, and unless `more` says a class was cut short, the one before is.  *)
(***************************************************************************)
ReactorBusy ==
  /\ own.visited \in Nat /\ own.drain \in {1, 2} /\ own.queries_first \in BOOLEAN
  /\ own.svc_resume \in Nat /\ own.query_resume \in Nat
  /\ stage # "tx" => own.visited = 0
  /\ stage \notin {"tx", "goodbye"} => own.drain = 1
  /\ stage = "tx" =>
       /\ own.slots \in Seq(ClassNow) /\ own.visited <= Len(own.slots)
       /\ \A h \in ClassNow : Idle(prod[h]) \/ Ahead(h)
       /\ own.drain = 2 => more \/ \A h \in Producers \ ClassNow : Idle(prod[h])
  /\ stage = "goodbye" => more \/ AllIdle
  /\ stage = "park" => AllIdle

(***************************************************************************)
(* compio starts its walk anew after every send that it awaited, and       *)
(* dirty, force and notified carry what callers did meanwhile.             *)
(***************************************************************************)
CompioBusy ==
  /\ own.at \in Nat \ {0}
  /\ stage = "tx" =>
       \A h \in Producers :
         Idle(prod[h]) \/ \E i \in own.at .. Len(InOrder) : InOrder[i] = h
  /\ stage = "settle" => more \/ AllIdle
  /\ stage \in {"goodbye", "farewell", "seal"} => more \/ own.dirty \/ AllIdle
  /\ stage = "park" => own.force \/ own.notified \/ AllIdle

(***************************************************************************)
(* mio: whoever lives is in the line, and those of it that had no turn in  *)
(* this tick are at its front.                                             *)
(***************************************************************************)
MioBusy ==
  /\ own.line \in Seq(Producers)
  /\ \A h \in Producers : Live(h) => \E i \in 1 .. Len(own.line) : own.line[i] = h
  /\ stage = "tx" =>
       /\ own.visited \in Nat /\ own.visited <= Len(own.line)
       /\ budget = [credits |-> budget.credits, started |-> budget.started, late |-> budget.late]
       /\ budget.credits \in Nat /\ own.spent \in Nat /\ own.spent <= budget.credits
       /\ \A h \in Producers :
            \/ own.capped \/ Idle(prod[h])
            \/ \E i \in 1 .. Len(own.line) - own.visited : own.line[i] = h
  /\ stage \in {"goodbye", "park"} => more \/ AllIdle

SmoltcpBusy == stage \in {"goodbye", "park"} => own.kick \/ AllIdle

(***************************************************************************)
(* What a pass keeps, so that none of its producers is forgotten: whoever  *)
(* has something to send is still ahead in the walk, or a flag that keeps  *)
(* the driver from sleeping is up.                                         *)
(***************************************************************************)
BusyInv ==
  /\ driver = "reactor" => ReactorBusy
  /\ driver = "compio" => CompioBusy
  /\ driver = "mio" => MioBusy
  /\ driver = "smoltcp" => SmoltcpBusy

(* What is left of a queue is all of it that was not taken out.            *)
LEMMA WithoutKeeps ==
  ASSUME NEW T, NEW line \in Seq(T), NEW S
  PROVE  /\ Without(line, S) \in Seq(T)
         /\ \A i \in 1 .. Len(line) : line[i] \notin S =>
              \E k \in 1 .. Len(Without(line, S)) : Without(line, S)[k] = line[i]
<1> DEFINE I == {i \in DOMAIN line : line[i] \notin S}
           kept == Walk(I)
<1>1. I \in SUBSET (1 .. Len(line)) /\ I \in SUBSET Nat /\ Len(line) \in Nat
  BY LenProperties
<1>2. IsFiniteSet(I)
  BY <1>1, FS_Interval, FS_Subset
<1>3. /\ kept \in Seq(I) /\ Len(kept) \in Nat
      /\ \A h \in I : \E k \in 1 .. Len(kept) : kept[k] = h
  BY <1>1, <1>2, WalkVisits
<1>4. \A i \in I : line[i] \in T
  BY <1>1
<1>5. \A i \in 1 .. Len(line) : line[i] \notin S => i \in I
  BY LenProperties
<1>6. Without(line, S) = [k \in DOMAIN kept |-> line[kept[k]]]
  BY DEF Without
<1> HIDE DEF I, kept
<1>7. DOMAIN kept = 1 .. Len(kept) /\ \A k \in 1 .. Len(kept) : kept[k] \in I
  BY <1>3
<1>8. Without(line, S) \in [1 .. Len(kept) -> T]
  BY <1>4, <1>6, <1>7
<1>9. Without(line, S) \in Seq(T) /\ Len(Without(line, S)) = Len(kept)
  <2>1. \A m \in Nat : \A f \in [1 .. m -> T] : f \in Seq(T) /\ Len(f) = m
    OBVIOUS
  <2> QED
    BY <1>3, <1>8, <2>1
<1>10. \A k \in 1 .. Len(kept) : Without(line, S)[k] = line[kept[k]]
  BY <1>6, <1>7
<1> QED
  BY <1>3, <1>5, <1>9, <1>10

(* A step that brings a producer nothing new to send.                      *)
Calms(p, q) == (Idle(p) => Idle(q)) /\ (q.ctx = "live" => p.ctx = "live")

(***************************************************************************)
(* Nothing a driver does to a producer, short of hearing a datagram,       *)
(* firing a timer or sending, brings it anything to send.                  *)
(***************************************************************************)
LEMMA DriverCalms ==
  ASSUME NEW p \in Producer
  PROVE  /\ Withdrawn(p).ctx # "live" /\ Forgotten(p).ctx = "gone" /\ ~Dropped(p).open
         /\ Posted(p) \in Producer /\ Woken(p) \in Producer /\ Dropped(p) \in Producer
         /\ Overlooked(p) \in Producer /\ Withdrawn(p) \in Producer /\ Forgotten(p) \in Producer
         /\ Calms(p, p) /\ Calms(p, Posted(p)) /\ Calms(p, Woken(p)) /\ Calms(p, Dropped(p))
         /\ Calms(p, Farewelled(p)) /\ Calms(p, Overlooked(p)) /\ Calms(p, Withdrawn(p))
<1>1. Withdrawn(p) \in Producer /\ Withdrawn(p).ctx # "live" /\ Calms(p, Withdrawn(p))
  <2>1. GoodbyeRounds \in Nat
    BY DriverAssumption
  <2> QED
    BY <2>1 DEF Withdrawn, Producer, Contexts, Calms, Idle
<1>2. Forgotten(p) \in Producer /\ Forgotten(p).ctx = "gone"
  BY DEF Forgotten, Woken, Producer, Contexts
<1>3. Posted(p) \in Producer /\ Calms(p, Posted(p))
  BY DEF Posted, Producer, Calms, Idle
<1>4. Woken(p) \in Producer /\ Calms(p, Woken(p))
  BY DEF Woken, Producer, Calms, Idle
<1>5. Dropped(p) \in Producer /\ ~Dropped(p).open /\ Calms(p, Dropped(p))
  BY DEF Dropped, Producer, Calms, Idle
<1>6. Calms(p, Farewelled(p))
  BY DEF Farewelled, Producer, Calms, Idle
<1>7. Overlooked(p) \in Producer /\ Calms(p, Overlooked(p))
  <2>1. p.waited + 1 \in Nat
    BY DEF Producer
  <2> QED
    BY <2>1 DEF Overlooked, Producer, Calms, Idle
<1> QED
  BY <1>1, <1>2, <1>3, <1>4, <1>5, <1>6, <1>7 DEF Calms

(* What was not asked to send more did not change its mind.                *)
LEMMA CalmsAll ==
  ASSUME NEW P, AllIdle, \A h \in Producers : Calms(prod[h], P[h])
  PROVE  \A h \in Producers : Idle(P[h])
BY DEF AllIdle, Calms

(* smoltcp's pump sends whatever is due before it goes on to the goodbyes. *)
LEMMA SmoltcpKeepsBusy ==
  ASSUME DriverInv, SmoltcpBusy, driver = "smoltcp",
         SmoltcpLoop \/ SmoltcpWorld \/ (\E h \in Producers : SmoltcpReads(h))
  PROVE  SmoltcpBusy'
<1>1. /\ prod \in [Producers -> Producer] /\ \A h \in Producers : prod[h] \in Producer
      /\ own = [kick |-> own.kick] /\ Services \subseteq Producers
  BY DEF DriverInv, Common, SmoltcpInv, Producers
<1>2. ASSUME AllIdle \/ own.kick, own' = own, \A h \in Producers : Calms(prod[h], prod'[h])
      PROVE  SmoltcpBusy'
  BY <1>2, CalmsAll DEF SmoltcpBusy, AllIdle
<1>3. ASSUME NEW g \in Producers, SmoltcpAsks(g) \/ SmoltcpDrops(g)
      PROVE  SmoltcpBusy'
  <2>1. own' = signal(own)
    BY <1>3 DEF SmoltcpAsks, SmoltcpDrops
  <2>2. own'.kick
    BY <1>1, <2>1 DEF signal
  <2> QED
    BY <2>2 DEF SmoltcpBusy
<1>4. ASSUME NEW g \in Producers, SmoltcpReads(g)
      PROVE  SmoltcpBusy'
  <2> DEFINE p == [prod[g] EXCEPT !.told = "taken", !.reader = "ended", !.ending = FALSE]
             v == CASE g \in Queries -> [p EXCEPT !.ctx = "retired"]
                    [] g \in Services /\ p.ctx = "freed" -> Forgotten(p)
                    [] OTHER -> p
  <2>1. prod' = [prod EXCEPT ![g] = v] /\ own' = own /\ stage = "park"
    BY <1>4, Zenon DEF SmoltcpReads, Yields
  <2>2. p \in Producer /\ Calms(prod[g], p)
    BY <1>1 DEF Producer, Calms, Idle
  <2>3. /\ [p EXCEPT !.ctx = "retired"].ctx = "retired" /\ Forgotten(p).ctx = "gone"
    BY <2>2, DriverCalms DEF Producer
  <2>4. v.ctx \in {"retired", "gone"} \/ v = p
    <3>1. v \in {[p EXCEPT !.ctx = "retired"], Forgotten(p), p}
      <4> HIDE DEF p
      <4>1. g \in Queries => g \notin Services
        BY DriverAssumption DEF Producers
      <4> QED
        BY <4>1
    <3> HIDE DEF v, p
    <3> QED
      BY <2>3, <3>1
  <2> HIDE DEF v, p
  <2>5. Calms(prod[g], v)
    BY <2>2, <2>4 DEF Calms, Idle
  <2>6. \A h \in Producers : Calms(prod[h], prod'[h])
    BY <1>1, <2>1, <2>5, DriverCalms
  <2> QED
    BY <1>2, <2>1, <2>6 DEF SmoltcpBusy
<1>5. CASE SmoltcpSent
  <2>1. Pending = {} /\ own' = own /\ prod' = drain_service_updates
    BY <1>5 DEF SmoltcpSent
  <2>2. ASSUME NEW h \in Producers PROVE Idle(prod[h])
    BY <1>1, <2>1 DEF Pending, Live, Idle, Producer
  <2>3. ASSUME NEW h \in Producers PROVE Calms(prod[h], prod'[h])
    <3>1. Calms(prod[h], retire_origin(prod[h]))
      <4>1. Posted(prod[h]) \in Producer /\ Calms(prod[h], Posted(prod[h]))
        BY <1>1, DriverCalms
      <4>2. Calms(Posted(prod[h]), Withdrawn(Posted(prod[h])))
        BY <4>1, DriverCalms
      <4> QED
        BY <4>1, <4>2 DEF retire_origin, Calms
    <3> QED
      BY <1>1, <2>1, <3>1, DriverCalms DEF drain_service_updates
  <2> QED
    BY <1>2, <2>1, <2>2, <2>3 DEF AllIdle
<1>6. ASSUME NEW g \in Services, SmoltcpGoodbye(g)
      PROVE  SmoltcpBusy'
  <2>1. \A h \in Producers : Calms(prod[h], prod'[h])
    BY <1>1, <1>6, DriverCalms DEF SmoltcpGoodbye
  <2> QED
    BY <1>2, <1>6, <2>1 DEF SmoltcpGoodbye, SmoltcpBusy
<1>7. CASE SmoltcpSleeps
  <2>1. ASSUME NEW h \in Producers PROVE Calms(prod[h], SlotOrFreed(prod[h]))
    <3>1. Forgotten(prod[h]).ctx = "gone"
      BY <1>1, DriverCalms
    <3>2. [prod[h] EXCEPT !.ctx = "freed"].ctx = "freed"
      BY <1>1 DEF Producer
    <3> QED
      BY <3>1, <3>2 DEF SlotOrFreed, Calms, Idle
  <2>2. \A h \in Producers : Calms(prod[h], prod'[h])
    BY <1>1, <1>7, <2>1, DriverCalms DEF SmoltcpSleeps
  <2> QED
    BY <1>2, <1>7, <2>2 DEF SmoltcpSleeps, SmoltcpBusy
<1>8. CASE \/ \E why \in {"kick", "timer", "packet"} : SmoltcpPumps(why)
           \/ \E h \in Producers : SmoltcpHears(h)
           \/ SmoltcpUpdates
           \/ \E h \in Producers : (\E n \in Fanouts : SmoltcpSends(h, n)) \/ SmoltcpRetires(h)
  <2>1. stage' \in {"recv", "tx"}
    BY <1>8 DEF SmoltcpPumps, SmoltcpHears, SmoltcpUpdates, SmoltcpSends, SmoltcpRetires
  <2> QED
    BY <2>1 DEF SmoltcpBusy
<1> QED
  BY <1>3, <1>4, <1>5, <1>6, <1>7, <1>8 DEF SmoltcpLoop, SmoltcpWorld

(* Ringing the driver does not move its walk.                              *)
LEMMA RungInPlace ==
  ASSUME NEW o, CompioShape(o)
  PROVE  Rung(o).at = o.at /\ mark_dirty(o).at = o.at
<1>1. ASSUME NEW q, CompioShape(q), NEW b
      PROVE  /\ [q EXCEPT !.notified = b].at = q.at /\ CompioShape([q EXCEPT !.notified = b])
             /\ [q EXCEPT !.dirty = b].at = q.at
  BY <1>1 DEF CompioShape
<1>2. Rung(o).at = o.at /\ CompioShape(Rung(o))
  BY <1>1, Zenon DEF Rung
<1> QED
  BY <1>1, <1>2, Zenon DEF mark_dirty

(* The walk that compio starts anew has every producer ahead.              *)
LEMMA CompioStartsAnew ==
  ASSUME own'.at = 1, stage' \in {"tx", "sending"}
  PROVE  CompioBusy'
<1>1. \A h \in Producers : \E i \in 1 .. Len(InOrder) : InOrder[i] = h
  BY DriverAssumption, WalkVisits DEF InOrder
<1> QED
  BY <1>1 DEF CompioBusy

(* A turn that leaves its producer idle is over.                           *)
LEMMA CompioTurnOver ==
  ASSUME CompioBusy, stage = "tx", stage' = stage, own'.at = own.at + 1,
         own.at <= Len(InOrder), prod \in [Producers -> Producer],
         NEW q, prod' = [prod EXCEPT ![Turn] = q], Idle(q)
  PROVE  CompioBusy'
<1>1. own.at \in Nat \ {0} /\ own'.at \in Nat \ {0} /\ Len(InOrder) \in Nat
  BY DriverAssumption, WalkVisits DEF InOrder, CompioBusy
<1>2. ASSUME NEW h \in Producers
      PROVE  Idle(prod'[h]) \/ \E i \in own'.at .. Len(InOrder) : InOrder[i] = h
  <2>1. CASE h = Turn
    BY <2>1
  <2>2. CASE h # Turn /\ Idle(prod[h])
    BY <2>2
  <2>3. CASE h # Turn /\ ~Idle(prod[h])
    <3>1. PICK i \in own.at .. Len(InOrder) : InOrder[i] = h
      BY <2>3 DEF CompioBusy
    <3>2. i # own.at
      BY <2>3, <3>1 DEF Turn
    <3>3. i \in own'.at .. Len(InOrder)
      BY <1>1, <3>1, <3>2
    <3> QED
      BY <3>1, <3>3
  <2> QED
    BY <2>1, <2>2, <2>3
<1> QED
  BY <1>1, <1>2 DEF CompioBusy

(***************************************************************************)
(* compio: whatever callers do while it awaits leaves a flag that keeps it *)
(* from sleeping, and a walk of the pump ends only past the last producer  *)
(* or with `more`.                                                         *)
(***************************************************************************)
LEMMA CompioKeepsBusy ==
  ASSUME DriverInv, CompioBusy, driver = "compio",
         CompioLoop \/ CompioWorld \/ (\E h \in Producers : CompioReads(h))
  PROVE  CompioBusy'
<1>1. /\ prod \in [Producers -> Producer] /\ \A h \in Producers : prod[h] \in Producer
      /\ CompioShape(own) /\ Services \subseteq Producers /\ own.at \in Nat \ {0}
      /\ stage = "farewell" => own.to \in Services
  BY DEF DriverInv, Common, CompioInv, CompioBusy, Producers
<1>2. ASSUME NEW h \in Producers
      PROVE  /\ Calms(prod[h], Woken(prod[h])) /\ Calms(prod[h], Withdrawn(Posted(prod[h])))
             /\ Withdrawn(Posted(prod[h])) \in Producer
             /\ \A P : (\A g \in Producers : Calms(prod[g], P[g]) /\ P[g] \in Producer)
                         => Calms(prod[h], RingReaders(P)[h])
  <2>1. Posted(prod[h]) \in Producer /\ Calms(prod[h], Posted(prod[h]))
    BY <1>1, DriverCalms
  <2>2. /\ Calms(Posted(prod[h]), Withdrawn(Posted(prod[h])))
        /\ Withdrawn(Posted(prod[h])).ctx # "live"
    BY <2>1, DriverCalms
  <2>3. ASSUME NEW P, \A g \in Producers : Calms(prod[g], P[g]) /\ P[g] \in Producer
        PROVE  Calms(prod[h], RingReaders(P)[h])
    BY <2>3, DriverCalms DEF RingReaders, Calms
  <2> QED
    BY <1>1, <2>1, <2>2, <2>3, DriverCalms DEF Calms, Idle
<1>3. CASE \E h \in Producers : CompioAsks(h) \/ CompioDrops(h)
  <2>1. own' = mark_dirty(own) /\ stage' = stage /\ stage \in {"sending", "farewell", "park"}
    BY <1>3 DEF CompioAsks, CompioDrops, Yields
  <2>2. own'.at = own.at /\ own'.dirty /\ (stage = "park" => own'.notified)
    BY <1>1, <2>1, Notified, RungInPlace
  <2> QED
    BY <1>1, <2>1, <2>2 DEF CompioBusy
<1>4. CASE CompioEndpointDropped
  <2>1. /\ own' = Rung(own) /\ stage' = stage /\ stage \in {"sending", "farewell", "park"}
        /\ prod' = RingReaders(prod) /\ more' = more
    BY <1>4 DEF CompioEndpointDropped, Yields
  <2>2. own'.at = own.at /\ own'.dirty = own.dirty /\ (stage = "park" => own'.notified)
    BY <1>1, <2>1, Notified, RungInPlace
  <2>3. \A h \in Producers : Calms(prod[h], prod'[h])
    BY <1>2, <2>1 DEF RingReaders
  <2> QED
    BY <1>1, <2>1, <2>2, <2>3, CalmsAll DEF CompioBusy, AllIdle
<1>5. ASSUME NEW g \in Producers, CompioReads(g) PROVE CompioBusy'
  <2> DEFINE p == prod[g]
             over == p.told = "posted" \/ (g \in Queries /\ (p.ending \/ ~Present(g)))
             read == [p EXCEPT !.told = IF over THEN "taken" ELSE @,
                               !.reader = IF over THEN "ended" ELSE "waiting"]
  <2>1. /\ prod' = [prod EXCEPT ![g] = IF over /\ g \in Queries THEN Forgotten(read) ELSE read]
        /\ own' = own /\ stage' = stage /\ stage \in {"sending", "farewell", "park"} /\ more' = more
    BY <1>5, Zenon DEF CompioReads, Yields, cKeep
  <2>2. read \in Producer /\ Calms(prod[g], read)
    BY <1>1 DEF Producer, Calms, Idle
  <2> HIDE DEF read, over
  <2>3. Calms(prod[g], Forgotten(read))
    BY <2>2, DriverCalms DEF Calms, Idle
  <2>4. \A h \in Producers : Calms(prod[h], prod'[h])
    BY <1>1, <2>1, <2>2, <2>3, DriverCalms
  <2> QED
    BY <1>1, <2>1, <2>4, CalmsAll DEF CompioBusy, AllIdle
<1>6. CASE CompioPassesOver
  <2>1. Polling /\ stage = "tx" /\ stage' = stage /\ own'.at = own.at + 1 /\ own.at <= Len(InOrder)
    BY <1>1, <1>6 DEF CompioPassesOver, Polling, CompioShape
  <2>2. PICK k : /\ prod' = [prod EXCEPT ![Turn] = [prod[Turn] EXCEPT !.failures = k]]
                 /\ ~(Live(Turn) /\ prod[Turn].open /\ prod[Turn].due > 0)
    BY <1>6 DEF CompioPassesOver
  <2>3. Turn \in Producers
    BY <1>1, <2>1, DriverAssumption, WalkVisits DEF Turn, InOrder
  <2>4. Idle([prod[Turn] EXCEPT !.failures = k])
    BY <1>1, <2>2, <2>3 DEF Idle, Live, Producer
  <2> QED
    BY <1>1, <2>1, <2>2, <2>4, CompioTurnOver
<1>7. CASE CompioEncodeFails
  <2>1. /\ Polling /\ stage = "tx" /\ stage' = stage /\ own'.at = own.at + 1
        /\ own.at <= Len(InOrder)
    BY <1>1, <1>7 DEF CompioEncodeFails, Polling, CompioShape, WakesLater
  <2>2. Turn \in Producers
    BY <1>1, <2>1, DriverAssumption, WalkVisits DEF Turn, InOrder
  <2> DEFINE p == [prod[Turn] EXCEPT !.failures = @ + 1]
             q == IF Turn \in Queries
                  THEN [Posted(p) EXCEPT !.ctx = "retired", !.due = 0, !.ending = FALSE]
                  ELSE IF p.failures < MAX_CONSECUTIVE_ENCODE_ERRORS THEN p
                  ELSE Withdrawn(Posted(p))
  <2>3. prod' = [prod EXCEPT ![Turn] = q]
    BY <1>7, Zenon DEF CompioEncodeFails
  <2>4. p \in Producer /\ p.failures # 0
    BY <1>1, <2>2 DEF Producer
  <2> HIDE DEF p
  <2>5. Posted(p) \in Producer
    BY <2>4, DriverCalms
  <2>6. /\ [Posted(p) EXCEPT !.ctx = "retired", !.due = 0, !.ending = FALSE].ctx = "retired"
        /\ Withdrawn(Posted(p)).ctx # "live"
    BY <2>5, DriverCalms DEF Producer
  <2>7. Idle(q)
    BY <2>4, <2>6 DEF Idle
  <2> HIDE DEF q
  <2> QED
    BY <1>1, <2>1, <2>3, <2>7, CompioTurnOver
<1>8. CASE CompioSends
  BY <1>1, <1>8 DEF CompioSends, CompioBusy, CompioShape
<1>9. CASE (\E n \in Fanouts : CompioConfirms(n)) \/ CompioUndeliverable
  <2>1. own'.at = 1 /\ stage' = "tx"
    BY <1>1, <1>9 DEF CompioConfirms, CompioUndeliverable, CompioShape
  <2> QED
    BY <2>1, CompioStartsAnew
<1>10. CASE CompioPumped
  <2>1. /\ stage = "tx" /\ stage' = "settle" /\ prod' = prod /\ own' = own
        /\ more' = ~may_start_fanout /\ (may_start_fanout => own.at > Len(InOrder))
    BY <1>10 DEF CompioPumped
  <2>2. may_start_fanout => AllIdle
    <3>1. Len(InOrder) \in Nat
      BY DriverAssumption, WalkVisits DEF InOrder
    <3> QED
      BY <1>1, <2>1, <3>1 DEF CompioBusy, AllIdle
  <2> QED
    BY <1>1, <2>1, <2>2 DEF CompioBusy, AllIdle
<1>11. CASE CompioSettles
  <2> DEFINE P == sweep_cancelled(prod)
             ended == {h \in Services : P[h].ctx = "live" /\ P[h].ending}
             pushed == [h \in Producers |-> IF h \in ended THEN Withdrawn(Posted(P[h])) ELSE P[h]]
  <2>1. /\ stage = "settle" /\ stage' = "goodbye" /\ own' = own /\ more' = more
        /\ prod' = IF ended = {} THEN pushed ELSE RingReaders(pushed)
    BY <1>11, Zenon DEF CompioSettles, cKeep
  <2>2. ASSUME NEW h \in Producers PROVE Calms(prod[h], P[h]) /\ P[h] \in Producer
    <3>1. Calms(prod[h], Forgotten(prod[h]))
      BY <1>1, DriverCalms DEF Calms, Idle
    <3>2. P[h] \in {prod[h], Withdrawn(prod[h]), Forgotten(prod[h])}
      BY DEF sweep_cancelled
    <3> HIDE DEF P
    <3> QED
      BY <1>1, <3>1, <3>2, DriverCalms
  <2>3. ASSUME NEW h \in ended PROVE P[h] = prod[h]
    <3>1. P[h].ctx = "live" /\ h \in Services /\ h \in Producers
      BY <1>1
    <3>2. P[h] = IF prod[h].open THEN prod[h] ELSE Withdrawn(prod[h])
      BY <3>1 DEF sweep_cancelled
    <3> HIDE DEF P
    <3> QED
      BY <1>1, <3>1, <3>2, DriverCalms
  <2> HIDE DEF P, ended
  <2>4. ASSUME NEW h \in Producers PROVE Calms(prod[h], pushed[h]) /\ pushed[h] \in Producer
    BY <1>2, <2>2, <2>3
  <2> HIDE DEF pushed
  <2>5. \A h \in Producers : Calms(prod[h], prod'[h])
    BY <1>2, <2>1, <2>4
  <2> QED
    BY <1>1, <2>1, <2>5, CalmsAll DEF CompioBusy, AllIdle
<1>12. ASSUME NEW g \in Services, CompioGoodbye(g) PROVE CompioBusy'
  BY <1>1, <1>12 DEF CompioGoodbye, CompioBusy, CompioShape, AllIdle
<1>13. ASSUME NEW n \in Fanouts, CompioFarewelled(n) PROVE CompioBusy'
  <2>1. /\ stage = "farewell" /\ stage' = "goodbye" /\ more' = more /\ own.to \in Producers
        /\ prod' = [prod EXCEPT ![own.to] = Farewelled(@)]
        /\ own'.at = own.at /\ own'.dirty = own.dirty
    BY <1>1, <1>13 DEF CompioFarewelled, CompioShape
  <2>2. \A h \in Producers : Calms(prod[h], prod'[h])
    BY <1>1, <2>1, DriverCalms
  <2> QED
    BY <1>1, <2>1, <2>2, CalmsAll DEF CompioBusy, AllIdle
<1>14. CASE CompioGoodbyesDone
  <2> DEFINE P == [h \in Producers |-> IF h \in Completed THEN Forgotten(prod[h]) ELSE prod[h]]
  <2>1. /\ stage = "goodbye" /\ stage' = "seal" /\ own' = own /\ (more => more')
        /\ prod' = IF Completed = {} THEN P ELSE RingReaders(P)
    BY <1>14 DEF CompioGoodbyesDone
  <2>2. ASSUME NEW h \in Producers PROVE Calms(prod[h], P[h]) /\ P[h] \in Producer
    BY <1>1, DriverCalms DEF Calms, Idle
  <2> HIDE DEF P
  <2>3. \A h \in Producers : Calms(prod[h], prod'[h])
    BY <1>2, <2>1, <2>2
  <2> QED
    BY <1>1, <2>1, <2>3, CalmsAll DEF CompioBusy, AllIdle
<1>15. CASE CompioSeals
  <2>1. /\ stage = "seal" /\ own'.at = own.at
        /\ (stage' = "park" /\ own'.force = (own.dirty \/ more)) \/ stage' = "flush"
    BY <1>1, <1>15 DEF CompioSeals, CompioShape
  <2>2. \A h \in Producers : Calms(prod[h], prod'[h])
    BY <1>1, <1>2, <1>15, DriverCalms DEF CompioSeals
  <2> QED
    BY <1>1, <2>1, <2>2, CalmsAll DEF CompioBusy, AllIdle
<1>16. CASE (\E h \in Producers : CompioHears(h)) \/ CompioTimer \/ CompioNotified
  <2>1. own'.at = 1 /\ stage' = "tx"
    BY <1>1, <1>16 DEF CompioHears, CompioTimer, CompioNotified, CompioWakes, CompioShape
  <2> QED
    BY <2>1, CompioStartsAnew
<1>17. CASE (\E h \in Services : CompioFlushes(h)) \/ CompioFlushed \/ CompioBackstop
  <2>1. own' = own /\ stage' \in {"flush", "ended"}
    BY <1>17 DEF CompioFlushes, CompioFlushed, CompioBackstop
  <2> QED
    BY <1>1, <2>1 DEF CompioBusy
<1> QED
  BY <1>3, <1>4, <1>5, <1>6, <1>7, <1>8, <1>9, <1>10, <1>11, <1>12, <1>13, <1>14, <1>15, <1>16,
     <1>17 DEF CompioLoop, CompioWorld

(* The turn goes round: the head of the line becomes its tail.             *)
LEMMA LineTurns ==
  ASSUME NEW T, NEW line \in Seq(T), Len(line) # 0
  PROVE  /\ ToTheTail(line) \in Seq(T) /\ Len(ToTheTail(line)) = Len(line)
         /\ \A i \in 1 .. Len(line) - 1 : ToTheTail(line)[i] = line[i + 1]
         /\ ToTheTail(line)[Len(line)] = line[1]
<1>1. /\ Tail(line) \in Seq(T) /\ Len(Tail(line)) = Len(line) - 1 /\ Head(line) = line[1]
      /\ \A i \in 1 .. Len(line) - 1 : Tail(line)[i] = line[i + 1]
      /\ Head(line) \in T /\ Len(line) \in Nat
  OBVIOUS
<1>2. PICK t \in Seq(T), x \in T : t = Tail(line) /\ x = Head(line)
  BY <1>1
<1>3. /\ Append(t, x) \in Seq(T) /\ Len(Append(t, x)) = Len(t) + 1
      /\ \A i \in 1 .. Len(t) : Append(t, x)[i] = t[i]
      /\ Append(t, x)[Len(t) + 1] = x
  OBVIOUS
<1> QED
  BY <1>1, <1>2, <1>3 DEF ToTheTail

(* A turn may not spend more than what is left.                            *)
LEMMA ShareFits ==
  ASSUME NEW c \in Nat \ {0}, NEW r \in Nat \ {0}
  PROVE  Share(c, r) \in Nat /\ Share(c, r) <= c
<1>1. c \div r \in Nat /\ c \div r <= c
  OBVIOUS
<1> QED
  BY <1>1 DEF Share

(***************************************************************************)
(* A turn that leaves its producer idle, or says that it was capped, is    *)
(* over.                                                                   *)
(***************************************************************************)
LEMMA MioTurnEnds ==
  ASSUME MioBusy, MioShape(own), Serving, stage' = stage, prod \in [Producers -> Producer],
         NEW q, prod' = [prod EXCEPT ![Offered] = q], q.ctx = "live" => prod[Offered].ctx = "live",
         NEW spent \in Nat, NEW capped, TurnOver(spent, capped), spent <= budget.credits,
         capped \/ Idle(q)
  PROVE  MioBusy'
<1>1. /\ own.line \in Seq(Producers) /\ Len(own.line) \in Nat /\ own.visited \in Nat
      /\ own.visited < Len(own.line) /\ Len(own.line) # 0
  BY DEF MioBusy, Serving
<1>2. /\ own'.line = ToTheTail(own.line) /\ own'.visited = own.visited + 1 /\ own'.spent = 0
      /\ own'.capped = (own.capped \/ capped)
  BY DEF TurnOver, MioShape
<1>3. /\ budget'.credits = budget.credits - spent /\ budget'.credits \in Nat
      /\ budget' = [credits |-> budget'.credits, started |-> budget'.started,
                    late |-> budget'.late]
  <2>1. PICK c, d, e : budget = [credits |-> c, started |-> d, late |-> e] /\ c \in Nat
    BY DEF MioBusy, Serving
  <2>2. budget' = [credits |-> c - spent, started |-> d, late |-> e] /\ c = budget.credits
    BY <2>1 DEF TurnOver
  <2> QED
    BY <2>1, <2>2
<1>4. /\ own'.line \in Seq(Producers) /\ Len(own'.line) = Len(own.line)
      /\ \A i \in 1 .. Len(own.line) - 1 : own'.line[i] = own.line[i + 1]
      /\ own'.line[Len(own.line)] = own.line[1]
  BY <1>1, <1>2, LineTurns
<1>5. ASSUME NEW h \in Producers, prod'[h].ctx = "live"
      PROVE  \E i \in 1 .. Len(own'.line) : own'.line[i] = h
  <2>1. prod[h].ctx = "live"
    BY <1>5
  <2>2. PICK i \in 1 .. Len(own.line) : own.line[i] = h
    BY <2>1 DEF MioBusy, Live
  <2>3. CASE i = 1
    BY <1>1, <1>4, <2>2, <2>3
  <2>4. CASE i # 1
    <3>1. i - 1 \in 1 .. Len(own.line) - 1 /\ (i - 1) + 1 = i
      BY <1>1, <2>4
    <3>2. own'.line[i - 1] = h /\ i - 1 \in 1 .. Len(own'.line)
      BY <1>1, <1>4, <2>2, <3>1
    <3> QED
      BY <3>2
  <2> QED
    BY <2>3, <2>4
<1>6. ASSUME NEW h \in Producers, ~own'.capped, ~Idle(prod'[h])
      PROVE  \E i \in 1 .. Len(own'.line) - own'.visited : own'.line[i] = h
  <2>1. h # Offered /\ prod'[h] = prod[h] /\ ~own.capped
    BY <1>2, <1>6
  <2>2. PICK i \in 1 .. Len(own.line) - own.visited : own.line[i] = h
    BY <1>6, <2>1 DEF MioBusy, Serving
  <2>3. i # 1
    BY <2>1, <2>2 DEF Offered
  <2>4. /\ i - 1 \in 1 .. Len(own.line) - 1 /\ (i - 1) + 1 = i
        /\ i - 1 \in 1 .. Len(own.line) - (own.visited + 1)
    BY <1>1, <2>3
  <2>5. own'.line[i - 1] = h
    BY <1>4, <2>2, <2>4
  <2> QED
    BY <1>2, <1>4, <2>4, <2>5
<1>7. own'.visited \in Nat /\ own'.visited <= Len(own'.line) /\ stage = "tx"
  BY <1>1, <1>2, <1>4 DEF Serving
<1> QED
  BY <1>2, <1>3, <1>4, <1>5, <1>6, <1>7 DEF MioBusy, Live

(* Every live producer of P waits in the line.                             *)
Lined(P, line) ==
  /\ line \in Seq(Producers)
  /\ \A h \in Producers : P[h].ctx = "live" => \E i \in 1 .. Len(line) : line[i] = h

(* Who leaves the line had nothing more to wait for.                       *)
LEMMA LineShrinks ==
  ASSUME NEW P, NEW Q, NEW line, NEW S, Lined(P, line),
         \A h \in Producers : Q[h].ctx = "live" => P[h].ctx = "live" /\ h \notin S
  PROVE  Lined(Q, Without(line, S)) /\ Lined(Q, line)
<1>1. ASSUME NEW h \in Producers, Q[h].ctx = "live"
      PROVE  \E k \in 1 .. Len(Without(line, S)) : Without(line, S)[k] = h
  <2>1. PICK i \in 1 .. Len(line) : line[i] = h /\ h \notin S
    BY <1>1 DEF Lined
  <2>2. line \in Seq(Producers)
    BY DEF Lined
  <2>3. \E k \in 1 .. Len(Without(line, S)) : Without(line, S)[k] = line[i]
    BY <2>1, <2>2, WithoutKeeps
  <2> QED
    BY <2>1, <2>3
<1>2. Without(line, S) \in Seq(Producers)
  BY WithoutKeeps DEF Lined
<1> QED
  BY <1>1, <1>2 DEF Lined

(* Between the turns mio's invariant is of the line and of `more` alone.   *)
LEMMA MioBetweenTurns ==
  ASSUME MioBusy, stage # "tx", stage' # "tx", Lined(prod', own'.line),
         stage' \in {"goodbye", "park"} =>
            \/ more'
            \/ /\ stage \in {"goodbye", "park"} /\ (more => more')
               /\ \A h \in Producers : Idle(prod[h]) => Idle(prod'[h])
  PROVE  MioBusy'
<1>1. stage' \in {"goodbye", "park"} => more' \/ AllIdle'
  BY DEF MioBusy, AllIdle
<1> QED
  BY <1>1 DEF MioBusy, Lined, Live

(* mio's shutdown gives nothing new to send.                               *)
LEMMA ShutDownCalms ==
  ASSUME prod \in [Producers -> Producer], NEW h \in Producers
  PROVE  Calms(prod[h], ShutDown[h])
<1>1. Dropped(prod[h]) \in Producer /\ Calms(prod[h], Dropped(prod[h]))
  BY DriverCalms
<1>2. Calms(Dropped(prod[h]), Withdrawn(Dropped(prod[h])))
  BY <1>1, DriverCalms
<1> QED
  BY <1>1, <1>2, DriverCalms DEF ShutDown, Calms

(***************************************************************************)
(* mio's calls between two ticks: whoever is registered joins the line.    *)
(***************************************************************************)
LEMMA MioCallsKeepBusy ==
  ASSUME DriverInv, MioBusy, driver = "mio",
         \/ MioShutdown \/ MioDropped
         \/ \E h \in Producers : MioAsks(h) \/ MioDrops(h) \/ MioReads(h)
  PROVE  MioBusy'
<1>1. /\ prod \in [Producers -> Producer] /\ \A h \in Producers : prod[h] \in Producer
      /\ MioShape(own) /\ Lined(prod, own.line)
  BY DEF DriverInv, Common, MioInv, MioBusy, Lined, Live
<1>2. stage = "park"
  BY DEF MioShutdown, MioDropped, MioAsks, MioDrops, MioReads, Yields
<1>3. ASSUME NEW g \in Producers, MioAsks(g) PROVE MioBusy'
  <2>1. /\ prod' = [prod EXCEPT ![g] = Started(g)] /\ own'.line = Append(own.line, g)
        /\ more' = (more \/ g \in Queries) /\ stage' = stage
    BY <1>1, <1>3 DEF MioAsks, join, MioShape
  <2>2. g \notin Queries => Idle(Started(g))
    BY DEF Started, NoProducer, Idle
  <2>3. PICK line \in Seq(Producers) : line = own.line
    BY <1>1 DEF Lined
  <2>4. /\ Append(line, g) \in Seq(Producers) /\ Len(Append(line, g)) = Len(line) + 1
        /\ Append(line, g)[Len(line) + 1] = g /\ Len(line) \in Nat
        /\ \A i \in 1 .. Len(line) : Append(line, g)[i] = line[i]
    OBVIOUS
  <2>5. ASSUME NEW h \in Producers, prod'[h].ctx = "live"
        PROVE  \E i \in 1 .. Len(own'.line) : own'.line[i] = h
    <3>1. CASE h = g
      BY <2>1, <2>3, <2>4, <3>1
    <3>2. CASE h # g
      <4>1. prod[h].ctx = "live"
        BY <1>1, <2>1, <2>5, <3>2
      <4>2. PICK i \in 1 .. Len(line) : line[i] = h
        BY <1>1, <2>3, <4>1 DEF Lined
      <4>3. i \in 1 .. Len(line) + 1
        BY <2>4
      <4> QED
        BY <2>1, <2>3, <2>4, <4>2, <4>3
    <3> QED
      BY <3>1, <3>2
  <2>6. Lined(prod', own'.line)
    BY <2>1, <2>3, <2>4, <2>5 DEF Lined
  <2>7. g \notin Queries => \A h \in Producers : Idle(prod[h]) => Idle(prod'[h])
    BY <1>1, <2>1, <2>2
  <2> QED
    BY <1>2, <2>1, <2>6, <2>7, MioBetweenTurns
<1>4. ASSUME NEW g \in Producers, MioDrops(g) PROVE MioBusy'
  <2> DEFINE p == Dropped(prod[g])
             q == IF g \in Services THEN Withdrawn(p) ELSE Forgotten(p)
  <2>1. /\ prod' = [prod EXCEPT ![g] = q] /\ stage' = stage /\ more' = more
        /\ own' = IF g \in Queries THEN [own EXCEPT !.line = Without(@, {g})] ELSE own
    BY <1>4, Zenon DEF MioDrops
  <2>2. q.ctx # "live"
    <3>1. p \in Producer
      BY <1>1, DriverCalms
    <3> HIDE DEF p
    <3> QED
      BY <3>1, DriverCalms
  <2> HIDE DEF q
  <2>3. own'.line = Without(own.line, {g}) \/ own'.line = own.line
    BY <1>1, <2>1 DEF MioShape
  <2>4. \A h \in Producers : /\ prod'[h].ctx = "live" => prod[h].ctx = "live" /\ h \notin {g}
                             /\ Idle(prod[h]) => Idle(prod'[h])
    BY <1>1, <2>1, <2>2 DEF Idle
  <2>5. Lined(prod', own'.line)
    BY <1>1, <2>3, <2>4, LineShrinks
  <2> QED
    BY <1>2, <2>1, <2>4, <2>5, MioBetweenTurns
<1>5. ASSUME NEW g \in Producers, MioReads(g) PROVE MioBusy'
  <2>1. /\ prod' = [prod EXCEPT ![g] = [prod[g] EXCEPT !.told = "taken", !.reader = "ended"]]
        /\ own' = own /\ stage' = stage /\ more' = more
    BY <1>1, <1>5 DEF MioReads
  <2>2. Calms(prod[g], [prod[g] EXCEPT !.told = "taken", !.reader = "ended"])
    BY <1>1 DEF Calms, Idle, Producer
  <2>3. \A h \in Producers : Calms(prod[h], prod'[h])
    BY <1>1, <2>1, <2>2, DriverCalms
  <2>4. Lined(prod', own'.line)
    BY <1>1, <2>1, <2>3 DEF Lined, Calms
  <2> QED
    BY <1>2, <2>1, <2>3, <2>4, MioBetweenTurns DEF Calms
<1>6. CASE MioShutdown
  <2>1. prod' = ShutDown /\ own'.line = own.line /\ stage' = stage /\ more' = more
    BY <1>1, <1>6 DEF MioShutdown, MioShape
  <2>2. \A h \in Producers : Calms(prod[h], prod'[h])
    BY <1>1, <2>1, ShutDownCalms
  <2>3. Lined(prod', own'.line)
    BY <1>1, <2>1, <2>2 DEF Lined, Calms
  <2> QED
    BY <1>2, <2>1, <2>2, <2>3, MioBetweenTurns DEF Calms
<1>7. CASE MioDropped
  <2>1. stage' = "ended" /\ own' = own
    BY <1>7 DEF MioDropped
  <2>2. ASSUME NEW h \in Producers PROVE prod'[h].ctx # "live"
    <3>1. PICK p, q : p = ShutDown[h] /\ q = IF p.ready THEN Farewelled(p) ELSE p
      OBVIOUS
    <3>2. prod'[h] = [Discarded(q) EXCEPT !.open = FALSE]
      BY <1>7, <3>1 DEF MioDropped
    <3>3. Sound(h, p)
      BY <1>1, <1>2, <3>1, ShutDownFine DEF MioFine, DriverInv, Common, MioInv
    <3>4. Sound(h, q)
      BY <3>1, <3>3, FarewelledSound DEF Sound
    <3>5. Discarded(q) \in Producer /\ Discarded(q).ctx # "live"
      BY <3>4, DiscardedSound
    <3> QED
      BY <3>2, <3>5 DEF Producer
  <2>3. Lined(prod', own'.line)
    BY <1>1, <2>1, <2>2 DEF Lined
  <2> QED
    BY <1>2, <2>1, <2>3, MioBetweenTurns
<1> QED
  BY <1>3, <1>4, <1>5, <1>6, <1>7

(***************************************************************************)
(* mio's tick: the turns go round the whole line, or are reported as cut   *)
(* short.                                                                  *)
(***************************************************************************)
LEMMA MioTickKeepsBusy ==
  ASSUME DriverInv, MioBusy, driver = "mio",
         MioLoop \/ MioTicks(TRUE) \/ (\E h \in Producers : MioHears(h))
  PROVE  MioBusy'
<1>1. /\ prod \in [Producers -> Producer] /\ \A h \in Producers : prod[h] \in Producer
      /\ MioShape(own) /\ Lined(prod, own.line) /\ Services \subseteq Producers
  BY DEF DriverInv, Common, MioInv, MioBusy, Lined, Live, Producers
<1>2. stage # "ended" => \A h \in Producers : Sound(h, prod[h])
  BY DEF DriverInv, Common
<1>3. ASSUME NEW readable \in BOOLEAN, MioTicks(readable) PROVE MioBusy'
  <2>1. stage = "park" /\ stage' = "recv" /\ prod' = prod /\ own' = own
    BY <1>3 DEF MioTicks
  <2> QED
    BY <1>1, <2>1, MioBetweenTurns
<1>4. ASSUME NEW g \in Producers, MioHears(g) PROVE MioBusy'
  <2>1. stage = "recv" /\ stage' = stage /\ own' = own /\ Prompted(prod, g, MaxDue)
        /\ MaxDue \in Nat
    BY <1>4, DriverAssumption DEF MioHears, Heard
  <2>2. \A h \in Producers : prod'[h].ctx = prod[h].ctx
    BY <1>1, <1>2, <2>1, PromptedSound
  <2>3. Lined(prod', own'.line)
    BY <1>1, <2>1, <2>2 DEF Lined
  <2> QED
    BY <2>1, <2>3, MioBetweenTurns
<1>5. CASE MioFires
  <2>1. /\ stage = "recv" /\ stage' = "tx" /\ fire_timeouts(prod) /\ budget' = NewBudget
        /\ own'.line = own.line /\ own'.visited = 0 /\ own'.spent = 0
    BY <1>1, <1>5 DEF MioFires, MioShape
  <2>2. \A h \in Producers : prod'[h].ctx = prod[h].ctx
    BY <1>1, <1>2, <2>1, FiredSound
  <2>3. Lined(prod', own'.line)
    BY <1>1, <2>1, <2>2 DEF Lined
  <2>4. Len(own'.line) \in Nat /\ own'.visited <= Len(own'.line)
        /\ Len(own'.line) - own'.visited = Len(own'.line)
    BY <2>1, <2>3 DEF Lined
  <2>5. /\ budget'.credits \in Nat /\ own'.spent <= budget'.credits
        /\ budget' = [credits |-> budget'.credits, started |-> budget'.started,
                      late |-> budget'.late]
    BY <2>1, DriverAssumption DEF NewBudget
  <2>6. ASSUME NEW h \in Producers, ~Idle(prod'[h])
        PROVE  \E i \in 1 .. Len(own'.line) - own'.visited : own'.line[i] = h
    BY <2>3, <2>4, <2>6 DEF Lined, Idle
  <2> QED
    BY <2>1, <2>3, <2>4, <2>5, <2>6 DEF MioBusy, Lined, Live
<1>6. Serving => /\ own.line \in Seq(Producers) /\ Offered \in Producers
                 /\ own.spent \in Nat /\ own.spent <= budget.credits
                 /\ quantum \in Nat /\ quantum <= budget.credits
                 /\ 1 \in 1 .. Len(own.line) - own.visited
  <2> SUFFICES ASSUME Serving
               PROVE  /\ own.line \in Seq(Producers) /\ Offered \in Producers
                      /\ own.spent \in Nat /\ own.spent <= budget.credits
                      /\ quantum \in Nat /\ quantum <= budget.credits
                      /\ 1 \in 1 .. Len(own.line) - own.visited
    OBVIOUS
  <2>1. /\ own.line \in Seq(Producers) /\ own.spent \in Nat /\ own.spent <= budget.credits
        /\ own.visited \in Nat /\ own.visited < Len(own.line) /\ budget.credits \in Nat \ {0}
        /\ Len(own.line) \in Nat
    BY DEF Serving, MioBusy
  <2>2. Len(own.line) - own.visited \in Nat \ {0}
    BY <2>1
  <2>3. quantum \in Nat /\ quantum <= budget.credits
    BY <2>1, <2>2, ShareFits DEF quantum
  <2>4. 1 \in 1 .. Len(own.line) - own.visited /\ 1 \in 1 .. Len(own.line)
    BY <2>1
  <2> QED
    BY <2>1, <2>3, <2>4 DEF Offered
<1>7. ASSUME NEW n \in Fanouts, MioSends(n) PROVE MioBusy'
  <2>1. /\ Serving /\ own.spent < quantum /\ stage = "tx" /\ stage' = stage /\ budget' = budget
        /\ prod' = [prod EXCEPT ![Offered] = Sent(@, Offered, n)]
        /\ own' = [own EXCEPT !.spent = @ + 1] /\ prod[Offered].ctx = "live"
    BY <1>7, Zenon DEF MioSends, Serving, Live
  <2>2. /\ own'.line = own.line /\ own'.visited = own.visited /\ own'.capped = own.capped
        /\ own'.spent = own.spent + 1 /\ own'.spent \in Nat /\ own'.spent <= budget.credits
    <3>1. /\ own'.line = own.line /\ own'.visited = own.visited /\ own'.capped = own.capped
          /\ own'.spent = own.spent + 1
      BY <1>1, <2>1 DEF MioShape
    <3>2. budget.credits \in Nat
      BY <2>1 DEF MioBusy
    <3> QED
      BY <1>6, <2>1, <3>1, <3>2
  <2>3. \A h \in Producers : h # Offered => prod'[h] = prod[h]
    BY <1>1, <2>1
  <2>4. ASSUME NEW h \in Producers PROVE prod'[h].ctx = "live" => prod[h].ctx = "live"
    BY <2>1, <2>3
  <2>5. Lined(prod', own'.line)
    BY <1>1, <2>2, <2>4 DEF Lined
  <2>6. ASSUME NEW h \in Producers
        PROVE  \/ own.capped \/ Idle(prod'[h])
               \/ \E i \in 1 .. Len(own.line) - own.visited : own.line[i] = h
    <3>1. CASE h = Offered
      BY <1>6, <2>1, <3>1 DEF Offered
    <3>2. CASE h # Offered
      BY <2>1, <2>3, <3>2 DEF MioBusy
    <3> QED
      BY <3>1, <3>2
  <2> QED
    BY <2>1, <2>2, <2>5, <2>6 DEF MioBusy, Lined, Live
<1>8. CASE MioTurnOver
  <2>1. /\ Serving /\ stage' = stage
        /\ Live(Offered) => own.spent >= quantum \/ prod[Offered].due = 0
        /\ TurnOver(own.spent, Live(Offered) /\ own.spent >= quantum)
    BY <1>8 DEF MioTurnOver
  <2>2. PICK k : prod' = [prod EXCEPT ![Offered] = [prod[Offered] EXCEPT !.failures = k]]
    BY <1>8 DEF MioTurnOver
  <2>3. /\ [prod[Offered] EXCEPT !.failures = k].ctx = prod[Offered].ctx
        /\ [prod[Offered] EXCEPT !.failures = k].due = prod[Offered].due
    BY <1>1, <1>6, <2>1 DEF Producer
  <2>4. (Live(Offered) /\ own.spent >= quantum) \/ Idle([prod[Offered] EXCEPT !.failures = k])
    BY <2>1, <2>3 DEF Idle, Live
  <2> QED
    BY <1>1, <1>6, <2>1, <2>2, <2>3, <2>4, MioTurnEnds
<1>9. ASSUME NEW p, p \in Producer PROVE retire_service(p).ctx = "retired"
  <2>1. Posted(p) \in Producer
    BY <1>9, DriverCalms
  <2> QED
    BY <2>1 DEF retire_service, Producer
<1>10. CASE MioEncodeFails
  <2> DEFINE p == [prod[Offered] EXCEPT !.failures = @ + 1, !.waited = 0]
             over == Offered \in Queries \/ p.failures >= MAX_CONSECUTIVE_ENCODE_ERRORS
             q == IF over THEN retire_service(p) ELSE p
  <2>1. /\ Serving /\ stage' = stage /\ prod[Offered].ctx = "live"
        /\ prod' = [prod EXCEPT ![Offered] = q] /\ TurnOver(own.spent, ~over)
    BY <1>10, Zenon DEF MioEncodeFails, Live
  <2>2. p \in Producer
    <3>1. prod[Offered] \in Producer /\ prod[Offered].failures + 1 \in Nat
      BY <1>1, <1>6, <2>1 DEF Producer
    <3> QED
      BY <3>1 DEF Producer
  <2> HIDE DEF p
  <2>3. ~over \/ Idle(q)
    BY <1>9, <2>2 DEF Idle
  <2> HIDE DEF q, over
  <2> QED
    BY <1>1, <1>6, <2>1, <2>3, MioTurnEnds
<1>11. CASE MioUndeliverable
  <2> DEFINE q == retire_service(Sent(prod[Offered], Offered, 0))
  <2>1. /\ Serving /\ stage' = stage /\ Live(Offered) /\ prod[Offered].due > 0
        /\ own.spent < quantum
        /\ prod' = [prod EXCEPT ![Offered] = q] /\ TurnOver(own.spent + 1, FALSE)
    BY <1>11, Zenon DEF MioUndeliverable
  <2>2. Sent(prod[Offered], Offered, 0) \in Producer
    <3>1. Sound(Offered, prod[Offered]) /\ prod[Offered].due # 0 /\ Offered \in Producers
      BY <1>1, <1>2, <1>6, <2>1 DEF Serving, Producer
    <3> QED
      BY <3>1, SentSound DEF Sound
  <2>3. Idle(q)
    BY <1>9, <2>2 DEF Idle
  <2>4. own.spent + 1 \in Nat /\ own.spent + 1 <= budget.credits
    <3>1. budget.credits \in Nat
      BY <2>1 DEF MioBusy, Serving
    <3> QED
      BY <1>6, <2>1, <3>1
  <2> HIDE DEF q
  <2> QED
    BY <1>1, <1>6, <2>1, <2>3, <2>4, MioTurnEnds DEF Live
<1>12. CASE MioPushes
  <2> DEFINE ended(h) == Live(h) /\ prod[h].ending
             over(h) == h \in Queries /\ (ended(h) \/ prod[h].ctx = "retired")
  <2>1. /\ stage = "tx" /\ stage' = "goodbye" /\ ~Serving
        /\ more' = (own.line # <<>> /\ (budget.credits = 0 \/ own.capped))
        /\ own' = [own EXCEPT !.line = Without(@, {h \in Producers : over(h)})]
        /\ prod' = [h \in Producers |->
              IF over(h) THEN Forgotten(Posted(prod[h]))
              ELSE IF ended(h) THEN retire_service(prod[h])
              ELSE Overlooked(prod[h])]
    BY <1>12, Zenon DEF MioPushes, WorkPending
  <2>2. own'.line = Without(own.line, {h \in Producers : over(h)})
    BY <1>1, <2>1 DEF MioShape
  <2>3. ASSUME NEW h \in Producers
        PROVE  Calms(prod[h], prod'[h]) /\ (over(h) => prod'[h].ctx # "live")
    <3>1. Posted(prod[h]) \in Producer
      BY <1>1, DriverCalms
    <3>2. Forgotten(Posted(prod[h])).ctx = "gone" /\ retire_service(prod[h]).ctx = "retired"
      BY <1>1, <1>9, <3>1, DriverCalms
    <3>3. Calms(prod[h], Overlooked(prod[h]))
      BY <1>1, DriverCalms
    <3> HIDE DEF over, ended
    <3> QED
      BY <2>1, <3>2, <3>3 DEF Calms, Idle
  <2> HIDE DEF over
  <2>4. Lined(prod', own'.line)
    BY <1>1, <2>2, <2>3, LineShrinks DEF Calms
  <2>5. ASSUME ~more' PROVE AllIdle
    <3>1. /\ own.line \in Seq(Producers) /\ own.visited \in Nat /\ own.visited <= Len(own.line)
          /\ budget.credits \in Nat
      BY <2>1 DEF MioBusy
    <3>2. CASE own.line = <<>>
      BY <1>1, <3>2 DEF Lined, AllIdle, Idle
    <3>3. CASE budget.credits # 0 /\ ~own.capped
      <4>1. own.visited = Len(own.line)
        BY <2>1, <3>1, <3>3 DEF Serving
      <4>2. \A i \in 1 .. Len(own.line) - own.visited : FALSE
        BY <3>1, <4>1
      <4> QED
        BY <2>1, <3>3, <4>2 DEF MioBusy, AllIdle
    <3> QED
      BY <2>1, <2>5, <3>2, <3>3
  <2>6. more' \/ AllIdle'
    BY <2>3, <2>5, CalmsAll DEF AllIdle
  <2> QED
    BY <2>1, <2>4, <2>6 DEF MioBusy, Lined, Live
<1>13. ASSUME NEW n \in Fanouts, MioGoodbyes(n) PROVE MioBusy'
  <2> DEFINE begun == [h \in Services |-> begin_service_withdrawal(prod[h])]
             sent == [h \in Services |-> IF begun[h].ready THEN Farewelled(begun[h]) ELSE begun[h]]
             done == {h \in Services : sent[h].ctx = "leaving" /\ sent[h].rounds = 0}
  <2>1. /\ stage = "goodbye" /\ stage' = "park" /\ more' = more
        /\ own' = [own EXCEPT !.line = Without(@, done)]
        /\ prod' = [h \in Producers |->
              IF h \in Queries THEN prod[h] ELSE IF h \in done THEN Forgotten(sent[h])
              ELSE sent[h]]
    BY <1>13, Zenon DEF MioGoodbyes
  <2>2. own'.line = Without(own.line, done)
    BY <1>1, <2>1 DEF MioShape
  <2>3. ASSUME NEW h \in Services PROVE Calms(prod[h], sent[h]) /\ sent[h] \in Producer
    <3>1. /\ begun[h] = IF prod[h].ctx = "retired" THEN Withdrawn(prod[h]) ELSE prod[h]
          /\ sent[h] = IF begun[h].ready THEN Farewelled(begun[h]) ELSE begun[h]
      BY DEF begin_service_withdrawal
    <3>2. h \in Producers /\ Sound(h, prod[h])
      BY <1>1, <1>2, <2>1
    <3> HIDE DEF begun, sent
    <3>3. Sound(h, begun[h]) /\ Calms(prod[h], begun[h])
      BY <1>1, <3>1, <3>2, WithdrawnSound, DriverCalms
    <3>4. begun[h] \in Producer /\ (begun[h].ready => begun[h].rounds # 0)
      BY <3>3 DEF Sound
    <3>5. Sound(h, sent[h])
      BY <3>1, <3>2, <3>3, <3>4, FarewelledSound
    <3>6. Calms(prod[h], sent[h])
      BY <3>1, <3>3, <3>4, DriverCalms DEF Calms
    <3> QED
      BY <3>5, <3>6 DEF Sound
  <2>4. ASSUME NEW h \in done PROVE Forgotten(sent[h]).ctx = "gone" /\ h \notin Queries
    <3>1. h \notin Queries /\ h \in Services
      BY DriverAssumption DEF Producers
    <3> HIDE DEF sent
    <3> QED
      BY <2>3, <3>1, DriverCalms
  <2> HIDE DEF sent, done
  <2>5. ASSUME NEW h \in Producers
        PROVE  Calms(prod[h], prod'[h]) /\ (h \in done => prod'[h].ctx # "live")
    <3>1. h \in done => prod'[h].ctx = "gone"
      BY <2>1, <2>4
    <3>2. h \notin done => Calms(prod[h], prod'[h])
      BY <1>1, <2>1, <2>3, DriverCalms DEF Producers
    <3> QED
      BY <3>1, <3>2 DEF Calms, Idle
  <2>6. Lined(prod', own'.line)
    BY <1>1, <2>2, <2>5, LineShrinks DEF Calms
  <2> QED
    BY <2>1, <2>5, <2>6, MioBetweenTurns DEF Calms
<1> QED
  BY <1>3, <1>4, <1>5, <1>7, <1>8, <1>10, <1>11, <1>12, <1>13 DEF MioLoop

(* A drain walks every producer of its class that is there.                *)
LEMMA ScratchVisits ==
  ASSUME NEW queries, NEW P, NEW C, C = Class(queries)
  PROVE  LET s == handle_scratch(queries, P)
         IN /\ s \in Seq(C) /\ Len(s) \in Nat
            /\ \A h \in C : P[h].ctx = "live" => \E k \in 1 .. Len(s) : s[k] = h
<1> DEFINE S == {h \in C : P[h].ctx \notin {"absent", "gone"}}
<1>1. S \in SUBSET Producers /\ S \in SUBSET C
  BY DEF Producers, Class
<1>2. S \in SUBSET Nat /\ IsFiniteSet(S)
  BY <1>1, DriverAssumption, FS_Subset
<1>3. handle_scratch(queries, P) = Walk(S)
  BY DEF handle_scratch, Class
<1>4. \A h \in C : P[h].ctx = "live" => h \in S
  OBVIOUS
<1> HIDE DEF S
<1>5. /\ Walk(S) \in Seq(S) /\ Len(Walk(S)) \in Nat
      /\ \A h \in S : \E k \in 1 .. Len(Walk(S)) : Walk(S)[k] = h
  BY <1>2, WalkVisits
<1>6. Walk(S) \in Seq(C)
  BY <1>1, <1>5, SeqMonotonic
<1> QED
  BY <1>3, <1>4, <1>5, <1>6

(* Remainders of what lies within one period, and of the period after it.  *)
LEMMA Remainder ==
  ASSUME NEW L \in Nat \ {0}
  PROVE  /\ \A c \in Nat : c % L \in 0 .. L - 1
         /\ \A x \in 0 .. L - 1 : x % L = x /\ (x + L) % L = x
OBVIOUS

(* A walk from any place of a ring comes by every other one.               *)
LEMMA RingComesBy ==
  ASSUME NEW L \in Nat \ {0}, NEW c \in Nat, NEW k \in 1 .. L
  PROVE  \E v \in 0 .. L - 1 : (((c % L) + v) % L) + 1 = k
<1>1. PICK r \in 0 .. L - 1 : r = c % L
  BY Remainder
<1>2. PICK x \in 0 .. L - 1 : x + 1 = k
  <2>1. k - 1 \in 0 .. L - 1 /\ (k - 1) + 1 = k
    OBVIOUS
  <2> QED
    BY <2>1
<1>3. PICK v \in 0 .. L - 1 : r + v = x \/ r + v = x + L
  <2>1. CASE x >= r
    <3>1. x - r \in 0 .. L - 1 /\ r + (x - r) = x
      BY <2>1
    <3> QED
      BY <3>1
  <2>2. CASE x < r
    <3>1. (x + L) - r \in 0 .. L - 1 /\ r + ((x + L) - r) = x + L
      BY <2>2
    <3> QED
      BY <3>1
  <2> QED
    BY <2>1, <2>2
<1>4. x % L = x /\ (x + L) % L = x
  BY Remainder
<1>5. (r + v) % L = x
  BY <1>3, <1>4, Zenon
<1> QED
  BY <1>1, <1>2, <1>5, Zenon

(* A walk from any slot reaches every one of them.                         *)
LEMMA WalkReaches ==
  ASSUME NEW s, Len(s) \in Nat, NEW c \in Nat, NEW k \in 1 .. Len(s)
  PROVE  \E v \in 0 .. Len(s) - 1 : s[(((c % Len(s)) + v) % Len(s)) + 1] = s[k]
<1>1. PICK L \in Nat \ {0} : L = Len(s)
  OBVIOUS
<1>2. k \in 1 .. L
  BY <1>1
<1>3. \E v \in 0 .. L - 1 : (((c % L) + v) % L) + 1 = k
  BY <1>2, RingComesBy
<1> QED
  BY <1>1, <1>3, Zenon

(* A walk that begins at any cursor comes by everyone it was made for.     *)
LEMMA WalkComesBy ==
  ASSUME NEW queries, NEW P, NEW c \in Nat
  PROVE  /\ handle_scratch(queries, P) \in Seq(Class(queries))
         /\ Len(handle_scratch(queries, P)) \in Nat
         /\ \A h \in Class(queries) : P[h].ctx = "live" =>
              ComesBy(handle_scratch(queries, P), c, 0, h)
<1>1. PICK s, C : s = handle_scratch(queries, P) /\ C = Class(queries)
  OBVIOUS
<1>2. /\ s \in Seq(C) /\ Len(s) \in Nat
      /\ \A h \in C : P[h].ctx = "live" => \E k \in 1 .. Len(s) : s[k] = h
  BY <1>1, ScratchVisits
<1>3. ASSUME NEW h \in C, P[h].ctx = "live"
      PROVE  ComesBy(s, c, 0, h)
  <2>1. PICK k \in 1 .. Len(s) : s[k] = h
    BY <1>2, <1>3
  <2>2. \E v \in 0 .. Len(s) - 1 : s[(((c % Len(s)) + v) % Len(s)) + 1] = s[k]
    BY <1>2, WalkReaches
  <2> QED
    BY <2>1, <2>2 DEF ComesBy
<1> QED
  BY <1>1, <1>2, <1>3

(* A drain that begins has all of its class ahead of it.                   *)
LEMMA DrainBegins ==
  ASSUME own'.visited = 0, NEW queries, queries = DrainsQueries', (Cursor \in Nat)',
         NEW P, own'.slots = handle_scratch(queries, P), NEW Q,
         \A h \in Producers : Q[h].ctx = "live" => P[h].ctx = "live"
  PROVE  /\ own'.slots \in Seq(ClassNow') /\ own'.visited <= Len(own'.slots)
         /\ \A h \in ClassNow' : Idle(Q[h]) \/ Ahead(h)'
<1>1. ClassNow' = Class(queries) /\ Class(queries) \subseteq Producers
  BY DEF ClassNow, Class, Producers
<1>2. Cursor' \in Nat
  OBVIOUS
<1>3. /\ own'.slots \in Seq(ClassNow') /\ Len(own'.slots) \in Nat
      /\ \A h \in ClassNow' : P[h].ctx = "live" => ComesBy(own'.slots, Cursor', own'.visited, h)
  BY <1>1, <1>2, WalkComesBy
<1>4. ASSUME NEW h \in ClassNow', ~Idle(Q[h])
      PROVE  P[h].ctx = "live"
  <2>1. Q[h].ctx = "live" /\ h \in Producers
    BY <1>1, <1>4 DEF Idle
  <2> QED
    BY <2>1
<1>5. \A h \in ClassNow' : P[h].ctx = "live" => Ahead(h)'
  BY <1>3 DEF Ahead
<1> QED
  BY <1>3, <1>4, <1>5

(* The slot of a drain that is not over is of the class it drains.         *)
LEMMA SlotInClass ==
  ASSUME ReactorBusy, Draining
  PROVE  /\ SlotAt \in Nat /\ Slot \in ClassNow /\ Slot \in Producers
         /\ own.visited \in own.visited .. Len(own.slots) - 1 /\ Cursor \in Nat
         /\ Len(own.slots) \in Nat \ {0}
<1>1. /\ own.slots \in Seq(ClassNow) /\ own.visited \in Nat /\ own.visited < Len(own.slots)
      /\ Cursor \in Nat /\ Len(own.slots) \in Nat
  BY DEF ReactorBusy, Draining, Cursor
<1>2. Len(own.slots) \in Nat \ {0} /\ own.visited \in own.visited .. Len(own.slots) - 1
  BY <1>1
<1>3. PICK r \in 0 .. Len(own.slots) - 1 : r = Cursor % Len(own.slots)
  BY <1>1, <1>2, Remainder, Zenon
<1>4. r + own.visited \in Nat
  <2>1. \A L \in Nat : \A x \in 0 .. L - 1 : x \in Nat
    OBVIOUS
  <2>2. r \in Nat
    BY <1>1, <2>1, Zenon
  <2> QED
    BY <1>1, <2>2
<1>5. SlotAt \in 0 .. Len(own.slots) - 1
  BY <1>2, <1>3, <1>4, Remainder, Zenon DEF SlotAt
<1>6. SlotAt + 1 \in 1 .. Len(own.slots) /\ SlotAt \in Nat
  BY <1>2, <1>5
<1>7. Slot \in ClassNow
  BY <1>1, <1>6 DEF Slot
<1> QED
  BY <1>1, <1>2, <1>6, <1>7 DEF ClassNow, Class, Producers

(* The walk a drain has in progress: all that tells who is still ahead.    *)
SameWalk(o) ==
  /\ o.drain = own.drain /\ o.queries_first = own.queries_first /\ o.slots = own.slots
  /\ o.svc_resume = own.svc_resume /\ o.query_resume = own.query_resume

(* The walk goes on from where it is, by the same cursor.                  *)
LEMMA WalkGoesOn ==
  ASSUME SameWalk(own')
  PROVE  DrainsQueries' = DrainsQueries /\ Cursor' = Cursor /\ ClassNow' = ClassNow
<1>1. DrainsQueries' = DrainsQueries
  BY DEF SameWalk, DrainsQueries
<1> QED
  BY <1>1 DEF SameWalk, Cursor, ClassNow

(* A step of the world that takes nothing forward gives nothing to send.   *)
LEMMA ReactorStays ==
  ASSUME ReactorBusy, SameWalk(own'), own'.visited = own.visited, stage' = stage,
         more => more', \A h \in Producers : Calms(prod[h], prod'[h])
  PROVE  ReactorBusy'
<1>1. DrainsQueries' = DrainsQueries /\ Cursor' = Cursor /\ ClassNow' = ClassNow
  BY WalkGoesOn
<1>2. /\ own'.slots = own.slots /\ own'.drain = own.drain
      /\ own'.queries_first = own.queries_first /\ own'.svc_resume = own.svc_resume
      /\ own'.query_resume = own.query_resume
  BY DEF SameWalk
<1>3. \A h : Ahead(h)' <=> Ahead(h)
  BY <1>1, <1>2 DEF Ahead
<1>4. ClassNow \subseteq Producers
  BY DEF ClassNow, Class, Producers
<1>5. \A h \in Producers : Idle(prod[h]) => Idle(prod'[h])
  BY DEF Calms
<1>6. AllIdle => AllIdle'
  BY <1>5 DEF AllIdle
<1>7. stage' = "tx" =>
        /\ own'.slots \in Seq(ClassNow') /\ own'.visited <= Len(own'.slots)
        /\ \A h \in ClassNow' : Idle(prod'[h]) \/ Ahead(h)'
        /\ own'.drain = 2 => more' \/ \A h \in Producers \ ClassNow' : Idle(prod'[h])
  BY <1>1, <1>2, <1>3, <1>4, <1>5 DEF ReactorBusy
<1> QED
  BY <1>2, <1>6, <1>7 DEF ReactorBusy

(* A slot whose producer has nothing more to send is behind the walk.      *)
LEMMA SlotPassed ==
  ASSUME ReactorBusy, ReactorShape(own), Draining, NextSlot, stage' = stage, more' = more,
         prod \in [Producers -> Producer], NEW q, Idle(q), prod' = [prod EXCEPT ![Slot] = q]
  PROVE  ReactorBusy'
<1>1. /\ own'.drain = own.drain /\ own'.queries_first = own.queries_first
      /\ own'.slots = own.slots /\ own'.svc_resume = own.svc_resume
      /\ own'.query_resume = own.query_resume /\ own'.visited = own.visited + 1
  BY DEF NextSlot, ReactorShape
<1>2. DrainsQueries' = DrainsQueries /\ Cursor' = Cursor /\ ClassNow' = ClassNow
  BY <1>1, WalkGoesOn DEF SameWalk
<1>3. /\ Slot \in ClassNow /\ Slot \in Producers /\ Len(own.slots) \in Nat \ {0}
      /\ own.visited \in Nat /\ own.visited < Len(own.slots)
  BY SlotInClass DEF ReactorBusy, Draining
<1>4. \A h \in Producers : Idle(prod[h]) => Idle(prod'[h])
  BY <1>3
<1>5. ASSUME NEW h \in ClassNow, Ahead(h), h # Slot
      PROVE  Ahead(h)'
  <2>1. PICK v \in own.visited .. Len(own.slots) - 1 :
               own.slots[(((Cursor % Len(own.slots)) + v) % Len(own.slots)) + 1] = h
    BY <1>5 DEF Ahead, ComesBy
  <2>2. v # own.visited
    BY <1>5, <2>1, Zenon DEF Slot, SlotAt
  <2>3. v \in own.visited + 1 .. Len(own.slots) - 1
    BY <1>3, <2>2
  <2> QED
    BY <1>1, <1>2, <2>1, <2>3 DEF Ahead, ComesBy
<1>6. \A h \in ClassNow : Idle(prod'[h]) \/ Ahead(h)'
  <2>1. ClassNow \subseteq Producers
    BY DEF ClassNow, Class, Producers
  <2>2. ASSUME NEW h \in ClassNow PROVE Idle(prod'[h]) \/ Ahead(h)'
    <3>1. Idle(prod[h]) \/ Ahead(h)
      BY DEF ReactorBusy, Draining
    <3> QED
      BY <1>4, <1>5, <2>1, <3>1
  <2> QED
    BY <2>2
<1>7. own'.visited \in Nat /\ own'.visited <= Len(own'.slots)
  <2>1. own.visited + 1 \in Nat /\ own.visited + 1 <= Len(own.slots)
    BY <1>3
  <2> QED
    BY <1>1, <2>1
<1>8. stage = "tx"
  BY DEF Draining
<1> QED
  BY <1>1, <1>2, <1>4, <1>6, <1>7, <1>8 DEF ReactorBusy

(* A producer that was just polled may have more: it stays ahead.          *)
LEMMA SlotServed ==
  ASSUME ReactorBusy, Draining, SameWalk(own'), own'.visited = own.visited, stage' = stage,
         more' = more, prod \in [Producers -> Producer], NEW q, prod' = [prod EXCEPT ![Slot] = q]
  PROVE  ReactorBusy'
<1>1. DrainsQueries' = DrainsQueries /\ Cursor' = Cursor /\ ClassNow' = ClassNow
  BY WalkGoesOn
<1>2. /\ own'.slots = own.slots /\ own'.drain = own.drain
      /\ own'.queries_first = own.queries_first /\ own'.svc_resume = own.svc_resume
      /\ own'.query_resume = own.query_resume
  BY DEF SameWalk
<1>3. \A h : Ahead(h)' <=> Ahead(h)
  BY <1>1, <1>2 DEF Ahead
<1>4. /\ Slot \in ClassNow /\ ClassNow \subseteq Producers
      /\ own.visited \in own.visited .. Len(own.slots) - 1
  BY SlotInClass DEF ClassNow, Class, Producers
<1>5. Ahead(Slot)
  BY <1>4 DEF Ahead, ComesBy, Slot, SlotAt
<1>6. \A h \in Producers : h # Slot => prod'[h] = prod[h]
  BY <1>4
<1>7. \A h \in ClassNow' : Idle(prod'[h]) \/ Ahead(h)'
  BY <1>1, <1>3, <1>4, <1>5, <1>6 DEF ReactorBusy, Draining
<1>8. \A h \in Producers \ ClassNow' : prod'[h] = prod[h]
  BY <1>1, <1>4, <1>6
<1>9. stage = "tx"
  BY DEF Draining
<1> QED
  BY <1>1, <1>2, <1>7, <1>8, <1>9 DEF ReactorBusy

(* The updates that end a pass give no producer anything to send.          *)
LEMMA PushedCalms ==
  ASSUME NEW p \in Producer, NEW h
  PROVE  Calms(p, Pushed(p, h))
<1>1. Pushed(p, h) = p \/ (p.ctx = "live" /\ Pushed(p, h).ctx # "live")
  <2>1. Withdrawn(p).ctx # "live" /\ Forgotten(p).ctx = "gone"
    BY DriverCalms
  <2>2. Posted(p) \in Producer
    BY DriverCalms
  <2>3. Woken(Posted(p)) \in Producer
    BY <2>2, DriverCalms
  <2>4. Withdrawn(Woken(Posted(p))).ctx # "live" /\ Forgotten(Woken(Posted(p))).ctx = "gone"
    BY <2>3, DriverCalms
  <2> QED
    BY <2>1, <2>4 DEF Pushed, remove_service, cancel_query
<1> QED
  BY <1>1 DEF Calms, Idle

(***************************************************************************)
(* A class ends with everyone in it idle, or `more` says that it was cut.  *)
(***************************************************************************)
LEMMA ClassEndsBusy ==
  ASSUME ReactorBusy, prod \in [Producers -> Producer], stage = "tx",
         NEW o, ReactorShape(o), o.svc_resume \in Nat, o.query_resume \in Nat,
         o.drain = own.drain, o.queries_first = own.queries_first,
         NEW cut \in BOOLEAN, ClassEnds(o, cut), cut \/ own.visited = Len(own.slots)
  PROVE  ReactorBusy'
<1> DEFINE left == [h \in Producers |-> IF h \in Queries /\ prod[h].ctx = "retired"
                                        THEN cancel_query(prod[h]) ELSE prod[h]]
<1>1. ASSUME NEW h \in Producers
      PROVE  /\ left[h] \in Producer /\ Calms(prod[h], left[h])
             /\ Overlooked(left[h]) \in Producer /\ Calms(prod[h], Overlooked(left[h]))
  <2>1. prod[h] \in Producer
    OBVIOUS
  <2>2. Forgotten(prod[h]) \in Producer /\ Calms(prod[h], Forgotten(prod[h])) /\ Calms(prod[h], prod[h])
    BY <2>1, DriverCalms DEF Calms, Idle
  <2>3. left[h] \in Producer /\ Calms(prod[h], left[h])
    BY <2>1, <2>2 DEF cancel_query
  <2> HIDE DEF left
  <2>4. Overlooked(left[h]) \in Producer /\ Calms(left[h], Overlooked(left[h]))
    BY <2>3, DriverCalms
  <2> QED
    BY <2>3, <2>4 DEF Calms
<1>2. ASSUME ~more' PROVE ~more /\ \A h \in ClassNow : Idle(prod[h])
  <2>1. more' = (more \/ cut)
    BY DEF ClassEnds
  <2>2. ~more /\ own.visited = Len(own.slots)
    BY <1>2, <2>1
  <2>3. own.visited \in Nat
    BY DEF ReactorBusy
  <2>4. \A h : ~Ahead(h)
    <3>1. \A n \in Nat : n .. n - 1 = {}
      OBVIOUS
    <3> QED
      BY <2>2, <2>3, <3>1 DEF Ahead, ComesBy
  <2> QED
    BY <2>2, <2>4 DEF ReactorBusy
<1>3. own.drain \in {1, 2} /\ own.queries_first \in BOOLEAN
  BY DEF ReactorBusy
<1>4. CASE own.drain = 1
  <2> DEFINE q == ~own.queries_first
  <2>1. /\ own' = [o EXCEPT !.drain = 2, !.visited = 0, !.served = FALSE,
                            !.slots = handle_scratch(q, prod)]
        /\ prod' = left /\ stage' = stage
    BY <1>4 DEF ClassEnds
  <2>2. /\ own'.drain = 2 /\ own'.visited = 0 /\ own'.slots = handle_scratch(q, prod)
        /\ own'.queries_first = own.queries_first /\ own'.svc_resume \in Nat
        /\ own'.query_resume \in Nat
    BY <2>1 DEF ReactorShape
  <2>3. q = DrainsQueries' /\ DrainsQueries = own.queries_first
    BY <1>3, <1>4, <2>2 DEF DrainsQueries
  <2>4. ClassNow' = Class(q) /\ ClassNow = Class(own.queries_first)
    BY <2>3 DEF ClassNow
  <2>5. (Cursor \in Nat)'
    BY <2>2 DEF Cursor
  <2>6. \A h \in Producers : prod'[h].ctx = "live" => prod[h].ctx = "live"
    BY <1>1, <2>1 DEF Calms
  <2>7. /\ own'.slots \in Seq(ClassNow') /\ own'.visited <= Len(own'.slots)
        /\ \A h \in ClassNow' : Idle(prod'[h]) \/ Ahead(h)'
    <3> HIDE DEF q
    <3> QED
      BY <2>2, <2>3, <2>5, <2>6, DrainBegins
  <2>8. Producers \ ClassNow' \subseteq ClassNow
    BY <1>3, <2>4 DEF Class, Producers
  <2>9. more' \/ \A h \in Producers \ ClassNow' : Idle(prod'[h])
    <3>1. \A h \in Producers : Idle(prod[h]) => Idle(prod'[h])
      BY <1>1, <2>1 DEF Calms
    <3> QED
      BY <1>2, <2>8, <3>1
  <2>10. stage' = "tx"
    BY <2>1
  <2> QED
    BY <1>3, <2>2, <2>7, <2>9, <2>10 DEF ReactorBusy
<1>5. CASE own.drain = 2
  <2>1. /\ own' = [o EXCEPT !.queries_first = IF more' THEN ~@ ELSE @, !.slots = <<>>,
                            !.visited = 0, !.served = FALSE]
        /\ prod' = push_updates([h \in Producers |-> Overlooked(left[h])])
        /\ stage' = "goodbye"
    BY <1>5 DEF ClassEnds
  <2>2. /\ own'.drain = 2 /\ own'.visited = 0 /\ own'.queries_first \in BOOLEAN
        /\ own'.svc_resume \in Nat /\ own'.query_resume \in Nat
    BY <1>3, <1>5, <2>1 DEF ReactorShape
  <2>3. ASSUME NEW h \in Producers PROVE Calms(prod[h], prod'[h])
    <3> HIDE DEF left
    <3>1. prod'[h] = Pushed(Overlooked(left[h]), h)
      BY <2>1 DEF push_updates
    <3> QED
      BY <1>1, <3>1, PushedCalms DEF Calms
  <2>4. ASSUME ~more' PROVE AllIdle'
    <3>1. \A h \in Producers : Idle(prod[h])
      BY <1>2, <1>5, <2>4 DEF ReactorBusy
    <3> QED
      BY <2>3, <3>1 DEF AllIdle, Calms
  <2> QED
    BY <2>1, <2>2, <2>4 DEF ReactorBusy
<1> QED
  BY <1>3, <1>4, <1>5

(* Who is given up is live no more.                                        *)
LEMMA RetiredGoes ==
  ASSUME NEW p \in Producer, NEW h
  PROVE  RetiredProducer(p, h).ctx # "live"
<1>1. Posted(p) \in Producer
  BY DriverCalms
<1>2. Woken(Posted(p)) \in Producer
  BY <1>1, DriverCalms
<1>3. RetiredService(p).ctx # "live"
  BY <1>2, DriverCalms DEF RetiredService
<1>4. RetiredQuery(p).ctx = "retired"
  BY <1>2 DEF RetiredQuery, Producer
<1> QED
  BY <1>3, <1>4 DEF RetiredProducer

(* Before its drains and between its passes the reactor owes no turns.     *)
LEMMA ReactorElsewhere ==
  ASSUME ReactorBusy, SameWalk(own'), own'.visited = own.visited, stage \notin {"tx", "goodbye"},
         stage' \notin {"tx", "goodbye", "park"}
  PROVE  ReactorBusy'
<1>1. own.drain = 1 /\ own.visited = 0
  BY DEF ReactorBusy
<1> QED
  BY <1>1 DEF ReactorBusy, SameWalk

(* What the command channel carries is no part of the walk.                *)
LEMMA MailAside ==
  ASSUME ReactorShape(own), NEW cmds, own' = own \/ own' = [own EXCEPT !.cmds = cmds]
  PROVE  SameWalk(own') /\ own'.visited = own.visited
BY DEF SameWalk, ReactorShape

(***************************************************************************)
(* The turns of a drain: a slot is passed only when its producer is idle.  *)
(***************************************************************************)
LEMMA ReactorTurnsBusy ==
  ASSUME DriverInv, ReactorBusy, driver = "reactor",
         \/ PassOver \/ NothingDue \/ EncodeFails \/ (\E n \in Fanouts : ReactorSends(n))
         \/ Undeliverable
  PROVE  ReactorBusy'
<1>1. /\ prod \in [Producers -> Producer] /\ \A h \in Producers : prod[h] \in Producer
      /\ ReactorShape(own)
  BY DEF DriverInv, Common, ReactorInv
<1>2. Draining /\ Slot \in Producers /\ stage' = stage /\ more' = more
  <2>1. Draining /\ stage' = stage /\ more' = more
    BY DEF PassOver, NothingDue, EncodeFails, ReactorSends, Undeliverable, Polled, rKeep
  <2> QED
    BY <2>1, SlotInClass
<1>3. PICK p \in Producer : p = prod[Slot]
  BY <1>1, <1>2
<1>4. ASSUME NextSlot, NEW q, Idle(q), prod' = [prod EXCEPT ![Slot] = q] PROVE ReactorBusy'
  BY <1>1, <1>2, <1>4, SlotPassed
<1>5. CASE PassOver
  <2>1. NextSlot /\ prod' = [prod EXCEPT ![Slot] = p]
    BY <1>1, <1>2, <1>3, <1>5 DEF PassOver
  <2>2. Idle(p)
    BY <1>3, <1>5 DEF PassOver, Idle, Live
  <2> QED
    BY <1>4, <2>1, <2>2
<1>6. CASE NothingDue
  <2>1. PICK q : q = [p EXCEPT !.failures = 0]
    OBVIOUS
  <2>2. NextSlot /\ prod' = [prod EXCEPT ![Slot] = q] /\ p.due = 0
    BY <1>1, <1>2, <1>3, <1>6, <2>1 DEF NothingDue
  <2>3. Idle(q)
    BY <2>1, <2>2 DEF Idle, Producer
  <2> QED
    BY <1>4, <2>2, <2>3
<1>7. CASE EncodeFails
  <2>1. PICK q : q = [p EXCEPT !.failures = @ + 1, !.waited = 0]
    OBVIOUS
  <2>2. PICK r : r = IF Slot \in Services /\ q.failures < MAX_CONSECUTIVE_ENCODE_ERRORS THEN q
                     ELSE RetiredProducer(q, Slot)
    OBVIOUS
  <2>3. NextSlot /\ prod' = [prod EXCEPT ![Slot] = r]
    BY <1>3, <1>7, <2>1, <2>2 DEF EncodeFails
  <2>4. q \in Producer /\ q.failures # 0
    <3>1. p.failures + 1 \in Nat /\ p.failures + 1 # 0
      BY DEF Producer
    <3> QED
      BY <2>1, <3>1 DEF Producer
  <2>5. Idle(r)
    BY <2>2, <2>4, RetiredGoes DEF Idle
  <2> QED
    BY <1>4, <2>3, <2>5
<1>8. ASSUME NEW n \in Fanouts, ReactorSends(n) PROVE ReactorBusy'
  <2>1. own' = [own EXCEPT !.served = TRUE] /\ prod' = [prod EXCEPT ![Slot] = Sent(p, Slot, n)]
    BY <1>3, <1>8 DEF ReactorSends
  <2>2. SameWalk(own') /\ own'.visited = own.visited
    BY <1>1, <2>1 DEF SameWalk, ReactorShape
  <2> QED
    BY <1>1, <1>2, <2>1, <2>2, SlotServed
<1>9. CASE Undeliverable
  <2>1. PICK q : q = Sent(p, Slot, 0)
    OBVIOUS
  <2>2. NextSlot /\ prod' = [prod EXCEPT ![Slot] = RetiredProducer(q, Slot)] /\ p.due # 0
    BY <1>3, <1>9, <2>1 DEF Undeliverable, Producer
  <2>3. q \in Producer
    <3>1. p.due - 1 \in Nat
      BY <2>2 DEF Producer
    <3> QED
      BY <2>1, <3>1 DEF Sent, Producer
  <2>4. Idle(RetiredProducer(q, Slot))
    BY <2>3, RetiredGoes DEF Idle
  <2> QED
    BY <1>4, <2>2, <2>4
<1> QED
  BY <1>5, <1>6, <1>7, <1>8, <1>9

(***************************************************************************)
(* Other threads and the receive tasks bring nothing to send into a drain  *)
(* or into the park.                                                       *)
(***************************************************************************)
LEMMA ReactorWorldBusy ==
  ASSUME DriverInv, ReactorBusy, driver = "reactor",
         \/ \E h \in Producers : ReactorAsks(h) \/ ReactorDrops(h) \/ ReactorReads(h)
         \/ EndpointDropped \/ (\E f \in Links : RecvFails(f))
         \/ \E f \in Links, h \in Producers : ReactorHears(f, h)
  PROVE  ReactorBusy'
<1>1. /\ prod \in [Producers -> Producer] /\ \A h \in Producers : prod[h] \in Producer
      /\ ReactorShape(own)
  BY DEF DriverInv, Common, ReactorInv
<1>2. ASSUME NEW cmds, own' = own \/ own' = [own EXCEPT !.cmds = cmds], stage' = stage,
             more' = more, NEW g \in Producers, NEW q, Calms(prod[g], q),
             prod' = prod \/ prod' = [prod EXCEPT ![g] = q]
      PROVE  ReactorBusy'
  <2>1. SameWalk(own') /\ own'.visited = own.visited
    BY <1>1, <1>2, MailAside
  <2>2. \A h \in Producers : Calms(prod[h], prod'[h])
    BY <1>1, <1>2, DriverCalms
  <2> QED
    BY <1>2, <2>1, <2>2, ReactorStays
<1>3. ASSUME NEW g \in Producers, ReactorAsks(g) PROVE ReactorBusy'
  <2>1. PICK q, cmds : /\ q = [prod[g] EXCEPT !.open = TRUE] /\ prod' = [prod EXCEPT ![g] = q]
                       /\ own' = [own EXCEPT !.cmds = cmds]
    BY <1>3 DEF ReactorAsks
  <2>2. Calms(prod[g], q)
    BY <1>1, <1>3, <2>1 DEF ReactorAsks, Calms, Idle, Producer
  <2> QED
    BY <1>2, <1>3, <2>1, <2>2 DEF ReactorAsks, rKeep
<1>4. ASSUME NEW g \in Producers, ReactorDrops(g) PROVE ReactorBusy'
  <2>1. PICK cmds : own' = own \/ own' = [own EXCEPT !.cmds = cmds]
    BY <1>4 DEF ReactorDrops
  <2>2. prod' = [prod EXCEPT ![g] = Dropped(prod[g])] /\ Calms(prod[g], Dropped(prod[g]))
    BY <1>1, <1>4, DriverCalms DEF ReactorDrops
  <2> QED
    BY <1>2, <1>4, <2>1, <2>2 DEF ReactorDrops, rKeep
<1>5. ASSUME NEW g \in Producers, ReactorReads(g) PROVE ReactorBusy'
  <2>1. PICK t, r : prod' = [prod EXCEPT ![g].told = t, ![g].reader = r]
    BY <1>5 DEF ReactorReads
  <2>2. PICK q : q = [prod[g] EXCEPT !.told = t, !.reader = r]
    OBVIOUS
  <2>3. prod' = [prod EXCEPT ![g] = q]
    BY <1>1, <2>1, <2>2
  <2>4. Calms(prod[g], q)
    BY <1>1, <2>2 DEF Calms, Idle, Producer
  <2> QED
    BY <1>2, <1>5, <2>3, <2>4 DEF ReactorReads, rKeep
<1>6. CASE EndpointDropped \/ \E f \in Links : RecvFails(f)
  <2>1. own' = own /\ prod' = prod /\ stage' = stage /\ more' = more
    BY <1>6 DEF EndpointDropped, RecvFails
  <2>2. \A h \in Producers : Calms(prod[h], prod'[h])
    BY <1>1, <2>1, DriverCalms
  <2> QED
    BY <2>1, <2>2, ReactorStays DEF SameWalk
<1>7. CASE \E f \in Links, h \in Producers : ReactorHears(f, h)
  <2>1. own' = own /\ stage = "recv" /\ stage' = "recv"
    BY <1>7 DEF ReactorHears
  <2> QED
    BY <2>1, ReactorElsewhere DEF SameWalk
<1> QED
  BY <1>3, <1>4, <1>5, <1>6, <1>7

(* The pass begins with the drain of whichever class goes first.           *)
LEMMA ReactorPassBusy ==
  ASSUME DriverInv, ReactorBusy, driver = "reactor", ReactorPass
  PROVE  ReactorBusy'
<1> DEFINE P == sweep_closed_handles
<1>1. /\ prod \in [Producers -> Producer] /\ \A h \in Producers : prod[h] \in Producer
      /\ ReactorShape(own)
  BY DEF DriverInv, Common, ReactorInv
<1>2. /\ stage = "recv" /\ stage' = "tx" /\ fire_timeouts(P)
      /\ own' = [own EXCEPT !.slots = handle_scratch(own.queries_first, P)]
  BY DEF ReactorPass
<1>3. /\ own.drain = 1 /\ own.visited = 0 /\ own.queries_first \in BOOLEAN
      /\ own.svc_resume \in Nat /\ own.query_resume \in Nat
  BY <1>2 DEF ReactorBusy
<1>4. P \in [Producers -> Producer]
  <2>1. \A h \in Producers : P[h] \in Producer
    BY <1>1, DriverCalms DEF sweep_closed_handles, remove_service, cancel_query
  <2>2. P = [h \in Producers |-> P[h]]
    BY DEF sweep_closed_handles
  <2> HIDE DEF P
  <2> QED
    BY <2>1, <2>2
<1> HIDE DEF P
<1>5. /\ own'.slots = handle_scratch(own.queries_first, P) /\ own'.visited = 0
      /\ own'.drain = 1 /\ own'.queries_first = own.queries_first
      /\ own'.svc_resume \in Nat /\ own'.query_resume \in Nat
  BY <1>1, <1>2, <1>3 DEF ReactorShape
<1>6. \A h \in Producers : prod'[h].ctx = "live" => P[h].ctx = "live"
  BY <1>2, <1>4 DEF fire_timeouts, Prompted, Producer
<1>7. own.queries_first = DrainsQueries' /\ (Cursor \in Nat)'
  BY <1>3, <1>5 DEF DrainsQueries, Cursor
<1>8. /\ own'.slots \in Seq(ClassNow') /\ own'.visited <= Len(own'.slots)
      /\ \A h \in ClassNow' : Idle(prod'[h]) \/ Ahead(h)'
  BY <1>5, <1>6, <1>7, DrainBegins
<1> QED
  BY <1>2, <1>3, <1>5, <1>8 DEF ReactorBusy

(***************************************************************************)
(* Every step of the reactor's driver, of its callers and of its receive   *)
(* tasks keeps what is owed in sight.                                      *)
(***************************************************************************)
LEMMA ReactorKeepsBusy ==
  ASSUME DriverInv, ReactorBusy, driver = "reactor",
         ReactorLoop \/ ReactorWorld \/ EndpointDropped \/ (\E h \in Producers : ReactorReads(h))
  PROVE  ReactorBusy'
<1>1. /\ prod \in [Producers -> Producer] /\ \A h \in Producers : prod[h] \in Producer
      /\ ReactorShape(own) /\ Services \subseteq Producers
  BY DEF DriverInv, Common, ReactorInv, Producers
<1>2. CASE CutShort \/ ClassDone
  <2>1. own.svc_resume \in Nat /\ own.query_resume \in Nat
    BY DEF ReactorBusy
  <2>2. CASE ClassDone
    <3>1. stage = "tx" /\ own.visited = Len(own.slots) /\ ClassEnds(own, FALSE)
      BY <2>2 DEF ClassDone
    <3> QED
      BY <1>1, <2>1, <3>1, ClassEndsBusy
  <2>3. CASE CutShort
    <3>1. Draining /\ stage = "tx" /\ ClassEnds(ResumeAt(own), TRUE)
      BY <2>3 DEF CutShort, Draining
    <3>2. PICK a \in Nat : \/ ResumeAt(own) = [own EXCEPT !.query_resume = a]
                           \/ ResumeAt(own) = [own EXCEPT !.svc_resume = a]
      <4>1. SlotAt \in Nat
        BY <3>1, SlotInClass
      <4>2. SlotAt + 1 \in Nat
        BY <4>1
      <4> QED
        BY <4>1, <4>2 DEF ResumeAt
    <3>3. /\ ReactorShape(ResumeAt(own)) /\ ResumeAt(own).drain = own.drain
          /\ ResumeAt(own).queries_first = own.queries_first
          /\ ResumeAt(own).svc_resume \in Nat /\ ResumeAt(own).query_resume \in Nat
      BY <1>1, <2>1, <3>2 DEF ReactorShape
    <3> QED
      BY <1>1, <3>1, <3>3, ClassEndsBusy
  <2> QED
    BY <1>2, <2>2, <2>3
<1>3. ASSUME NEW g \in Services, NEW n \in Fanouts, ReactorGoodbye(g, n) PROVE ReactorBusy'
  <2>1. /\ prod' = [prod EXCEPT ![g] = Farewelled(prod[g])] /\ own' = own /\ stage' = stage
        /\ more' = more
    BY <1>3 DEF ReactorGoodbye
  <2>2. \A h \in Producers : Calms(prod[h], prod'[h])
    BY <1>1, <2>1, DriverCalms
  <2> QED
    BY <2>1, <2>2, ReactorStays DEF SameWalk
<1>4. CASE ReactorPassOver
  <2>1. /\ stage = "goodbye" /\ stage' \in {"commands", "park"} /\ (stage' = "park" => ~more)
        /\ prod' = [h \in Producers |-> IF h \in Completed THEN Forgotten(prod[h]) ELSE prod[h]]
        /\ own' = [own EXCEPT !.drain = 1]
    BY <1>4 DEF ReactorPassOver
  <2>2. /\ own'.drain = 1 /\ own'.visited = 0 /\ own'.queries_first \in BOOLEAN
        /\ own'.svc_resume \in Nat /\ own'.query_resume \in Nat
    BY <1>1, <2>1 DEF ReactorShape, ReactorBusy
  <2>3. ASSUME NEW h \in Producers PROVE Idle(prod[h]) => Idle(prod'[h])
    BY <1>1, <2>1, DriverCalms DEF Idle
  <2>4. stage' = "park" => AllIdle'
    BY <2>1, <2>3 DEF ReactorBusy, AllIdle
  <2> QED
    BY <2>1, <2>2, <2>4 DEF ReactorBusy
<1>5. CASE \/ \E c \in {"add", "remove"} \X Producers : handle_command(c)
           \/ ReactorResumes \/ (\E by_timer \in BOOLEAN : ReactorWakes(by_timer))
           \/ ReactorCloses \/ (\E h \in Services : ReactorFlushes(h)) \/ ReactorEnds
  <2>1. /\ stage \notin {"tx", "goodbye"} /\ stage' \notin {"tx", "goodbye", "park"}
        /\ \E cmds : own' = own \/ own' = [own EXCEPT !.cmds = cmds]
    BY <1>5 DEF handle_command, ReactorResumes, ReactorWakes, ReactorCloses, ReactorFlushes,
                ReactorEnds
  <2>2. SameWalk(own') /\ own'.visited = own.visited
    BY <1>1, <2>1, MailAside
  <2> QED
    BY <2>1, <2>2, ReactorElsewhere
<1> QED
  BY <1>2, <1>3, <1>4, <1>5, ReactorTurnsBusy, ReactorWorldBusy, ReactorPassBusy
     DEF ReactorLoop, ReactorWorld

(* A behaviour is of one driver.                                           *)
LEMMA SameDriver == [Next]_drvVars => driver' = driver
<1> SUFFICES ASSUME [Next]_drvVars PROVE driver' = driver
  OBVIOUS
<1>1. CASE ReactorLoop
  <2>1. ASSUME NEW o, NEW cut, ClassEnds(o, cut), UNCHANGED driver PROVE driver' = driver
    BY <2>1
  <2> QED
    BY <1>1 DEF ReactorLoop, ReactorPass, CutShort, ClassDone, PassOver, NothingDue, EncodeFails,
       ReactorSends, Undeliverable, ReactorGoodbye, ReactorPassOver, handle_command,
       ReactorResumes, ReactorWakes, ReactorCloses, ReactorFlushes, ReactorEnds, rKeep
<1>2. CASE ReactorWorld \/ EndpointDropped \/ \E h \in Producers : ReactorReads(h)
  BY <1>2 DEF ReactorWorld, EndpointDropped, ReactorReads, ReactorAsks, ReactorDrops,
     ReactorHears, RecvFails, ReactorWakes, rKeep
<1>3. CASE CompioLoop
  BY <1>3 DEF CompioLoop, CompioPassesOver, CompioEncodeFails, CompioSends, CompioConfirms,
     CompioFarewelled, CompioUndeliverable, CompioPumped, CompioSettles, CompioGoodbye,
     CompioFlushes, CompioGoodbyesDone, CompioSeals, CompioTimer, CompioNotified, CompioWakes,
     CompioFlushed, CompioBackstop, cKeep
<1>4. CASE CompioWorld \/ \E h \in Producers : CompioReads(h)
  BY <1>4 DEF CompioWorld, CompioAsks, CompioDrops, CompioHears, CompioEndpointDropped,
     CompioReads, CompioWakes, cKeep
<1>5. CASE MioLoop \/ MioWorld \/ \E h \in Producers : MioReads(h)
  BY <1>5 DEF MioLoop, MioWorld, MioTicks, MioFires, MioTurnOver, MioEncodeFails,
     MioUndeliverable, MioSends, MioGoodbyes, MioPushes, MioAsks, MioDrops, MioHears,
     MioShutdown, MioDropped, MioReads, mKeep
<1>6. CASE SmoltcpLoop \/ SmoltcpWorld \/ \E h \in Producers : SmoltcpReads(h)
  BY <1>6 DEF SmoltcpLoop, SmoltcpWorld, SmoltcpPumps, SmoltcpUpdates, SmoltcpSent,
     SmoltcpSends, SmoltcpRetires, SmoltcpGoodbye, SmoltcpSleeps, SmoltcpAsks, SmoltcpDrops,
     SmoltcpHears, SmoltcpReads, sKeep
<1>7. CASE UNCHANGED drvVars \/ \E h \in Producers : RoundDue(h)
  BY <1>7 DEF drvVars, RoundDue
<1> QED
  BY <1>1, <1>2, <1>3, <1>4, <1>5, <1>6, <1>7 DEF Next, Loop, World, Reads

(* Nobody has anything to send before a driver ran.                        *)
LEMMA BusyInit == Init => BusyInv
<1> SUFFICES ASSUME Init PROVE BusyInv
  OBVIOUS
<1>1. \A h \in Producers : prod[h] = NoProducer /\ prod[h].ctx = "absent"
  BY DEF Init, NoProducer
<1>2. AllIdle /\ \A h \in Producers : Idle(prod[h]) /\ ~Live(h)
  BY <1>1 DEF AllIdle, Idle, Live
<1>3. driver = "reactor" => ReactorBusy
  <2> SUFFICES ASSUME driver = "reactor" PROVE ReactorBusy
    OBVIOUS
  <2>1. stage = "recv" /\ own = NewReactor
    BY DEF Init
  <2> QED
    BY <2>1 DEF NewReactor, ReactorBusy
<1>4. driver = "compio" => CompioBusy
  <2> SUFFICES ASSUME driver = "compio" PROVE CompioBusy
    OBVIOUS
  <2>1. stage = "tx" /\ own = NewCompio
    BY DEF Init
  <2> QED
    BY <1>2, <2>1 DEF NewCompio, CompioBusy
<1>5. driver = "mio" => MioBusy
  <2> SUFFICES ASSUME driver = "mio" PROVE MioBusy
    OBVIOUS
  <2>1. stage = "park" /\ own = NewMio
    BY DEF Init
  <2> QED
    BY <1>2, <2>1 DEF NewMio, MioBusy
<1>6. driver = "smoltcp" => SmoltcpBusy
  BY <1>2 DEF Init, SmoltcpBusy
<1> QED
  BY <1>3, <1>4, <1>5, <1>6 DEF BusyInv

(* A step that moves no driver and brings nothing to send changes nothing. *)
LEMMA QuietStep ==
  ASSUME BusyInv, driver' = driver, stage' = stage, budget' = budget, more' = more, own' = own,
         \A h \in Producers : Calms(prod[h], prod'[h])
  PROVE  BusyInv'
<1>1. driver = "reactor" => ReactorBusy'
  BY ReactorStays DEF BusyInv, SameWalk
<1>2. AllIdle => AllIdle'
  BY DEF AllIdle, Calms
<1>3. \A h \in Producers : (Idle(prod[h]) => Idle(prod'[h])) /\ (Live(h)' => Live(h))
  BY DEF Calms, Live
<1>4. driver = "compio" => CompioBusy'
  BY <1>2, <1>3 DEF BusyInv, CompioBusy
<1>5. driver = "mio" => MioBusy'
  BY <1>2, <1>3 DEF BusyInv, MioBusy
<1>6. driver = "smoltcp" => SmoltcpBusy'
  BY <1>2 DEF BusyInv, SmoltcpBusy
<1> QED
  BY <1>1, <1>4, <1>5, <1>6 DEF BusyInv

(***************************************************************************)
(* Whatever any driver does, what is owed stays in sight.                  *)
(***************************************************************************)
LEMMA BusyNext == DriverInv /\ BusyInv /\ [Next]_drvVars => BusyInv'
<1> SUFFICES ASSUME DriverInv, BusyInv, [Next]_drvVars PROVE BusyInv'
  OBVIOUS
<1>1. driver' = driver
  BY SameDriver
<1>2. driver \in {"reactor", "compio", "mio", "smoltcp"} /\ prod \in [Producers -> Producer]
  BY DEF DriverInv, Common
<1>3. CASE Loop \/ World \/ \E h \in Producers : Reads(h)
  <2>1. CASE driver = "reactor"
    <3>1. ReactorLoop \/ ReactorWorld \/ EndpointDropped \/ \E h \in Producers : ReactorReads(h)
      BY <1>3, <2>1 DEF Loop, World, Reads
    <3>2. ReactorBusy'
      BY <2>1, <3>1, ReactorKeepsBusy DEF BusyInv
    <3> QED
      BY <1>1, <2>1, <3>2 DEF BusyInv
  <2>2. CASE driver = "compio"
    <3>1. CompioLoop \/ CompioWorld \/ \E h \in Producers : CompioReads(h)
      BY <1>3, <2>2 DEF Loop, World, Reads
    <3>2. CompioBusy'
      BY <2>2, <3>1, CompioKeepsBusy DEF BusyInv
    <3> QED
      BY <1>1, <2>2, <3>2 DEF BusyInv
  <2>3. CASE driver = "mio"
    <3>1. MioLoop \/ MioWorld \/ \E h \in Producers : MioReads(h)
      BY <1>3, <2>3 DEF Loop, World, Reads
    <3>2. MioBusy'
      BY <2>3, <3>1, MioTickKeepsBusy, MioCallsKeepBusy DEF BusyInv, MioWorld
    <3> QED
      BY <1>1, <2>3, <3>2 DEF BusyInv
  <2>4. CASE driver = "smoltcp"
    <3>1. SmoltcpLoop \/ SmoltcpWorld \/ \E h \in Producers : SmoltcpReads(h)
      BY <1>3, <2>4 DEF Loop, World, Reads
    <3>2. SmoltcpBusy'
      BY <2>4, <3>1, SmoltcpKeepsBusy DEF BusyInv
    <3> QED
      BY <1>1, <2>4, <3>2 DEF BusyInv
  <2> QED
    BY <1>2, <2>1, <2>2, <2>3, <2>4
<1>4. CASE UNCHANGED drvVars
  <2>1. \A h \in Producers : Calms(prod[h], prod'[h])
    BY <1>2, <1>4, DriverCalms DEF drvVars
  <2> QED
    BY <1>4, <2>1, QuietStep DEF drvVars
<1>5. CASE \E h \in Producers : RoundDue(h)
  <2>1. PICK g \in Producers : RoundDue(g)
    BY <1>5
  <2>2. PICK q : q = [prod[g] EXCEPT !.ready = TRUE] /\ prod' = [prod EXCEPT ![g] = q]
    BY <2>1 DEF RoundDue
  <2>3. Calms(prod[g], q)
    BY <1>2, <2>2 DEF Calms, Idle, Producer
  <2>4. \A h \in Producers : Calms(prod[h], prod'[h])
    BY <1>2, <2>2, <2>3, DriverCalms
  <2> QED
    BY <2>1, <2>4, QuietStep DEF RoundDue
<1> QED
  BY <1>3, <1>4, <1>5 DEF Next

(***************************************************************************)
(* No driver goes to sleep while a producer that can be encoded has a      *)
(* datagram to send: whoever was not reached when a pass was cut short, or *)
(* was given something to send while a send was awaited, keeps the driver  *)
(* awake (more, own.force, own.notified, own.kick) until its turn has      *)
(* come.                                                                   *)
(***************************************************************************)
THEOREM NothingSleptOn == Spec => []NoWorkSleptOn
<1>1. Init => BusyInv
  BY BusyInit
<1>2. DriverInv /\ BusyInv /\ [Next]_drvVars => BusyInv'
  BY BusyNext
<1>3. DriverInv /\ BusyInv => NoWorkSleptOn
  <2> SUFFICES ASSUME DriverInv, BusyInv, Asleep PROVE AllIdle
    BY DEF NoWorkSleptOn, AllIdle, Idle, Live
  <2>1. stage = "park" /\ driver \in {"reactor", "compio", "mio", "smoltcp"}
    BY DEF Asleep, DriverInv
  <2>2. CASE driver = "reactor"
    BY <2>1, <2>2 DEF BusyInv, ReactorBusy
  <2>3. CASE driver = "compio"
    BY <2>1, <2>3 DEF BusyInv, CompioBusy, Asleep
  <2>4. CASE driver = "mio"
    BY <2>1, <2>4 DEF BusyInv, MioBusy, Asleep
  <2>5. CASE driver = "smoltcp"
    BY <2>1, <2>5 DEF BusyInv, SmoltcpBusy, Asleep
  <2> QED
    BY <2>1, <2>2, <2>3, <2>4, <2>5
<1> QED
  BY <1>1, <1>2, <1>3, DriversSound, PTL DEF Spec

-----------------------------------------------------------------------------
(* mio's line comes round.                                                 *)

(* The sends of one tick, and the most the line can hold.                  *)
PerTick == MAX_SEND_CREDITS_PER_DRAIN

Longest == Cardinality(Producers)

(***************************************************************************)
(* In place i with w ticks waited: each tick that is added to the wait is  *)
(* paid for with as many places as it serves.                              *)
(***************************************************************************)
InPlace(w, i) == w * PerTick + i <= Longest + PerTick

(* Who is in line is there once, and was registered.                       *)
Queue(P, line) ==
  /\ \A i, j \in 1 .. Len(line) : line[i] = line[j] => i = j
  /\ \A i \in 1 .. Len(line) : P[line[i]].ctx # "absent"

Waits(p) == p.ctx = "live" /\ ~p.ending /\ p.waited # 0

(***************************************************************************)
(* When v turns of a tick are over, whoever waits from earlier ticks has   *)
(* its turn still to come, and was v places further back when it began.    *)
(***************************************************************************)
HoldsPlace(P, line, v) ==
  \A h \in Producers : Waits(P[h]) =>
    /\ P[h].due # 0
    /\ \E i \in 1 .. Len(line) - v : line[i] = h /\ InPlace(P[h].waited, i + v)

TurnsOver == IF stage = "tx" THEN own.visited ELSE 0

WithinReach(P) == \A h \in Producers : P[h].waited * PerTick < Longest + PerTick

(***************************************************************************)
(* The credits last until the tail of the line, or for as many turns as a  *)
(* tick has credits; whoever sent in its turn has not waited.              *)
(***************************************************************************)
CreditsLast ==
  stage = "tx" =>
    LET r == Len(own.line) - own.visited
        c == budget.credits
    IN /\ c >= r \/ c + own.visited >= PerTick
       /\ own.spent # 0 =>
            r # 0 /\ c # 0 /\ own.spent <= Share(c, r) /\ prod[own.line[1]].waited = 0

(***************************************************************************)
(* The bound alone is not inductive: it follows from the places, and they  *)
(* move forward by a whole tick because the credits last.                  *)
(***************************************************************************)
MioTurns ==
  /\ Queue(prod, own.line)
  /\ HoldsPlace(prod, own.line, TurnsOver)
  /\ WithinReach(prod)
  /\ CreditsLast

MioTurnsInv == driver = "mio" => MioTurns

(* What the numbers of a place are.                                        *)
LEMMA Limits == PerTick \in Nat /\ PerTick # 0 /\ Longest \in Nat
<1>1. IsFiniteSet(Producers)
  BY DriverAssumption
<1> QED
  BY <1>1, FS_CardinalityType, DriverAssumption DEF PerTick, Longest

(***************************************************************************)
(* The arithmetic of places: moving forward keeps the bound, one tick more *)
(* is paid for with the places of a tick, and whoever has a place at all   *)
(* is in time.                                                             *)
(***************************************************************************)
LEMMA Places ==
  ASSUME NEW w \in Nat, NEW i \in Nat
  PROVE  /\ w * PerTick \in Nat /\ (w + 1) * PerTick = w * PerTick + PerTick
         /\ \A j \in Nat : j <= i /\ InPlace(w, i) => InPlace(w, j)
         /\ \A v \in Nat : v >= PerTick /\ InPlace(w, i + v) => InPlace(w + 1, i)
         /\ w = 0 /\ i <= Longest => InPlace(w + 1, i)
         /\ InPlace(w, i) /\ i # 0 => w * PerTick < Longest + PerTick
         /\ w = 0 => w * PerTick < Longest + PerTick
<1>1. PICK k \in Nat, n \in Nat : k = PerTick /\ n = Longest /\ k # 0
  BY Limits
<1>2. w * k \in Nat /\ (w + 1) * k = w * k + k
  OBVIOUS
<1>3. PICK m \in Nat : m = w * k
  BY <1>2
<1>4. w = 0 => m = 0
  BY <1>3
<1>5. \A a, b \in Nat : InPlace(a, b) <=> a * k + b <= n + k
  BY <1>1 DEF InPlace
<1>6. \A j \in Nat : InPlace(w, j) <=> m + j <= n + k
  BY <1>3, <1>5
<1>7. \A j \in Nat : InPlace(w + 1, j) <=> (m + k) + j <= n + k
  BY <1>2, <1>3, <1>5
<1>8. \A j \in Nat : j <= i /\ InPlace(w, i) => InPlace(w, j)
  BY <1>6
<1>9. \A v \in Nat : v >= k /\ InPlace(w, i + v) => InPlace(w + 1, i)
  BY <1>6, <1>7
<1>10. w = 0 /\ i <= n => InPlace(w + 1, i)
  BY <1>4, <1>7
<1>11. /\ InPlace(w, i) /\ i # 0 => m < n + k
       /\ w = 0 => m < n + k
  BY <1>1, <1>4, <1>6
<1> QED
  BY <1>1, <1>2, <1>3, <1>8, <1>9, <1>10, <1>11

(***************************************************************************)
(* A queue without some of its members: the others, each once and in their *)
(* order, so that nobody falls back.                                       *)
(***************************************************************************)
LEMMA WithoutOrder ==
  ASSUME NEW T, NEW line \in Seq(T), NEW S,
         \A i, j \in 1 .. Len(line) : line[i] = line[j] => i = j
  PROVE  /\ Without(line, S) \in Seq(T)
         /\ \A k \in 1 .. Len(Without(line, S)) :
              \E i \in 1 .. Len(line) : Without(line, S)[k] = line[i]
         /\ \A j, k \in 1 .. Len(Without(line, S)) :
              Without(line, S)[j] = Without(line, S)[k] => j = k
         /\ \A i \in 1 .. Len(line) : line[i] \notin S =>
              \E k \in 1 .. Len(Without(line, S)) : Without(line, S)[k] = line[i] /\ k <= i
<1> DEFINE I == {i \in DOMAIN line : line[i] \notin S}
           kept == Walk(I)
           place(i) == Cardinality({g \in I : g <= i})
<1>1. I \in SUBSET (1 .. Len(line)) /\ I \in SUBSET Nat /\ Len(line) \in Nat
  BY LenProperties
<1>2. IsFiniteSet(I)
  BY <1>1, FS_Interval, FS_Subset
<1>3. /\ kept \in Seq(I) /\ Len(kept) \in Nat
      /\ \A i \in I : place(i) \in 1 .. Len(kept) /\ kept[place(i)] = i
      /\ \A j, k \in 1 .. Len(kept) : kept[j] = kept[k] => j = k
  BY <1>1, <1>2, WalkRanks
<1>4. ASSUME NEW i \in I PROVE place(i) <= i
  <2>1. {g \in I : g <= i} \in SUBSET (1 .. i) /\ i \in Nat
    BY <1>1
  <2>2. IsFiniteSet(1 .. i) /\ Cardinality(1 .. i) = i
    BY <2>1, FS_Interval
  <2> QED
    BY <2>1, <2>2, FS_Subset
<1>5. \A i \in I : line[i] \in T /\ i \in 1 .. Len(line)
  BY <1>1
<1>6. \A i \in 1 .. Len(line) : line[i] \notin S => i \in I
  BY LenProperties
<1>7. Without(line, S) = [k \in DOMAIN kept |-> line[kept[k]]]
  BY DEF Without
<1> HIDE DEF I, kept, place
<1>8. DOMAIN kept = 1 .. Len(kept) /\ \A k \in 1 .. Len(kept) : kept[k] \in I
  BY <1>3
<1>9. Without(line, S) \in [1 .. Len(kept) -> T]
  BY <1>5, <1>7, <1>8
<1>10. Without(line, S) \in Seq(T) /\ Len(Without(line, S)) = Len(kept)
  <2>1. \A m \in Nat : \A f \in [1 .. m -> T] : f \in Seq(T) /\ Len(f) = m
    OBVIOUS
  <2> QED
    BY <1>3, <1>9, <2>1
<1>11. \A k \in 1 .. Len(kept) : Without(line, S)[k] = line[kept[k]]
  BY <1>7, <1>8
<1>12. ASSUME NEW j \in 1 .. Len(kept), NEW k \in 1 .. Len(kept),
              Without(line, S)[j] = Without(line, S)[k]
       PROVE  j = k
  <2>1. kept[j] \in 1 .. Len(line) /\ kept[k] \in 1 .. Len(line)
    BY <1>5, <1>8
  <2>2. line[kept[j]] = line[kept[k]]
    BY <1>11, <1>12
  <2>3. kept[j] = kept[k]
    BY <2>1, <2>2
  <2> QED
    BY <1>3, <2>3
<1>13. ASSUME NEW i \in 1 .. Len(line), line[i] \notin S
       PROVE  \E k \in 1 .. Len(kept) : Without(line, S)[k] = line[i] /\ k <= i
  <2>1. i \in I
    BY <1>6, <1>13
  <2>2. place(i) \in 1 .. Len(kept) /\ kept[place(i)] = i /\ place(i) <= i
    BY <1>3, <1>4, <2>1
  <2>3. Without(line, S)[place(i)] = line[i]
    BY <1>11, <2>2
  <2> QED
    BY <2>2, <2>3
<1> QED
  BY <1>5, <1>8, <1>10, <1>11, <1>12, <1>13

(* The line is never longer than there are producers.                      *)
LEMMA LineFits ==
  ASSUME NEW line \in Seq(Producers),
         \A i, j \in 1 .. Len(line) : line[i] = line[j] => i = j
  PROVE  Len(line) \in Nat /\ Len(line) <= Longest
<1>1. Len(line) \in Nat /\ IsFiniteSet(1 .. Len(line)) /\ Cardinality(1 .. Len(line)) = Len(line)
  <2>1. PICK n \in Nat : n = Len(line)
    OBVIOUS
  <2>2. IsFiniteSet(1 .. n) /\ Cardinality(1 .. n) = n
    BY FS_Interval
  <2> QED
    BY <2>1, <2>2
<1>2. line \in [1 .. Len(line) -> Producers]
  OBVIOUS
<1>3. line \in Injection(1 .. Len(line), Producers)
  BY <1>2 DEF Injection, IsInjective
<1>4. IsFiniteSet(Producers)
  BY DriverAssumption
<1>5. Cardinality(1 .. Len(line)) <= Cardinality(Producers)
  BY <1>3, <1>4, FS_Injection
<1> QED
  BY <1>1, <1>5 DEF Longest

(* What leaves a producer in its place: its wait ends, or goes on.         *)
Patient(p, q) ==
  /\ q.waited = p.waited \/ q.waited = 0
  /\ q.ctx = "absent" => p.ctx = "absent"
  /\ Waits(q) => Waits(p) /\ (p.due # 0 => q.due # 0)

(***************************************************************************)
(* Nobody's place gets worse by what others do, nor by who leaves.         *)
(***************************************************************************)
LEMMA StaysInLine ==
  ASSUME NEW P \in [Producers -> Producer], NEW Q, NEW line \in Seq(Producers), NEW S,
         Queue(P, line), HoldsPlace(P, line, 0), WithinReach(P),
         \A h \in Producers : Patient(P[h], Q[h]) /\ (Waits(Q[h]) => h \notin S)
  PROVE  /\ Queue(Q, line) /\ HoldsPlace(Q, line, 0) /\ WithinReach(Q)
         /\ Queue(Q, Without(line, S)) /\ HoldsPlace(Q, Without(line, S), 0)
<1> DEFINE rest == Without(line, S)
<1>1. \A i, j \in 1 .. Len(line) : line[i] = line[j] => i = j
  BY DEF Queue
<1>2. /\ rest \in Seq(Producers)
      /\ \A k \in 1 .. Len(rest) : \E i \in 1 .. Len(line) : rest[k] = line[i]
      /\ \A j, k \in 1 .. Len(rest) : rest[j] = rest[k] => j = k
      /\ \A i \in 1 .. Len(line) : line[i] \notin S =>
           \E k \in 1 .. Len(rest) : rest[k] = line[i] /\ k <= i
  BY <1>1, WithoutOrder
<1>3. Len(line) \in Nat /\ Len(rest) \in Nat /\ \A i \in 1 .. Len(line) : line[i] \in Producers
  BY <1>2
<1> HIDE DEF rest
<1>4. \A i \in 1 .. Len(line) : Q[line[i]].ctx # "absent"
  BY <1>3 DEF Queue, Patient
<1>5. Queue(Q, line)
  BY <1>1, <1>4 DEF Queue
<1>6. Queue(Q, rest)
  <2>1. ASSUME NEW k \in 1 .. Len(rest) PROVE Q[rest[k]].ctx # "absent"
    BY <1>2, <1>4
  <2> QED
    BY <1>2, <2>1 DEF Queue
<1>7. ASSUME NEW h \in Producers, Waits(Q[h])
      PROVE  /\ Q[h].due # 0
             /\ \E i \in 1 .. Len(line) - 0 : line[i] = h /\ InPlace(Q[h].waited, i + 0)
             /\ \E i \in 1 .. Len(rest) - 0 : rest[i] = h /\ InPlace(Q[h].waited, i + 0)
  <2>1. Waits(P[h]) /\ Q[h].due # 0 /\ Q[h].waited = P[h].waited /\ h \notin S
    BY <1>7 DEF Patient, HoldsPlace, Waits
  <2>2. PICK i \in 1 .. Len(line) - 0 : line[i] = h /\ InPlace(P[h].waited, i + 0)
    BY <2>1 DEF HoldsPlace
  <2>3. i \in 1 .. Len(line) /\ i \in Nat /\ i + 0 = i
    BY <1>3
  <2>4. PICK k \in 1 .. Len(rest) : rest[k] = h /\ k <= i
    BY <1>2, <2>1, <2>2, <2>3
  <2>5. k \in Nat /\ k + 0 = k /\ k \in 1 .. Len(rest) - 0
    BY <1>3
  <2>6. P[h].waited \in Nat
    BY DEF Producer
  <2>7. InPlace(P[h].waited, k)
    BY <2>2, <2>3, <2>4, <2>5, <2>6, Places
  <2> QED
    BY <2>1, <2>2, <2>3, <2>4, <2>5, <2>7
<1>8. HoldsPlace(Q, line, 0) /\ HoldsPlace(Q, rest, 0)
  BY <1>7 DEF HoldsPlace
<1>9. WithinReach(Q)
  <2>1. 0 * PerTick < Longest + PerTick
    BY Places
  <2> QED
    BY <2>1 DEF Patient, WithinReach
<1> QED
  BY <1>5, <1>6, <1>8, <1>9 DEF rest

(***************************************************************************)
(* The credits that a turn leaves suffice for the turns after it.          *)
(***************************************************************************)
LEMMA CreditsGoRound ==
  ASSUME NEW c \in Nat \ {0}, NEW r \in Nat \ {0}, NEW v \in Nat, NEW s \in Nat,
         s <= Share(c, r), c >= r \/ c + v >= PerTick
  PROVE  Share(c, r) # 0 /\ (c - s >= r - 1 \/ (c - s) + (v + 1) >= PerTick)
<1>1. PICK k \in Nat : k = PerTick
  BY Limits
<1>2. CASE c < r
  BY <1>1, <1>2 DEF Share
<1>3. CASE c >= r
  <2>1. c \div r \in Nat /\ c % r \in 0 .. r - 1 /\ c = r * (c \div r) + (c % r)
    OBVIOUS
  <2>2. PICK q \in Nat, m \in 0 .. r - 1 : q = c \div r /\ c = r * q + m
    BY <2>1
  <2>3. r * q \in Nat /\ (q = 0 => r * q = 0) /\ (q # 0 => (r - 1) * (q - 1) \in Nat)
        /\ (r - 1) * (q - 1) = r * q - q - r + 1
    OBVIOUS
  <2>4. PICK e \in Nat : e = r * q
    BY <2>3
  <2>5. q # 0
    BY <1>3, <2>2, <2>3, <2>4
  <2>6. (r - 1) * (q - 1) \in Nat /\ (r - 1) * (q - 1) = e - q - r + 1
    BY <2>3, <2>4, <2>5
  <2>7. e - q >= r - 1
    <3>1. PICK d \in Nat : d = (r - 1) * (q - 1)
      BY <2>6
    <3>2. d = e - q - r + 1
      BY <2>6, <3>1
    <3> QED
      BY <3>2
  <2>8. c - q >= r - 1 /\ s <= q
    BY <1>3, <2>2, <2>4, <2>7 DEF Share
  <2> QED
    BY <1>3, <2>2, <2>5, <2>8 DEF Share
<1> QED
  BY <1>2, <1>3

(***************************************************************************)
(* A turn that leaves its producer nothing to wait for brings the others   *)
(* one place forward.                                                      *)
(***************************************************************************)
LEMMA MioTurnMoves ==
  ASSUME MioBusy, MioTurns, MioShape(own), Serving, stage' = stage,
         prod \in [Producers -> Producer], NEW q, prod' = [prod EXCEPT ![Offered] = q],
         q.ctx # "absent", ~Waits(q), q.waited = 0 \/ q.waited = prod[Offered].waited,
         NEW spent \in Nat, NEW capped, TurnOver(spent, capped), spent <= quantum
  PROVE  MioTurns'
<1>1. /\ own.line \in Seq(Producers) /\ own.visited \in Nat /\ stage = "tx"
      /\ budget = [credits |-> budget.credits, started |-> budget.started, late |-> budget.late]
      /\ budget.credits \in Nat \ {0}
  BY DEF MioBusy, Serving
<1>2. PICK n \in Nat, v \in Nat, c \in Nat \ {0} :
        n = Len(own.line) /\ v = own.visited /\ c = budget.credits /\ v < n
  BY <1>1 DEF Serving
<1>3. /\ own'.line = ToTheTail(own.line) /\ own'.visited = v + 1 /\ own'.spent = 0
  BY <1>2 DEF TurnOver, MioShape
<1>4. budget'.credits = c - spent
  BY <1>1, <1>2 DEF TurnOver
<1>5. PICK line : line = own'.line
  OBVIOUS
<1>6. /\ line \in Seq(Producers) /\ Len(line) = n
      /\ \A i \in 1 .. n - 1 : line[i] = own.line[i + 1]
      /\ line[n] = own.line[1]
  <2>1. PICK old \in Seq(Producers) : old = own.line
    BY <1>1
  <2>2. Len(old) = n /\ Len(old) # 0 /\ line = ToTheTail(old)
    BY <1>2, <1>3, <1>5, <2>1
  <2> QED
    BY <2>1, <2>2, LineTurns
<1>7. /\ \A i, j \in 1 .. n : own.line[i] = own.line[j] => i = j
      /\ \A i \in 1 .. n : prod[own.line[i]].ctx # "absent"
  BY <1>2 DEF MioTurns, Queue
<1>8. \A i \in 1 .. n : own.line[i] \in Producers
  BY <1>1, <1>2
<1>9. Offered = own.line[1] /\ Offered \in Producers
  BY <1>2, <1>8 DEF Offered
<1>10. \A h \in Producers : /\ h # Offered => prod'[h] = prod[h]
                            /\ h = Offered => prod'[h] = q
  BY <1>9
<1>11. \A i \in 1 .. n : line[i] = own.line[IF i = n THEN 1 ELSE i + 1]
  BY <1>6
<1>12. Queue(prod', line)
  <2>1. ASSUME NEW i \in 1 .. n, NEW j \in 1 .. n, line[i] = line[j] PROVE i = j
    <3>1. (IF i = n THEN 1 ELSE i + 1) = IF j = n THEN 1 ELSE j + 1
      BY <1>2, <1>7, <1>11, <2>1
    <3> QED
      BY <3>1
  <2>2. ASSUME NEW i \in 1 .. n PROVE prod'[line[i]].ctx # "absent"
    <3>1. PICK j \in 1 .. n : line[i] = own.line[j]
      BY <1>2, <1>11
    <3> QED
      BY <1>7, <1>8, <1>10, <3>1
  <2> QED
    BY <1>6, <2>1, <2>2 DEF Queue
<1>13. HoldsPlace(prod', line, v + 1)
  <2>1. ASSUME NEW h \in Producers, Waits(prod'[h])
        PROVE  /\ prod'[h].due # 0
               /\ \E i \in 1 .. Len(line) - (v + 1) :
                    line[i] = h /\ InPlace(prod'[h].waited, i + (v + 1))
    <3>1. h # Offered /\ prod'[h] = prod[h]
      BY <1>10, <2>1
    <3>2. /\ prod[h].due # 0
          /\ \E i \in 1 .. n - v : own.line[i] = h /\ InPlace(prod[h].waited, i + v)
      BY <1>1, <1>2, <2>1, <3>1 DEF MioTurns, HoldsPlace, TurnsOver
    <3>3. PICK i \in 1 .. n - v : own.line[i] = h /\ InPlace(prod[h].waited, i + v)
      BY <3>2
    <3>4. i # 1
      BY <1>9, <3>1, <3>3
    <3>5. PICK j \in 1 .. n - (v + 1) : j + 1 = i /\ j \in 1 .. n - 1 /\ j + (v + 1) = i + v
      <4>1. i - 1 \in 1 .. n - (v + 1) /\ (i - 1) + 1 = i /\ i - 1 \in 1 .. n - 1
            /\ (i - 1) + (v + 1) = i + v
        BY <1>2, <3>4
      <4> QED
        BY <4>1
    <3>6. line[j] = h
      BY <1>6, <3>3, <3>5
    <3> QED
      BY <1>6, <3>1, <3>2, <3>3, <3>5, <3>6
  <2> QED
    BY <2>1 DEF HoldsPlace
<1>14. WithinReach(prod')
  <2>1. 0 * PerTick < Longest + PerTick
    BY Places
  <2> QED
    BY <1>9, <1>10, <2>1 DEF MioTurns, WithinReach
<1>15. c - spent >= n - (v + 1) \/ (c - spent) + (v + 1) >= PerTick
  <2>1. PICK r \in Nat \ {0} : r = n - v
    BY <1>2
  <2>2. c >= r \/ c + v >= PerTick
    BY <1>1, <1>2, <2>1 DEF MioTurns, CreditsLast
  <2>3. spent <= Share(c, r)
    BY <1>2, <2>1 DEF quantum
  <2>4. c - spent >= r - 1 \/ (c - spent) + (v + 1) >= PerTick
    BY <2>2, <2>3, CreditsGoRound
  <2>5. n - (v + 1) = r - 1
    BY <2>1
  <2> QED
    BY <2>4, <2>5
<1>16. CreditsLast'
  BY <1>3, <1>4, <1>5, <1>6, <1>15 DEF CreditsLast
<1> QED
  BY <1>1, <1>3, <1>5, <1>12, <1>13, <1>14, <1>16 DEF MioTurns, TurnsOver

(***************************************************************************)
(* Between the turns the line loses members, and its waits only end.       *)
(***************************************************************************)
LEMMA MioLineRests ==
  ASSUME MioBusy, MioTurns, prod \in [Producers -> Producer], stage # "tx",
         stage' = "tx" => own'.visited = 0 /\ CreditsLast',
         NEW S, own'.line = own.line \/ own'.line = Without(own.line, S),
         \A h \in Producers : Patient(prod[h], prod'[h]) /\ (Waits(prod'[h]) => h \notin S)
  PROVE  MioTurns'
<1>1. own.line \in Seq(Producers) /\ TurnsOver = 0 /\ TurnsOver' = 0
  BY DEF MioBusy, TurnsOver
<1>2. Queue(prod, own.line) /\ HoldsPlace(prod, own.line, 0) /\ WithinReach(prod)
  BY <1>1 DEF MioTurns
<1>3. /\ Queue(prod', own.line) /\ HoldsPlace(prod', own.line, 0) /\ WithinReach(prod')
      /\ Queue(prod', Without(own.line, S)) /\ HoldsPlace(prod', Without(own.line, S), 0)
  BY <1>1, <1>2, StaysInLine
<1>4. CreditsLast'
  BY DEF CreditsLast
<1> QED
  BY <1>1, <1>3, <1>4 DEF MioTurns

(* Patience is kept by one change after another.                           *)
LEMMA PatientOn ==
  ASSUME NEW p, NEW q, NEW r, Patient(p, q), Patient(q, r)
  PROVE  Patient(p, r)
BY DEF Patient

(* Nothing mio does to a producer on the way sends it back.                *)
LEMMA MioPatient ==
  ASSUME NEW p \in Producer
  PROVE  /\ Patient(p, p) /\ Patient(p, Posted(p)) /\ Patient(p, Dropped(p))
         /\ Patient(p, Withdrawn(p)) /\ Patient(p, Forgotten(p)) /\ Patient(p, Discarded(p))
         /\ Patient(p, Farewelled(p)) /\ Patient(p, retire_service(p))
         /\ \A o \in BOOLEAN : Patient(p, [p EXCEPT !.open = o]) /\ Patient(p, [p EXCEPT !.ready = o])
         /\ Patient(p, [p EXCEPT !.told = "taken", !.reader = "ended"])
         /\ ~Waits(Withdrawn(p)) /\ ~Waits(Forgotten(p)) /\ ~Waits(retire_service(p))
<1>1. /\ Patient(p, p) /\ Patient(p, Dropped(p)) /\ Patient(p, Farewelled(p))
      /\ \A o \in BOOLEAN : Patient(p, [p EXCEPT !.open = o]) /\ Patient(p, [p EXCEPT !.ready = o])
      /\ Patient(p, [p EXCEPT !.told = "taken", !.reader = "ended"])
  BY DEF Patient, Waits, Dropped, Farewelled, Producer
<1>2. Patient(p, Posted(p)) /\ Posted(p) \in Producer
  BY DEF Patient, Waits, Posted, Producer
<1>3. Patient(p, Withdrawn(p)) /\ ~Waits(Withdrawn(p))
  BY DEF Patient, Waits, Withdrawn, Producer
<1>4. Patient(p, Forgotten(p)) /\ ~Waits(Forgotten(p))
  BY DEF Patient, Waits, Forgotten, Woken, Producer
<1>5. Patient(p, Discarded(p))
  <2>1. p.ctx = "absent" => Patient(p, [p EXCEPT !.open = FALSE])
    BY <1>1
  <2>2. p.ctx # "absent" => Patient(p, [Forgotten(p) EXCEPT !.rounds = 0, !.ready = FALSE])
    <3>1. Forgotten(p) \in Producer
      BY DriverCalms
    <3>2. PICK f \in Producer : f = Forgotten(p)
      BY <3>1
    <3>3. Patient(f, [f EXCEPT !.rounds = 0, !.ready = FALSE])
      BY DEF Patient, Waits, Producer
    <3> QED
      BY <1>4, <3>2, <3>3, PatientOn
  <2> QED
    BY <2>1, <2>2 DEF Discarded
<1>6. Patient(p, retire_service(p)) /\ ~Waits(retire_service(p))
  <2>1. PICK f \in Producer : f = Posted(p)
    BY <1>2
  <2>2. retire_service(p) = [f EXCEPT !.ctx = "retired", !.due = 0, !.ending = FALSE]
    BY <2>1 DEF retire_service
  <2>3. /\ Patient(f, [f EXCEPT !.ctx = "retired", !.due = 0, !.ending = FALSE])
        /\ ~Waits([f EXCEPT !.ctx = "retired", !.due = 0, !.ending = FALSE])
    BY DEF Patient, Waits, Producer
  <2> QED
    BY <1>2, <2>1, <2>2, <2>3, PatientOn
<1> QED
  BY <1>1, <1>2, <1>3, <1>4, <1>5, <1>6

(* A datagram or a timer makes nobody give up its place.                   *)
LEMMA PromptedPatient ==
  ASSUME prod \in [Producers -> Producer], NEW g \in Producers, NEW backlog,
         Prompted(prod, g, backlog), NEW h \in Producers
  PROVE  Patient(prod[h], prod'[h])
<1>1. \A p \in Producer : Patient(p, [p EXCEPT !.due = @ + 1])
                          /\ Patient(p, [p EXCEPT !.ending = TRUE, !.due = 0])
  <2> SUFFICES ASSUME NEW p \in Producer
               PROVE  Patient(p, [p EXCEPT !.due = @ + 1])
                      /\ Patient(p, [p EXCEPT !.ending = TRUE, !.due = 0])
    OBVIOUS
  <2>1. p.due + 1 # 0
    BY DEF Producer
  <2> QED
    BY <2>1 DEF Patient, Waits, Producer
<1>2. \E q : prod' = [prod EXCEPT ![g] = q] /\ Patient(prod[g], q)
  BY <1>1 DEF Prompted
<1> QED
  BY <1>2, MioPatient

(***************************************************************************)
(* Who is registered joins the line behind everybody.                      *)
(***************************************************************************)
LEMMA JoinsBehind ==
  ASSUME NEW P \in [Producers -> Producer], NEW line \in Seq(Producers), NEW g \in Producers,
         Queue(P, line), HoldsPlace(P, line, 0), P[g].ctx = "absent",
         NEW Q, Q = [P EXCEPT ![g] = Started(g)], WithinReach(P)
  PROVE  /\ Queue(Q, join(line, g)) /\ HoldsPlace(Q, join(line, g), 0) /\ WithinReach(Q)
<1>1. PICK n, l : n \in Nat /\ n = Len(line) /\ l = join(line, g)
  OBVIOUS
<1>2. Len(l) = n + 1 /\ l[n + 1] = g /\ \A i \in 1 .. n : l[i] = line[i]
  BY <1>1 DEF join
<1>3. \A i \in 1 .. n : line[i] \in Producers /\ line[i] # g
  BY <1>1 DEF Queue
<1>4. /\ \A h \in Producers : h # g => Q[h] = P[h]
      /\ Q[g].ctx = "live" /\ Q[g].waited = 0
  BY DEF Started, NoProducer
<1>5. Queue(Q, l)
  <2>1. ASSUME NEW i \in 1 .. n + 1, NEW j \in 1 .. n + 1, l[i] = l[j] PROVE i = j
    <3>1. CASE i = n + 1
      BY <1>1, <1>2, <1>3, <2>1, <3>1
    <3>2. CASE j = n + 1
      BY <1>1, <1>2, <1>3, <2>1, <3>2
    <3>3. CASE i # n + 1 /\ j # n + 1
      <4>1. i \in 1 .. n /\ j \in 1 .. n
        BY <1>1, <3>3
      <4>2. line[i] = line[j]
        BY <1>2, <2>1, <4>1
      <4> QED
        BY <1>1, <4>1, <4>2 DEF Queue
    <3> QED
      BY <3>1, <3>2, <3>3
  <2>2. ASSUME NEW i \in 1 .. n + 1 PROVE Q[l[i]].ctx # "absent"
    <3>1. CASE i = n + 1
      BY <1>2, <1>4, <3>1
    <3>2. CASE i # n + 1
      <4>1. i \in 1 .. n
        BY <1>1, <3>2
      <4> QED
        BY <1>1, <1>2, <1>3, <1>4, <4>1 DEF Queue
    <3> QED
      BY <3>1, <3>2
  <2> QED
    BY <1>2, <2>1, <2>2 DEF Queue
<1>6. HoldsPlace(Q, l, 0)
  <2>1. ASSUME NEW h \in Producers, Waits(Q[h])
        PROVE  /\ Q[h].due # 0
               /\ \E i \in 1 .. Len(l) - 0 : l[i] = h /\ InPlace(Q[h].waited, i + 0)
    <3>1. h # g /\ Q[h] = P[h]
      BY <1>4, <2>1 DEF Waits
    <3>2. /\ P[h].due # 0
          /\ \E i \in 1 .. n - 0 : line[i] = h /\ InPlace(P[h].waited, i + 0)
      BY <1>1, <2>1, <3>1 DEF HoldsPlace
    <3>3. PICK i \in 1 .. n - 0 : line[i] = h /\ InPlace(P[h].waited, i + 0)
      BY <3>2
    <3>4. i \in 1 .. n /\ i \in 1 .. Len(l) - 0
      BY <1>1, <1>2
    <3> QED
      BY <1>2, <3>1, <3>2, <3>3, <3>4
  <2> QED
    BY <2>1 DEF HoldsPlace
<1>7. WithinReach(Q)
  <2>1. 0 * PerTick < Longest + PerTick
    BY Places
  <2> QED
    BY <1>4, <2>1 DEF WithinReach
<1> QED
  BY <1>1, <1>5, <1>6, <1>7

(***************************************************************************)
(* The calls between two ticks: newcomers queue up at the end, and whoever *)
(* is given up lets the others move forward.                               *)
(***************************************************************************)
LEMMA MioCallsKeepTurns ==
  ASSUME DriverInv, MioBusy, MioTurns, driver = "mio",
         \/ MioShutdown \/ MioDropped
         \/ \E h \in Producers : MioAsks(h) \/ MioDrops(h) \/ MioReads(h)
  PROVE  MioTurns'
<1>1. /\ prod \in [Producers -> Producer] /\ \A h \in Producers : prod[h] \in Producer
      /\ MioShape(own) /\ own.line \in Seq(Producers)
  BY DEF DriverInv, Common, MioInv, MioBusy
<1>2. stage = "park" /\ stage' # "tx"
  BY DEF MioShutdown, MioDropped, MioAsks, MioDrops, MioReads, Yields
<1>0. PICK nobody : nobody = {}
  OBVIOUS
<1>3. ASSUME NEW g \in Producers, MioAsks(g) PROVE MioTurns'
  <2>1. /\ prod' = [prod EXCEPT ![g] = Started(g)] /\ own'.line = join(own.line, g)
        /\ prod[g].ctx = "absent"
    BY <1>1, <1>3 DEF MioAsks, MioShape
  <2>2. Queue(prod, own.line) /\ HoldsPlace(prod, own.line, 0) /\ WithinReach(prod)
    BY <1>2 DEF MioTurns, TurnsOver
  <2>3. Queue(prod', own'.line) /\ HoldsPlace(prod', own'.line, 0) /\ WithinReach(prod')
    BY <1>1, <2>1, <2>2, JoinsBehind
  <2> QED
    BY <1>2, <2>3 DEF MioTurns, TurnsOver, CreditsLast
<1>4. ASSUME NEW g \in Producers, MioDrops(g) PROVE MioTurns'
  <2>1. PICK p \in Producer : p = Dropped(prod[g]) /\ Patient(prod[g], p)
    BY <1>1, DriverCalms, MioPatient
  <2>2. PICK q : q = IF g \in Services THEN Withdrawn(p) ELSE Forgotten(p)
    OBVIOUS
  <2>3. /\ prod' = [prod EXCEPT ![g] = q]
        /\ own' = IF g \in Queries THEN [own EXCEPT !.line = Without(@, {g})] ELSE own
    BY <1>4, <2>1, <2>2, Zenon DEF MioDrops
  <2>4. Patient(prod[g], q) /\ ~Waits(q)
    BY <2>1, <2>2, MioPatient, PatientOn
  <2>5. own'.line = Without(own.line, {g}) \/ own'.line = own.line
    BY <1>1, <2>3 DEF MioShape
  <2>6. \A h \in Producers : Patient(prod[h], prod'[h]) /\ (Waits(prod'[h]) => h \notin {g})
    BY <1>1, <2>3, <2>4, MioPatient
  <2> QED
    BY <1>1, <1>2, <2>5, <2>6, MioLineRests
<1>5. ASSUME NEW g \in Producers, MioReads(g) PROVE MioTurns'
  <2>1. /\ prod' = [prod EXCEPT ![g] = [prod[g] EXCEPT !.told = "taken", !.reader = "ended"]]
        /\ own'.line = own.line
    BY <1>1, <1>5 DEF MioReads
  <2>2. \A h \in Producers : Patient(prod[h], prod'[h]) /\ h \notin nobody
    BY <1>1, <1>0, <2>1, MioPatient
  <2>3. own'.line = own.line
    BY <2>1
  <2> QED
    BY <1>1, <1>2, <2>2, <2>3, MioLineRests
<1>6. ASSUME NEW h \in Producers PROVE Patient(prod[h], ShutDown[h]) /\ ShutDown[h] \in Producer
  <2>1. PICK p \in Producer : p = Dropped(prod[h]) /\ Patient(prod[h], p)
    BY <1>1, DriverCalms, MioPatient
  <2>2. Patient(prod[h], Withdrawn(p)) /\ Withdrawn(p) \in Producer
    BY <2>1, DriverCalms, MioPatient, PatientOn
  <2> QED
    BY <1>1, <2>1, <2>2, MioPatient DEF ShutDown
<1>7. CASE MioShutdown
  <2>1. prod' = ShutDown /\ own'.line = own.line
    BY <1>1, <1>7 DEF MioShutdown, MioShape
  <2>2. \A h \in Producers : Patient(prod[h], prod'[h]) /\ h \notin nobody
    BY <1>6, <1>0, <2>1
  <2> QED
    BY <1>1, <1>2, <2>1, <2>2, MioLineRests
<1>8. CASE MioDropped
  <2>1. own'.line = own.line
    BY <1>8 DEF MioDropped
  <2>2. ASSUME NEW h \in Producers PROVE Patient(prod[h], prod'[h])
    <3>1. PICK p, q : /\ p \in Producer /\ p = ShutDown[h] /\ Patient(prod[h], p)
                      /\ q = IF p.ready THEN Farewelled(p) ELSE p
      BY <1>6
    <3>2. prod'[h] = [Discarded(q) EXCEPT !.open = FALSE]
      BY <1>8, <3>1 DEF MioDropped
    <3>3. Sound(h, p)
      BY <1>1, <1>2, <3>1, ShutDownFine DEF MioFine, DriverInv, Common, MioInv
    <3>4. Sound(h, q) /\ Patient(p, q)
      BY <3>1, <3>3, FarewelledSound, MioPatient DEF Sound
    <3>5. Discarded(q) \in Producer /\ Patient(q, Discarded(q))
      BY <3>4, DiscardedSound, MioPatient DEF Sound
    <3>6. Patient(Discarded(q), [Discarded(q) EXCEPT !.open = FALSE])
      BY <3>5, MioPatient
    <3> QED
      BY <3>1, <3>2, <3>4, <3>5, <3>6, PatientOn
  <2>3. \A h \in Producers : Patient(prod[h], prod'[h]) /\ h \notin nobody
    BY <1>0, <2>2
  <2> QED
    BY <1>1, <1>2, <2>1, <2>3, MioLineRests
<1> QED
  BY <1>3, <1>4, <1>5, <1>7, <1>8

(***************************************************************************)
(* The end of a tick: who had its turn waits at most once, and who had not *)
(* has a whole budget of others behind it.                                 *)
(***************************************************************************)
LEMMA MioPushKeepsTurns ==
  ASSUME DriverInv, MioBusy, MioTurns, driver = "mio", MioPushes
  PROVE  MioTurns'
<1>1. /\ prod \in [Producers -> Producer] /\ \A h \in Producers : prod[h] \in Producer
      /\ MioShape(own) /\ own.line \in Seq(Producers)
  BY DEF DriverInv, Common, MioInv, MioBusy
<1> DEFINE ended(h) == Live(h) /\ prod[h].ending
           over(h) == h \in Queries /\ (ended(h) \/ prod[h].ctx = "retired")
           S == {h \in Producers : over(h)}
           left == Without(own.line, S)
<1>2. /\ stage = "tx" /\ stage' = "goodbye" /\ ~Serving
      /\ own' = [own EXCEPT !.line = Without(@, S)]
      /\ prod' = [h \in Producers |->
            IF over(h) THEN Forgotten(Posted(prod[h]))
            ELSE IF ended(h) THEN retire_service(prod[h])
            ELSE Overlooked(prod[h])]
  BY Zenon DEF MioPushes
<1>3. own'.line = left
  BY <1>1, <1>2 DEF MioShape
<1>4. PICK n \in Nat, v \in Nat, c \in Nat :
        /\ n = Len(own.line) /\ v = own.visited /\ c = budget.credits
        /\ v <= n /\ (c = 0 \/ v = n)
  <2>1. own.visited \in Nat /\ own.visited <= Len(own.line) /\ budget.credits \in Nat
    BY <1>2 DEF MioBusy
  <2>2. budget.credits = 0 \/ own.visited = Len(own.line)
    BY <1>1, <1>2, <2>1 DEF Serving
  <2> QED
    BY <1>1, <2>1, <2>2
<1>5. v = n \/ v >= PerTick
  <2>1. c >= n - v \/ c + v >= PerTick
    BY <1>2, <1>4 DEF MioTurns, CreditsLast
  <2> QED
    BY <1>4, <2>1, Limits
<1>6. /\ Queue(prod, own.line) /\ HoldsPlace(prod, own.line, v) /\ WithinReach(prod)
      /\ \A i, j \in 1 .. n : own.line[i] = own.line[j] => i = j
      /\ \A i \in 1 .. n : prod[own.line[i]].ctx # "absent"
  BY <1>2, <1>4 DEF MioTurns, TurnsOver, Queue
<1>7. /\ left \in Seq(Producers)
      /\ \A k \in 1 .. Len(left) : \E i \in 1 .. n : left[k] = own.line[i]
      /\ \A j, k \in 1 .. Len(left) : left[j] = left[k] => j = k
      /\ \A i \in 1 .. n : own.line[i] \notin S =>
           \E k \in 1 .. Len(left) : left[k] = own.line[i] /\ k <= i
  <2>1. \A i, j \in 1 .. Len(own.line) : own.line[i] = own.line[j] => i = j
    BY <1>4, <1>6
  <2>2. PICK line, T : line \in Seq(Producers) /\ line = own.line /\ T = S
    BY <1>1
  <2>3. /\ Without(line, T) \in Seq(Producers)
        /\ \A k \in 1 .. Len(Without(line, T)) :
             \E i \in 1 .. Len(line) : Without(line, T)[k] = line[i]
        /\ \A j, k \in 1 .. Len(Without(line, T)) :
             Without(line, T)[j] = Without(line, T)[k] => j = k
        /\ \A i \in 1 .. Len(line) : line[i] \notin T =>
             \E k \in 1 .. Len(Without(line, T)) : Without(line, T)[k] = line[i] /\ k <= i
    <3>1. \A i, j \in 1 .. Len(line) : line[i] = line[j] => i = j
      BY <2>1, <2>2
    <3>2. line \in Seq(Producers)
      BY <2>2
    <3> QED
      BY <3>1, <3>2, WithoutOrder
  <2>4. left = Without(line, T) /\ Len(line) = n
    BY <1>4, <2>2
  <2> HIDE DEF S, left
  <2> QED
    BY <2>2, <2>3, <2>4
<1>8. Len(left) \in Nat /\ Len(left) <= Longest
  BY <1>7, LineFits
<1> HIDE DEF left
<1>9. ASSUME NEW h \in Producers
      PROVE  \/ Patient(prod[h], prod'[h]) /\ ~Waits(prod'[h])
             \/ /\ h \notin S /\ ~(Live(h) /\ prod[h].ending) /\ prod'[h] = Overlooked(prod[h])
  <2>1. over(h) => Patient(prod[h], prod'[h]) /\ ~Waits(prod'[h])
    <3>1. Posted(prod[h]) \in Producer /\ Patient(prod[h], Posted(prod[h]))
      BY <1>1, DriverCalms, MioPatient
    <3>2. Patient(prod[h], Forgotten(Posted(prod[h]))) /\ ~Waits(Forgotten(Posted(prod[h])))
      BY <3>1, MioPatient, PatientOn
    <3> HIDE DEF over
    <3> QED
      BY <1>2, <3>2
  <2>2. ~over(h) /\ ended(h) => Patient(prod[h], prod'[h]) /\ ~Waits(prod'[h])
    <3>1. Patient(prod[h], retire_service(prod[h])) /\ ~Waits(retire_service(prod[h]))
      BY <1>1, MioPatient
    <3> HIDE DEF over, ended
    <3> QED
      BY <1>2, <3>1
  <2>3. ~over(h) /\ ~ended(h) => prod'[h] = Overlooked(prod[h])
    <3> HIDE DEF over, ended
    <3> QED
      BY <1>2
  <2> QED
    BY <2>1, <2>2, <2>3
<1>10. ASSUME NEW p \in Producer
       PROVE  /\ Overlooked(p).ctx = p.ctx /\ Overlooked(p).due = p.due
              /\ Overlooked(p).ending = p.ending /\ p.waited \in Nat
              /\ \/ Overlooked(p).waited = p.waited
                 \/ Overlooked(p).waited = p.waited + 1 /\ p.ctx = "live" /\ p.due # 0
  BY DEF Overlooked, Producer
<1> HIDE DEF over, ended, S
<1>11. ASSUME NEW h \in Producers, Waits(prod'[h])
       PROVE  /\ prod'[h].due # 0
              /\ \E k \in 1 .. Len(left) - 0 : left[k] = h /\ InPlace(prod'[h].waited, k + 0)
              /\ prod'[h].waited * PerTick < Longest + PerTick
  <2>1. h \notin S /\ ~(Live(h) /\ prod[h].ending) /\ prod'[h] = Overlooked(prod[h])
    BY <1>9, <1>11
  <2>2. PICK w \in Nat, u \in Nat : w = prod[h].waited /\ u = prod'[h].waited /\ (u = w \/ u = w + 1)
    BY <1>1, <1>10, <2>1
  <2>3. /\ prod[h].ctx = "live" /\ ~prod[h].ending /\ prod'[h].due = prod[h].due
        /\ u = w + 1 => prod[h].due # 0
    BY <1>1, <1>10, <1>11, <2>1, <2>2 DEF Waits
  <2>4. CASE w = 0
    <3>1. u = 1 /\ prod[h].due # 0
      BY <1>11, <2>2, <2>3, <2>4 DEF Waits
    <3>2. PICK i \in 1 .. n : own.line[i] = h
      BY <1>4, <2>3 DEF MioBusy, Live
    <3>3. PICK k \in 1 .. Len(left) : left[k] = h
      BY <1>7, <2>1, <3>2
    <3>4. k \in Nat /\ k <= Longest /\ k # 0 /\ k + 0 = k /\ k \in 1 .. Len(left) - 0
      BY <1>8, Limits
    <3>5. InPlace(u, k)
      <4>1. InPlace(w + 1, k)
        BY <2>4, <3>4, Places
      <4>2. w + 1 = u
        BY <2>4, <3>1
      <4> QED
        BY <4>1, <4>2
    <3>6. u * PerTick < Longest + PerTick
      BY <3>4, <3>5, Places
    <3> QED
      BY <2>2, <2>3, <3>1, <3>3, <3>4, <3>5, <3>6
  <2>5. CASE w # 0
    <3>1. Waits(prod[h])
      BY <2>2, <2>3, <2>5 DEF Waits
    <3>2. /\ prod[h].due # 0
          /\ \E i \in 1 .. n - v : own.line[i] = h /\ InPlace(w, i + v)
      BY <1>4, <1>6, <2>2, <3>1 DEF HoldsPlace
    <3>3. PICK i \in 1 .. n - v : own.line[i] = h /\ InPlace(w, i + v)
      BY <3>2
    <3>4. i \in Nat /\ i \in 1 .. n /\ v # n /\ i + v \in Nat /\ i <= i + v
      BY <1>4
    <3>5. PICK k \in 1 .. Len(left) : left[k] = h /\ k <= i
      BY <1>7, <2>1, <3>3, <3>4
    <3>6. k \in Nat /\ k # 0 /\ k + 0 = k /\ k \in 1 .. Len(left) - 0
      BY <1>8
    <3>7. InPlace(w, i) /\ InPlace(w + 1, i)
      BY <1>5, <3>3, <3>4, Places
    <3>8. InPlace(u, i)
      BY <2>2, <3>7
    <3>9. InPlace(u, k)
      BY <3>4, <3>5, <3>6, <3>8, Places
    <3>10. u * PerTick < Longest + PerTick
      BY <3>6, <3>9, Places
    <3> QED
      BY <2>2, <2>3, <3>2, <3>5, <3>6, <3>9, <3>10
  <2> QED
    BY <2>4, <2>5
<1>12. Queue(prod', left)
  <2>1. ASSUME NEW k \in 1 .. Len(left) PROVE prod'[left[k]].ctx # "absent"
    <3>1. PICK i \in 1 .. n : left[k] = own.line[i]
      BY <1>7
    <3>2. own.line[i] \in Producers /\ prod[own.line[i]].ctx # "absent"
      BY <1>1, <1>4, <1>6
    <3>3. prod'[own.line[i]].ctx # "absent"
      BY <1>1, <1>9, <1>10, <3>2 DEF Patient
    <3> QED
      BY <3>1, <3>3
  <2> QED
    BY <1>7, <2>1 DEF Queue
<1>13. HoldsPlace(prod', left, 0)
  BY <1>11 DEF HoldsPlace
<1>14. ASSUME NEW h \in Producers PROVE prod'[h].waited * PerTick < Longest + PerTick
  <2>1. 0 * PerTick < Longest + PerTick /\ prod[h].waited * PerTick < Longest + PerTick
    BY <1>6, Places DEF WithinReach
  <2>2. CASE prod'[h].waited = prod[h].waited \/ prod'[h].waited = 0
    BY <2>1, <2>2
  <2>3. CASE ~(prod'[h].waited = prod[h].waited \/ prod'[h].waited = 0)
    <3>1. prod'[h] = Overlooked(prod[h]) /\ ~(Live(h) /\ prod[h].ending)
      BY <1>9, <2>3 DEF Patient
    <3>2. Waits(prod'[h])
      BY <1>1, <1>10, <2>3, <3>1 DEF Waits, Live
    <3> QED
      BY <1>11, <3>2
  <2> QED
    BY <2>2, <2>3
<1> QED
  BY <1>2, <1>3, <1>12, <1>13, <1>14 DEF MioTurns, TurnsOver, CreditsLast, WithinReach

(***************************************************************************)
(* A tick: what is heard or sent, turn after turn, moves the line round.   *)
(***************************************************************************)
LEMMA MioTickKeepsTurns ==
  ASSUME DriverInv, MioBusy, MioTurns, driver = "mio",
         MioLoop \/ MioTicks(TRUE) \/ (\E h \in Producers : MioHears(h))
  PROVE  MioTurns'
<1>0. PICK nobody : nobody = {}
  OBVIOUS
<1>1. /\ prod \in [Producers -> Producer] /\ \A h \in Producers : prod[h] \in Producer
      /\ MioShape(own) /\ own.line \in Seq(Producers)
  BY DEF DriverInv, Common, MioInv, MioBusy
<1>2. stage # "ended" => \A h \in Producers : Sound(h, prod[h])
  BY DEF DriverInv, Common
<1>3. ASSUME NEW readable \in BOOLEAN, MioTicks(readable) PROVE MioTurns'
  <2>1. stage # "tx" /\ stage' # "tx" /\ prod' = prod
    BY <1>3 DEF MioTicks
  <2>2. own'.line = own.line
    BY <1>3 DEF MioTicks
  <2>3. \A h \in Producers : Patient(prod[h], prod'[h]) /\ h \notin nobody
    BY <1>0, <1>1, <2>1, MioPatient
  <2> QED
    BY <1>1, <2>1, <2>2, <2>3, MioLineRests
<1>4. ASSUME NEW g \in Producers, MioHears(g) PROVE MioTurns'
  <2>1. stage # "tx" /\ stage' # "tx" /\ Prompted(prod, g, MaxDue)
    BY <1>4 DEF MioHears, Heard
  <2>2. own'.line = own.line
    BY <1>4 DEF MioHears
  <2>3. \A h \in Producers : Patient(prod[h], prod'[h]) /\ h \notin nobody
    BY <1>0, <1>1, <2>1, PromptedPatient
  <2> QED
    BY <1>1, <2>1, <2>2, <2>3, MioLineRests
<1>5. CASE MioFires
  <2>1. /\ stage # "tx" /\ fire_timeouts(prod) /\ budget'.credits = PerTick
        /\ own'.visited = 0 /\ own'.spent = 0
    BY <1>1, <1>5 DEF MioFires, MioShape, NewBudget, PerTick
  <2>2. own'.line = own.line
    BY <1>1, <1>5 DEF MioFires, MioShape
  <2>3. \A h \in Producers : Patient(prod[h], prod'[h]) /\ h \notin nobody
    BY <1>0, <1>1, <2>1, PromptedPatient, MioPatient DEF fire_timeouts
  <2>4. CreditsLast'
    BY <2>1, Limits DEF CreditsLast
  <2> QED
    BY <1>1, <2>1, <2>2, <2>3, <2>4, MioLineRests
<1>6. Serving =>
        /\ own.line \in Seq(Producers) /\ Offered \in Producers /\ stage = "tx"
        /\ own.spent \in Nat /\ quantum \in Nat /\ quantum # 0 /\ own.spent <= quantum
        /\ own.spent # 0 => prod[Offered].waited = 0
        /\ prod[Offered].ctx # "absent" /\ (Waits(prod[Offered]) => prod[Offered].due # 0)
        /\ Len(own.line) - own.visited # 0 /\ budget.credits # 0
  <2> SUFFICES ASSUME Serving
               PROVE  /\ own.line \in Seq(Producers) /\ Offered \in Producers /\ stage = "tx"
                      /\ own.spent \in Nat /\ quantum \in Nat /\ quantum # 0
                      /\ own.spent <= quantum
                      /\ own.spent # 0 => prod[Offered].waited = 0
                      /\ prod[Offered].ctx # "absent"
                      /\ (Waits(prod[Offered]) => prod[Offered].due # 0)
                      /\ Len(own.line) - own.visited # 0 /\ budget.credits # 0
    OBVIOUS
  <2>1. /\ own.line \in Seq(Producers) /\ own.spent \in Nat /\ stage = "tx"
        /\ own.visited \in Nat /\ own.visited < Len(own.line) /\ budget.credits \in Nat \ {0}
        /\ Len(own.line) \in Nat
    BY DEF Serving, MioBusy
  <2>2. PICK r \in Nat \ {0}, c \in Nat \ {0} :
          r = Len(own.line) - own.visited /\ c = budget.credits
    BY <2>1
  <2>3. Share(c, r) \in Nat /\ quantum = Share(c, r)
    BY <2>2, ShareFits DEF quantum
  <2>4. Share(c, r) # 0
    <3>1. c >= r => c \div r # 0
      <4> SUFFICES ASSUME c >= r, c \div r = 0 PROVE FALSE
        OBVIOUS
      <4>1. c = r * (c \div r) + (c % r) /\ c % r \in 0 .. r - 1
        OBVIOUS
      <4>2. r * 0 = 0
        OBVIOUS
      <4> QED
        BY <4>1, <4>2
    <3> QED
      BY <3>1 DEF Share
  <2>5. own.spent # 0 => own.spent <= Share(c, r) /\ prod[own.line[1]].waited = 0
    BY <2>1, <2>2 DEF MioTurns, CreditsLast
  <2>6. Offered = own.line[1] /\ 1 \in 1 .. Len(own.line) /\ Offered \in Producers
    BY <2>1 DEF Offered
  <2>7. prod[Offered].ctx # "absent"
    BY <2>6 DEF MioTurns, Queue
  <2>8. Waits(prod[Offered]) => prod[Offered].due # 0
    BY <2>6 DEF MioTurns, HoldsPlace
  <2> QED
    BY <2>1, <2>2, <2>3, <2>4, <2>5, <2>6, <2>7, <2>8
<1>7. ASSUME NEW n \in Fanouts, MioSends(n) PROVE MioTurns'
  <2>1. PICK q : q = Sent(prod[Offered], Offered, n)
    OBVIOUS
  <2>2. /\ Serving /\ own.spent < quantum /\ stage = "tx" /\ stage' = stage /\ budget' = budget
        /\ prod' = [prod EXCEPT ![Offered] = q]
        /\ own' = [own EXCEPT !.spent = @ + 1] /\ prod[Offered].ctx = "live"
    BY <1>7, <2>1, Zenon DEF MioSends, Serving, Live
  <2>3. /\ own'.line = own.line /\ own'.visited = own.visited /\ own'.spent = own.spent + 1
    BY <1>1, <2>2 DEF MioShape
  <2>4. q.ctx = "live" /\ q.waited = 0
    BY <1>1, <1>6, <2>1, <2>2 DEF Sent, Producer
  <2>5. \A h \in Producers : /\ h # Offered => prod'[h] = prod[h]
                             /\ h = Offered => prod'[h] = q
    BY <1>1, <2>2
  <2>6. Queue(prod', own.line)
    <3>1. /\ \A i, j \in 1 .. Len(own.line) : own.line[i] = own.line[j] => i = j
          /\ \A i \in 1 .. Len(own.line) : prod[own.line[i]].ctx # "absent"
      BY DEF MioTurns, Queue
    <3>2. \A i \in 1 .. Len(own.line) : own.line[i] \in Producers
      BY <1>1
    <3>3. \A i \in 1 .. Len(own.line) : prod'[own.line[i]].ctx # "absent"
      BY <2>4, <2>5, <3>1, <3>2
    <3> QED
      BY <3>1, <3>3 DEF Queue
  <2>7. HoldsPlace(prod', own.line, own.visited)
    <3>1. HoldsPlace(prod, own.line, own.visited)
      BY <2>2 DEF MioTurns, TurnsOver
    <3>2. \A h \in Producers : Waits(prod'[h]) => prod'[h] = prod[h]
      BY <2>4, <2>5 DEF Waits
    <3> QED
      BY <3>1, <3>2 DEF HoldsPlace
  <2>8. WithinReach(prod')
    <3>1. 0 * PerTick < Longest + PerTick
      BY Places
    <3> QED
      BY <2>4, <2>5, <3>1 DEF MioTurns, WithinReach
  <2>9. CreditsLast'
    <3>1. own.spent + 1 <= Share(budget.credits, Len(own.line) - own.visited)
      BY <1>6, <2>2 DEF quantum
    <3>2. prod'[own.line[1]].waited = 0
      BY <1>6, <2>2, <2>4, <2>5 DEF Offered
    <3>3. \/ budget.credits >= Len(own.line) - own.visited
          \/ budget.credits + own.visited >= PerTick
      BY <2>2 DEF MioTurns, CreditsLast
    <3> QED
      BY <1>6, <2>2, <2>3, <3>1, <3>2, <3>3 DEF CreditsLast
  <2> QED
    BY <2>2, <2>3, <2>6, <2>7, <2>8, <2>9 DEF MioTurns, TurnsOver
<1>8. CASE MioTurnOver
  <2>1. /\ Serving /\ stage' = stage
        /\ Live(Offered) => own.spent >= quantum \/ prod[Offered].due = 0
        /\ TurnOver(own.spent, Live(Offered) /\ own.spent >= quantum)
    BY <1>8 DEF MioTurnOver
  <2>2. PICK k, q : /\ q = [prod[Offered] EXCEPT !.failures = k]
                    /\ prod' = [prod EXCEPT ![Offered] = q]
    BY <1>8 DEF MioTurnOver
  <2>3. /\ q.ctx = prod[Offered].ctx /\ q.due = prod[Offered].due
        /\ q.waited = prod[Offered].waited /\ q.ending = prod[Offered].ending
    BY <1>1, <1>6, <2>1, <2>2 DEF Producer
  <2>4. ~Waits(q)
    <3> SUFFICES ASSUME Waits(q) PROVE FALSE
      OBVIOUS
    <3>1. Waits(prod[Offered]) /\ Live(Offered) /\ prod[Offered].waited # 0
      BY <2>3 DEF Waits, Live
    <3>2. prod[Offered].due # 0 /\ own.spent = 0
      BY <1>6, <2>1, <3>1
    <3> QED
      BY <1>6, <2>1, <3>1, <3>2
  <2>5. q.ctx # "absent"
    BY <1>6, <2>1, <2>3
  <2> QED
    BY <1>1, <1>6, <2>1, <2>2, <2>3, <2>4, <2>5, MioTurnMoves
<1>9. CASE MioEncodeFails
  <2>1. PICK p : p = [prod[Offered] EXCEPT !.failures = @ + 1, !.waited = 0]
    OBVIOUS
  <2>2. PICK over : over = (Offered \in Queries \/ p.failures >= MAX_CONSECUTIVE_ENCODE_ERRORS)
    OBVIOUS
  <2>3. PICK q : q = IF over THEN retire_service(p) ELSE p
    OBVIOUS
  <2>4. /\ Serving /\ stage' = stage /\ prod[Offered].ctx = "live"
        /\ prod' = [prod EXCEPT ![Offered] = q] /\ TurnOver(own.spent, ~over)
    BY <1>9, <2>1, <2>2, <2>3, Zenon DEF MioEncodeFails, Live
  <2>5. p \in Producer /\ p.waited = 0 /\ p.ctx = "live"
    <3>1. prod[Offered] \in Producer /\ prod[Offered].failures + 1 \in Nat
      BY <1>1, <1>6, <2>4 DEF Producer
    <3> QED
      BY <2>1, <2>4, <3>1 DEF Producer
  <2>6. q.waited = 0 /\ q.ctx # "absent" /\ ~Waits(q)
    <3>1. Patient(p, retire_service(p))
      BY <2>5, MioPatient
    <3> QED
      BY <2>3, <2>5, <3>1 DEF Patient, Waits
  <2> QED
    BY <1>1, <1>6, <2>4, <2>6, MioTurnMoves
<1>10. CASE MioUndeliverable
  <2>1. PICK p : p = Sent(prod[Offered], Offered, 0)
    OBVIOUS
  <2>2. PICK q : q = retire_service(p)
    OBVIOUS
  <2>3. /\ Serving /\ stage' = stage /\ Live(Offered) /\ prod[Offered].due > 0
        /\ own.spent < quantum
        /\ prod' = [prod EXCEPT ![Offered] = q] /\ TurnOver(own.spent + 1, FALSE)
    BY <1>10, <2>1, <2>2, Zenon DEF MioUndeliverable
  <2>4. p \in Producer /\ p.ctx = "live" /\ p.waited = 0
    <3>1. Sound(Offered, prod[Offered]) /\ prod[Offered].due # 0 /\ Offered \in Producers
          /\ prod[Offered] \in Producer
      BY <1>1, <1>2, <1>6, <2>3 DEF Producer
    <3>2. p \in Producer
      BY <2>1, <3>1, SentSound DEF Sound
    <3> QED
      BY <2>1, <2>3, <3>1, <3>2 DEF Sent, Live, Producer
  <2>5. q.waited = 0 /\ q.ctx # "absent" /\ ~Waits(q)
    <3>1. Patient(p, q)
      BY <2>2, <2>4, MioPatient
    <3> QED
      BY <2>4, <3>1 DEF Patient, Waits
  <2>6. own.spent + 1 \in Nat /\ own.spent + 1 <= quantum
    BY <1>6, <2>3
  <2> QED
    BY <1>1, <2>3, <2>5, <2>6, MioTurnMoves
<1>11. CASE MioPushes
  BY <1>11, MioPushKeepsTurns
<1>12. ASSUME NEW n \in Fanouts, MioGoodbyes(n) PROVE MioTurns'
  <2> DEFINE begun == [h \in Services |-> begin_service_withdrawal(prod[h])]
             sent == [h \in Services |-> IF begun[h].ready THEN Farewelled(begun[h]) ELSE begun[h]]
             done == {h \in Services : sent[h].ctx = "leaving" /\ sent[h].rounds = 0}
  <2>1. /\ stage = "goodbye" /\ stage' = "park"
        /\ own' = [own EXCEPT !.line = Without(@, done)]
        /\ prod' = [h \in Producers |->
              IF h \in Queries THEN prod[h] ELSE IF h \in done THEN Forgotten(sent[h])
              ELSE sent[h]]
    BY <1>12, Zenon DEF MioGoodbyes
  <2>2. own'.line = Without(own.line, done)
    BY <1>1, <2>1 DEF MioShape
  <2>3. ASSUME NEW h \in Services PROVE Patient(prod[h], sent[h]) /\ sent[h] \in Producer
    <3>1. PICK b, s : /\ b = begin_service_withdrawal(prod[h])
                      /\ s = IF b.ready THEN Farewelled(b) ELSE b
      OBVIOUS
    <3>2. sent[h] = s /\ h \in Producers
      BY <3>1 DEF Producers
    <3>3. Sound(h, prod[h]) /\ prod[h] \in Producer
      BY <1>1, <1>2, <2>1, <3>2
    <3>4. Sound(h, b) /\ Patient(prod[h], b)
      BY <3>1, <3>2, <3>3, WithdrawnSound, MioPatient DEF begin_service_withdrawal
    <3>5. b \in Producer /\ (b.ready => b.rounds # 0)
      BY <3>4 DEF Sound
    <3>6. Sound(h, s) /\ Patient(b, s)
      <4>1. b.ready => Sound(h, Farewelled(b))
        BY <3>2, <3>4, <3>5, FarewelledSound
      <4>2. Patient(b, b) /\ Patient(b, Farewelled(b))
        BY <3>5, MioPatient
      <4> QED
        BY <3>1, <3>4, <4>1, <4>2
    <3> QED
      BY <3>2, <3>4, <3>6, PatientOn DEF Sound
  <2>4. ASSUME NEW h \in done
        PROVE  Patient(prod[h], Forgotten(sent[h])) /\ ~Waits(Forgotten(sent[h])) /\ h \notin Queries
    <3>1. h \notin Queries /\ h \in Services
      BY DriverAssumption DEF Producers
    <3>2. PICK s \in Producer : s = sent[h] /\ Patient(prod[h], s)
      BY <2>3, <3>1
    <3>3. Patient(prod[h], Forgotten(s)) /\ ~Waits(Forgotten(s))
      BY <3>2, MioPatient, PatientOn
    <3> QED
      BY <3>1, <3>2, <3>3
  <2> HIDE DEF sent, done
  <2>5. ASSUME NEW h \in Producers
        PROVE  Patient(prod[h], prod'[h]) /\ (Waits(prod'[h]) => h \notin done)
    <3>1. h \in done => Patient(prod[h], prod'[h]) /\ ~Waits(prod'[h])
      BY <2>1, <2>4
    <3>2. h \notin done => Patient(prod[h], prod'[h])
      BY <1>1, <2>1, <2>3, MioPatient DEF Producers
    <3> QED
      BY <3>1, <3>2
  <2>6. stage # "tx" /\ stage' # "tx"
    BY <2>1
  <2> QED
    BY <1>1, <2>2, <2>5, <2>6, MioLineRests
<1> QED
  BY <1>3, <1>4, <1>5, <1>7, <1>8, <1>9, <1>10, <1>11, <1>12 DEF MioLoop

(* A step that leaves the line as it is changes no place in it.            *)
LEMMA MioTurnsQuiet ==
  ASSUME MioTurns, MioBusy, prod \in [Producers -> Producer],
         stage' = stage, budget' = budget, own' = own,
         prod' = prod \/ \E g \in Producers : prod' = [prod EXCEPT ![g].ready = TRUE]
  PROVE  MioTurns'
<1>1. \A h \in Producers : /\ prod'[h].ctx = prod[h].ctx /\ prod'[h].ending = prod[h].ending
                           /\ prod'[h].waited = prod[h].waited /\ prod'[h].due = prod[h].due
  <2>1. CASE prod' = prod
    BY <2>1
  <2>2. ASSUME NEW g \in Producers, prod' = [prod EXCEPT ![g].ready = TRUE]
        PROVE  \A h \in Producers :
                 /\ prod'[h].ctx = prod[h].ctx /\ prod'[h].ending = prod[h].ending
                 /\ prod'[h].waited = prod[h].waited /\ prod'[h].due = prod[h].due
    BY <2>2 DEF Producer
  <2> QED
    BY <2>1, <2>2
<1> QED
  <2>1. \A i \in 1 .. Len(own.line) : own.line[i] \in Producers
    BY DEF MioBusy
  <2>2. Queue(prod', own.line)
    BY <1>1, <2>1 DEF MioTurns, Queue
  <2>3. HoldsPlace(prod', own.line, TurnsOver)
    BY <1>1 DEF MioTurns, HoldsPlace, Waits
  <2>4. WithinReach(prod')
    BY <1>1 DEF MioTurns, WithinReach
  <2>5. CreditsLast'
    <3>1. stage = "tx" /\ Len(own.line) - own.visited # 0 => own.line[1] \in Producers
      BY DEF MioBusy
    <3> QED
      BY <1>1, <3>1 DEF MioTurns, CreditsLast
  <2>6. TurnsOver' = TurnsOver
    BY DEF TurnsOver
  <2> QED
    BY <2>2, <2>3, <2>4, <2>5, <2>6 DEF MioTurns

(***************************************************************************)
(* Nobody in mio's line waits for ever: in each tick the turns of a whole  *)
(* budget, or of the whole line, go before it, and no newcomer, departure  *)
(* or failure in between puts anybody in front of it.                      *)
(***************************************************************************)
THEOREM LineMovesOn == Spec => []LineComesRound
<1>1. Init => MioTurnsInv
  <2> SUFFICES ASSUME Init, driver = "mio" PROVE MioTurns
    BY DEF MioTurnsInv
  <2>1. stage = "park" /\ own.line = <<>> /\ \A h \in Producers : prod[h].waited = 0
    BY DEF Init, NewMio, NoProducer
  <2>2. Len(own.line) = 0 /\ 0 * PerTick < Longest + PerTick
    BY <2>1, Places
  <2> QED
    BY <2>1, <2>2 DEF MioTurns, Queue, HoldsPlace, Waits, WithinReach, CreditsLast
<1>2. DriverInv /\ BusyInv /\ MioTurnsInv /\ [Next]_drvVars => MioTurnsInv'
  <2> SUFFICES ASSUME DriverInv, BusyInv, MioTurnsInv, [Next]_drvVars, driver' = "mio"
               PROVE  MioTurns'
    BY DEF MioTurnsInv
  <2>1. driver = "mio" /\ MioBusy /\ MioTurns /\ prod \in [Producers -> Producer]
    BY SameDriver DEF BusyInv, MioTurnsInv, DriverInv, Common
  <2>2. CASE Loop \/ World \/ \E h \in Producers : Reads(h)
    <3>1. MioLoop \/ MioWorld \/ \E h \in Producers : MioReads(h)
      BY <2>1, <2>2 DEF Loop, World, Reads
    <3> QED
      BY <2>1, <3>1, MioTickKeepsTurns, MioCallsKeepTurns DEF MioWorld
  <2>3. CASE UNCHANGED drvVars
    BY <2>1, <2>3, MioTurnsQuiet DEF drvVars
  <2>4. CASE \E h \in Producers : RoundDue(h)
    BY <2>1, <2>4, MioTurnsQuiet DEF RoundDue
  <2> QED
    BY <2>2, <2>3, <2>4 DEF Next
<1>3. MioTurnsInv => LineComesRound
  BY DEF MioTurnsInv, MioTurns, WithinReach, LineComesRound, PerTick, Longest
<1>4. Init => BusyInv
  BY BusyInit
<1>5. DriverInv /\ BusyInv /\ [Next]_drvVars => BusyInv'
  BY BusyNext
<1> QED
  BY <1>1, <1>2, <1>3, <1>4, <1>5, DriversSound, PTL DEF Spec

-----------------------------------------------------------------------------
(* The reactor's ring comes round.                                         *)

(* Who has a place in the ring of its class.                               *)
There(p) == p.ctx \notin {"absent", "gone"}

(* Who walks in a class's ring, and in which place of the walk.            *)
Ring(C, P) == {h \in C : There(P[h])}

Rank(S, h) == Cardinality({g \in S : g <= h})

(* Who of a class is not registered yet, and who has left for good.        *)
Absent(C, P) == {h \in C : P[h].ctx = "absent"}

Gone(C, P) == {h \in C : P[h].ctx = "gone"}

(* How many of n slots come before the k-th in a walk from cursor c.       *)
Distance(n, c, k) == IF c % n < k THEN (k - 1) - (c % n) ELSE (n + (k - 1)) - (c % n)

(* ... and how many before h has its turn.                                 *)
Away(C, P, c, h) == Distance(Cardinality(Ring(C, P)), c, Rank(Ring(C, P), h))

(* How far a cursor points behind the end of the walk.                     *)
Beyond(n, c) == IF c <= n THEN 0 ELSE c - n

(***************************************************************************)
(* What h must still be able to wait for: four passes for each that may    *)
(* register ahead of it, and a round of the class for each slot the cursor *)
(* points behind the walk.                                                 *)
(***************************************************************************)
Reserve(C, P, c) ==
  4 * Cardinality(Absent(C, P)) + 2 * (Cardinality(C) * Beyond(Cardinality(Ring(C, P)), c))

(* What a class may wait: as much again for each of it that has left.      *)
Allowance(C, P) == 4 * (Cardinality(C) * (1 + Cardinality(Gone(C, P))))

(* Nobody is as many slots away as there are.                              *)
LEMMA DistanceFits ==
  ASSUME NEW n \in Nat \ {0}, NEW c \in Nat, NEW k \in 1 .. n
  PROVE  Distance(n, c, k) \in 0 .. n - 1
<1>1. PICK r \in 0 .. n - 1 : r = c % n
  BY Remainder
<1>2. CASE r < k
  <2>1. Distance(n, c, k) = (k - 1) - r
    BY <1>1, <1>2 DEF Distance
  <2> QED
    BY <1>2, <2>1
<1>3. CASE ~(r < k)
  <2>1. Distance(n, c, k) = (n + (k - 1)) - r
    BY <1>1, <1>3 DEF Distance
  <2> QED
    BY <1>3, <2>1
<1> QED
  BY <1>2, <1>3

(* The slot at the distance of a place is that place.                      *)
LEMMA SlotAtDistance ==
  ASSUME NEW n \in Nat \ {0}, NEW c \in Nat, NEW k \in 1 .. n
  PROVE  (((c % n) + Distance(n, c, k)) % n) + 1 = k
<1>1. PICK r \in 0 .. n - 1 : r = c % n
  BY Remainder
<1>2. PICK d : d = Distance(n, c, k)
  OBVIOUS
<1>3. PICK x \in 0 .. n - 1 : x + 1 = k
  <2>1. k - 1 \in 0 .. n - 1 /\ (k - 1) + 1 = k
    OBVIOUS
  <2> QED
    BY <2>1
<1>4. r + d = x \/ r + d = x + n
  <2>1. CASE r < k
    <3>1. d = (k - 1) - r
      BY <1>1, <1>2, <2>1 DEF Distance
    <3> QED
      BY <1>3, <3>1
  <2>2. CASE ~(r < k)
    <3>1. d = (n + (k - 1)) - r
      BY <1>1, <1>2, <2>2 DEF Distance
    <3> QED
      BY <1>3, <3>1
  <2> QED
    BY <2>1, <2>2
<1>5. x % n = x /\ (x + n) % n = x
  BY Remainder
<1>6. (r + d) % n = x
  BY <1>4, <1>5, Zenon
<1> QED
  BY <1>1, <1>2, <1>3, <1>6, Zenon

(* A walk from `at` comes by what one from c has x slots further on.       *)
MovesOn(n, c, at, x) ==
  /\ at \in 0 .. n
  /\ \A k \in 1 .. n : x <= Distance(n, c, k) => Distance(n, at, k) + x = Distance(n, c, k)

(* So does a walk from where another one was left.                         *)
LEMMA CursorMoves ==
  ASSUME NEW n \in Nat \ {0}, NEW c \in Nat, NEW v \in 0 .. n - 1, NEW b \in {0, 1},
         NEW at, at = (((c % n) + v) % n) + b
  PROVE  MovesOn(n, c, at, v + b)
<1>1. PICK r \in 0 .. n - 1 : r = c % n
  BY Remainder
<1>2. PICK x \in 0 .. n - 1 : x = (r + v) % n /\ (r + v = x \/ r + v = x + n)
  <2>1. CASE r + v < n
    <3>1. r + v \in 0 .. n - 1
      BY <2>1
    <3>2. PICK y \in 0 .. n - 1 : y = r + v
      BY <3>1
    <3>3. y % n = y
      BY Remainder
    <3> QED
      BY <3>2, <3>3
  <2>2. CASE ~(r + v < n)
    <3>1. (r + v) - n \in 0 .. n - 1
      BY <2>2
    <3>2. PICK y \in 0 .. n - 1 : y = (r + v) - n
      BY <3>1
    <3>3. (y + n) % n = y
      BY Remainder
    <3>4. y + n = r + v
      BY <3>2
    <3>5. y = (r + v) % n
      BY <3>3, <3>4, Zenon
    <3> QED
      BY <3>4, <3>5
  <2> QED
    BY <2>1, <2>2
<1>3. at = x + b
  BY <1>1, <1>2, Zenon
<1>4. at \in 0 .. n
  BY <1>3
<1>5. PICK s \in 0 .. n - 1 : s = at % n /\ (s = at \/ (at = n /\ s = 0))
  <2>1. CASE at = n
    <3>1. 0 \in 0 .. n - 1 /\ 0 + n = n
      OBVIOUS
    <3>2. n % n = 0
      BY <3>1, Remainder
    <3> QED
      BY <2>1, <3>1, <3>2
  <2>2. CASE at # n
    <3>1. at \in 0 .. n - 1
      BY <1>4, <2>2
    <3> QED
      BY <3>1, Remainder
  <2> QED
    BY <2>1, <2>2
<1>6. ASSUME NEW k \in 1 .. n, v + b <= Distance(n, c, k)
      PROVE  Distance(n, at, k) + (v + b) = Distance(n, c, k)
  <2>1. PICK d, e : d = Distance(n, c, k) /\ e = Distance(n, at, k)
    OBVIOUS
  <2>2. d = IF r < k THEN (k - 1) - r ELSE (n + (k - 1)) - r
    BY <1>1, <2>1 DEF Distance
  <2>3. e = IF s < k THEN (k - 1) - s ELSE (n + (k - 1)) - s
    BY <1>5, <2>1 DEF Distance
  <2>4. v + b <= d
    BY <1>6, <2>1
  <2>5. e + (v + b) = d
    BY <1>2, <1>3, <1>5, <2>2, <2>3, <2>4
  <2> QED
    BY <2>1, <2>5
<1> QED
  BY <1>4, <1>6 DEF MovesOn

(* One more place in the ring puts nobody more than two slots further off. *)
LEMMA PlaceJoins ==
  ASSUME NEW n \in Nat \ {0}, NEW c \in 0 .. n, NEW k \in 1 .. n, NEW j \in {k, k + 1}
  PROVE  Distance(n + 1, c, j) <= Distance(n, c, k) + 2
<1>1. PICK r \in 0 .. n - 1 : r = c % n /\ (r = c \/ (c = n /\ r = 0))
  <2>1. CASE c = n
    <3>1. 0 \in 0 .. n - 1 /\ 0 + n = n
      OBVIOUS
    <3>2. n % n = 0
      BY <3>1, Remainder
    <3> QED
      BY <2>1, <3>1, <3>2
  <2>2. CASE c # n
    <3>1. c \in 0 .. n - 1
      BY <2>2
    <3> QED
      BY <3>1, Remainder
  <2> QED
    BY <2>1, <2>2
<1>2. c % (n + 1) = c
  <2>1. PICK m \in Nat \ {0} : m = n + 1
    OBVIOUS
  <2>2. c \in 0 .. m - 1
    BY <2>1
  <2>3. c % m = c
    BY <2>2, Remainder
  <2> QED
    BY <2>1, <2>3
<1>3. PICK d, e : d = Distance(n, c, k) /\ e = Distance(n + 1, c, j)
  OBVIOUS
<1>4. d = IF r < k THEN (k - 1) - r ELSE (n + (k - 1)) - r
  BY <1>1, <1>3 DEF Distance
<1>5. e = IF c < j THEN (j - 1) - c ELSE ((n + 1) + (j - 1)) - c
  BY <1>2, <1>3 DEF Distance
<1>6. e <= d + 2
  BY <1>1, <1>4, <1>5
<1> QED
  BY <1>3, <1>6

(* A class has its members, those to come and those that are gone.         *)
LEMMA Census ==
  ASSUME NEW C \in SUBSET Producers, NEW P
  PROVE  /\ Cardinality(C) \in Nat /\ Cardinality(Ring(C, P)) \in Nat
         /\ Cardinality(Absent(C, P)) \in Nat /\ Cardinality(Gone(C, P)) \in Nat
         /\ Cardinality(Ring(C, P)) + Cardinality(Absent(C, P)) + Cardinality(Gone(C, P))
              = Cardinality(C)
         /\ IsFiniteSet(C) /\ Ring(C, P) \in SUBSET C /\ IsFiniteSet(Ring(C, P))
         /\ IsFiniteSet(Absent(C, P)) /\ IsFiniteSet(Gone(C, P))
         /\ \A h \in Ring(C, P) : Rank(Ring(C, P), h) \in 1 .. Cardinality(Ring(C, P))
<1>1. IsFiniteSet(C)
  BY DriverAssumption, FS_Subset
<1>2. PICK R, A, G : R = Ring(C, P) /\ A = Absent(C, P) /\ G = Gone(C, P)
  OBVIOUS
<1>3. R \in SUBSET C /\ A \in SUBSET C /\ G \in SUBSET C
  BY <1>2 DEF Ring, Absent, Gone
<1>4. IsFiniteSet(R) /\ IsFiniteSet(A) /\ IsFiniteSet(G)
  BY <1>1, <1>3, FS_Subset
<1>5. /\ Cardinality(C) \in Nat /\ Cardinality(R) \in Nat /\ Cardinality(A) \in Nat
      /\ Cardinality(G) \in Nat
  BY <1>1, <1>4, FS_CardinalityType
<1>6. R \cap A = {} /\ (R \cup A) \cap G = {} /\ (R \cup A) \cup G = C
  BY <1>2 DEF Ring, Absent, Gone, There
<1>7. IsFiniteSet(R \cup A) /\ Cardinality(R \cup A) = Cardinality(R) + Cardinality(A)
  <2>1. /\ IsFiniteSet(R \cup A)
        /\ Cardinality(R \cup A) = Cardinality(R) + Cardinality(A) - Cardinality(R \cap A)
    BY <1>4, FS_Union
  <2>2. Cardinality(R \cap A) = 0
    BY <1>6, FS_EmptySet
  <2> QED
    BY <1>5, <2>1, <2>2
<1>8. Cardinality((R \cup A) \cup G) = Cardinality(R \cup A) + Cardinality(G)
  <2>1. PICK U : U = R \cup A
    OBVIOUS
  <2>2. U \cap G = {} /\ IsFiniteSet(U) /\ Cardinality(U) \in Nat
    BY <1>6, <1>7, <2>1, FS_CardinalityType
  <2>3. Cardinality(U \cup G) = Cardinality(U) + Cardinality(G) - Cardinality(U \cap G)
    BY <1>4, <2>2, FS_Union
  <2>4. Cardinality(U \cap G) = 0
    BY <2>2, FS_EmptySet
  <2> QED
    BY <1>5, <2>1, <2>2, <2>3, <2>4
<1>9. Cardinality(R) + Cardinality(A) + Cardinality(G) = Cardinality(C)
  BY <1>6, <1>7, <1>8, Zenon
<1>10. ASSUME NEW h \in R PROVE Rank(R, h) \in 1 .. Cardinality(R)
  <2>1. PICK F : F = {g \in R : g <= h}
    OBVIOUS
  <2>2. h \in Nat
    BY <1>3, DriverAssumption
  <2>3. F \in SUBSET R /\ h \in F
    BY <2>1, <2>2
  <2>4. IsFiniteSet(F) /\ Cardinality(F) <= Cardinality(R)
    BY <1>4, <2>3, FS_Subset
  <2>5. Cardinality(F) \in Nat /\ Cardinality(F) # 0
    BY <2>3, <2>4, FS_CardinalityType, FS_EmptySet
  <2>6. Rank(R, h) = Cardinality(F)
    BY <2>1 DEF Rank
  <2> QED
    BY <1>5, <2>4, <2>5, <2>6
<1> QED
  BY <1>1, <1>2, <1>3, <1>4, <1>5, <1>9, <1>10

(* A producer that stays in the ring, or out of it, or leaves for good.    *)
Stays(p, q) ==
  \/ q.ctx = "gone"
  \/ (There(p) <=> There(q)) /\ (p.ctx = "absent" <=> q.ctx = "absent")

(* Whoever leaves is counted for it.                                       *)
LEMMA Leavers ==
  ASSUME NEW C \in SUBSET Producers, NEW P, NEW Q, \A h \in C : Stays(P[h], Q[h])
  PROVE  /\ Ring(C, Q) \in SUBSET Ring(C, P)
         /\ Cardinality(Absent(C, Q)) <= Cardinality(Absent(C, P))
         /\ Cardinality(Gone(C, P)) <= Cardinality(Gone(C, Q))
         /\ Cardinality(Gone(C, P)) = Cardinality(Gone(C, Q)) =>
              Ring(C, P) = Ring(C, Q) /\ Absent(C, P) = Absent(C, Q)
<1>1. Absent(C, Q) \in SUBSET Absent(C, P)
  BY DEF Stays, Absent
<1>2. Gone(C, P) \in SUBSET Gone(C, Q)
  BY DEF Stays, Gone, There
<1>3. Ring(C, Q) \in SUBSET Ring(C, P)
  BY DEF Stays, Ring, There
<1>4. ASSUME Gone(C, P) = Gone(C, Q)
      PROVE  Ring(C, P) = Ring(C, Q) /\ Absent(C, P) = Absent(C, Q)
  <2>1. \A h \in C : P[h].ctx = "gone" <=> Q[h].ctx = "gone"
    BY <1>4 DEF Gone
  <2> QED
    BY <2>1 DEF Ring, Absent, There, Stays
<1> QED
  BY <1>1, <1>2, <1>3, <1>4, Census, FS_Subset

(* The ring when one has joined it, and the places of the others.          *)
OneMore(C, P, Q) ==
  /\ Cardinality(Ring(C, Q)) = Cardinality(Ring(C, P)) + 1
  /\ Cardinality(Absent(C, Q)) + 1 = Cardinality(Absent(C, P))
  /\ Cardinality(Gone(C, Q)) = Cardinality(Gone(C, P))
  /\ \A h \in Ring(C, P) :
       Rank(Ring(C, Q), h) \in {Rank(Ring(C, P), h), Rank(Ring(C, P), h) + 1}

(* Whoever is registered joins the ring, and nobody else does.             *)
LEMMA Joiner ==
  ASSUME NEW C \in SUBSET Producers, NEW P, NEW Q, NEW g \in C, P[g].ctx = "absent", There(Q[g]),
         \A h \in C : h # g => Q[h].ctx = P[h].ctx
  PROVE  OneMore(C, P, Q)
<1>1. Ring(C, Q) = Ring(C, P) \cup {g} /\ g \notin Ring(C, P)
  BY DEF Ring, There
<1>2. Absent(C, P) = Absent(C, Q) \cup {g} /\ g \notin Absent(C, Q)
  BY DEF Absent, There
<1>3. Gone(C, Q) = Gone(C, P)
  BY DEF Gone, There
<1>4. PICK R, S : R = Ring(C, P) /\ S = Ring(C, Q)
  OBVIOUS
<1>5. R \in SUBSET Nat /\ S = R \cup {g} /\ g \notin R /\ IsFiniteSet(R) /\ g \in Nat
  BY <1>1, <1>4, Census, DriverAssumption
<1>6. ASSUME NEW h \in R PROVE Rank(S, h) \in {Rank(R, h), Rank(R, h) + 1}
  <2>1. PICK F, G : F = {x \in R : x <= h} /\ G = {x \in S : x <= h}
    OBVIOUS
  <2>2. F \in SUBSET R /\ (G = F \/ G = F \cup {g}) /\ g \notin F
    BY <1>5, <2>1
  <2>3. IsFiniteSet(F)
    BY <1>5, <2>2, FS_Subset
  <2>4. Cardinality(F \cup {g}) = Cardinality(F) + 1
    BY <2>2, <2>3, FS_AddElement
  <2>5. Cardinality(G) \in {Cardinality(F), Cardinality(F) + 1}
    BY <2>2, <2>4
  <2> QED
    BY <2>1, <2>5 DEF Rank
<1>7. Cardinality(S) = Cardinality(R) + 1
  BY <1>5, FS_AddElement
<1>8. Cardinality(Absent(C, P)) = Cardinality(Absent(C, Q)) + 1
  BY <1>2, Census, FS_AddElement
<1> QED
  BY <1>1, <1>3, <1>4, <1>6, <1>7, <1>8 DEF OneMore

(* Products of what a class counts.                                        *)
LEMMA Products ==
  ASSUME NEW N \in Nat
  PROVE  /\ \A x \in Nat : N * x \in Nat /\ N * (1 + x) = N + N * x /\ N * (x + 1) = N + N * x
         /\ \A x, y \in Nat : N * (x + y) = N * x + N * y /\ (x <= y => N * x <= N * y)
         /\ N * 0 = 0 /\ N * 1 = N
<1>1. ASSUME NEW x \in Nat
      PROVE N * x \in Nat /\ N * (1 + x) = N + N * x /\ N * (x + 1) = N + N * x
  OBVIOUS
<1>2. ASSUME NEW x \in Nat, NEW y \in Nat PROVE N * (x + y) = N * x + N * y
  OBVIOUS
<1>3. ASSUME NEW x \in Nat, NEW y \in Nat, x <= y PROVE N * x <= N * y
  <2>1. PICK z \in Nat : y = x + z
    <3>1. y - x \in Nat /\ y = x + (y - x)
      BY <1>3
    <3> QED
      BY <3>1
  <2>2. N * y = N * x + N * z
    BY <1>2, <2>1
  <2> QED
    BY <1>1, <2>2
<1> QED
  BY <1>1, <1>2, <1>3

(* Whoever leaves pays with another round for where it leaves the cursor.  *)
LEMMA LeaveNumbers ==
  ASSUME NEW N \in Nat, NEW T \in Nat, NEW A \in Nat, NEW G \in Nat,
         NEW U \in Nat, NEW B \in Nat, NEW H \in Nat, NEW c \in Nat,
         NEW d \in Nat, NEW e \in Nat, NEW m \in Nat,
         T + A + G = N, U + B + H = N, U <= T, B <= A, G < H, e + 1 <= N,
         m + 2 * d + (4 * A + 2 * (N * Beyond(T, c))) <= 4 * (N * (1 + G))
  PROVE  m + 2 * e + (4 * B + 2 * (N * Beyond(U, c))) <= 4 * (N * (1 + H))
<1>1. PICK j \in Nat : H = G + j /\ j # 0
  <2>1. H - G \in Nat /\ H = G + (H - G) /\ H - G # 0
    OBVIOUS
  <2> QED
    BY <2>1
<1>2. PICK x \in Nat, y \in Nat : x = Beyond(T, c) /\ y = Beyond(U, c) /\ y <= x + j
  <2>1. Beyond(T, c) \in Nat /\ Beyond(U, c) \in Nat
    BY DEF Beyond
  <2>2. T <= U + j
    BY <1>1
  <2>3. Beyond(U, c) <= Beyond(T, c) + j
    BY <2>2 DEF Beyond
  <2> QED
    BY <2>1, <2>3
<1>3. PICK p \in Nat, q \in Nat, r \in Nat, s \in Nat, t \in Nat :
        /\ p = N * x /\ q = N * y /\ r = N * j /\ s = N * (1 + G) /\ t = N * (1 + H)
        /\ q <= p + r /\ t = s + r /\ N <= r
  <2>1. N * y <= N * (x + j) /\ N * (x + j) = N * x + N * j
    <3>1. x + j \in Nat
      OBVIOUS
    <3> QED
      BY <1>2, <3>1, Products
  <2>2. N * (1 + H) = N * (1 + G) + N * j
    <3>1. 1 + G \in Nat /\ 1 + H = (1 + G) + j
      BY <1>1
    <3> QED
      BY <3>1, Products
  <2>3. N <= N * j
    <3>1. 1 <= j
      BY <1>1
    <3>2. N * 1 <= N * j /\ N * 1 = N
      BY <3>1, Products
    <3> QED
      BY <3>2
  <2>4. N * x \in Nat /\ N * y \in Nat /\ N * j \in Nat
    BY Products
  <2>5. N * (1 + G) \in Nat /\ N * (1 + H) \in Nat
    <3>1. 1 + G \in Nat /\ 1 + H \in Nat
      OBVIOUS
    <3> QED
      BY <3>1, Products
  <2> QED
    BY <2>1, <2>2, <2>3, <2>4, <2>5
<1>4. m + 2 * d + (4 * A + 2 * p) <= 4 * s
  BY <1>2, <1>3, Zenon
<1>5. m + 2 * e + (4 * B + 2 * q) <= 4 * t
  BY <1>3, <1>4
<1> QED
  BY <1>2, <1>3, <1>5, Zenon

(* Whoever joins was reckoned with.                                        *)
LEMMA JoinNumbers ==
  ASSUME NEW N \in Nat, NEW T \in Nat, NEW A \in Nat, NEW G \in Nat, NEW B \in Nat,
         NEW c \in Nat, NEW d \in Nat, NEW e \in Nat, NEW m \in Nat,
         B + 1 = A, e + 1 <= N, c <= T => e <= d + 2,
         m + 2 * d + (4 * A + 2 * (N * Beyond(T, c))) <= 4 * (N * (1 + G))
  PROVE  m + 2 * e + (4 * B + 2 * (N * Beyond(T + 1, c))) <= 4 * (N * (1 + G))
<1>1. PICK s \in Nat : s = N * (1 + G)
  <2>1. 1 + G \in Nat
    OBVIOUS
  <2> QED
    BY <2>1, Products
<1>2. CASE c <= T
  <2>1. Beyond(T, c) = 0 /\ Beyond(T + 1, c) = 0
    BY <1>2 DEF Beyond
  <2>2. m + 2 * d + (4 * A + 2 * 0) <= 4 * s
    BY <1>1, <2>1, Products, Zenon
  <2>3. m + 2 * e + (4 * B + 2 * 0) <= 4 * s
    BY <1>2, <2>2
  <2>4. N * Beyond(T + 1, c) = 0
    BY <2>1, Products
  <2>5. m + 2 * e + (4 * B + 2 * (N * Beyond(T + 1, c))) <= 4 * s
    BY <2>3, <2>4, Zenon
  <2> QED
    BY <1>1, <2>5, Zenon
<1>3. CASE ~(c <= T)
  <2>1. PICK x \in Nat : Beyond(T, c) = x + 1 /\ Beyond(T + 1, c) = x
    <3>1. c - (T + 1) \in Nat /\ c - T = (c - (T + 1)) + 1
      BY <1>3
    <3>2. Beyond(T, c) = c - T
      BY <1>3 DEF Beyond
    <3>3. Beyond(T + 1, c) = c - (T + 1)
      BY <1>3 DEF Beyond
    <3> QED
      BY <3>1, <3>2, <3>3
  <2>2. PICK p \in Nat, q \in Nat : p = N * (x + 1) /\ q = N * x /\ p = N + q
    <3>1. x + 1 \in Nat
      OBVIOUS
    <3> QED
      BY <3>1, Products
  <2>3. m + 2 * d + (4 * A + 2 * p) <= 4 * s
    BY <1>1, <2>1, <2>2, Zenon
  <2>4. m + 2 * e + (4 * B + 2 * q) <= 4 * s
    BY <2>2, <2>3
  <2> QED
    BY <1>1, <2>1, <2>2, <2>4, Zenon
<1> QED
  BY <1>2, <1>3

(* Who has not waited yet has a whole allowance before it.                 *)
LEMMA FreshNumbers ==
  ASSUME NEW N \in Nat, NEW T \in Nat, NEW A \in Nat, NEW G \in Nat, NEW c \in Nat,
         NEW d \in Nat, NEW m \in 0 .. 2, T + A + G = N, d + 1 <= T, c <= T + G
  PROVE  m + 2 * d + (4 * A + 2 * (N * Beyond(T, c))) <= 4 * (N * (1 + G))
<1>1. PICK x \in Nat : x = Beyond(T, c) /\ x <= G
  <2>1. Beyond(T, c) \in Nat /\ Beyond(T, c) <= G
    BY DEF Beyond
  <2> QED
    BY <2>1
<1>2. PICK p \in Nat, q \in Nat, s \in Nat :
        p = N * x /\ q = N * G /\ s = N * (1 + G) /\ p <= q /\ s = N + q
  <2>1. 1 + G \in Nat
    OBVIOUS
  <2> QED
    BY <1>1, <2>1, Products
<1>3. m + 2 * d + (4 * A + 2 * p) <= 4 * s
  BY <1>2
<1> QED
  BY <1>1, <1>2, <1>3, Zenon

(* A producer that has been passed over while its caller waits.            *)
Eager(p) == p.ctx = "live" /\ p.open /\ ~p.ending /\ p.waited # 0

(***************************************************************************)
(* Nobody of a class has waited longer than its allowance, and whoever     *)
(* waits has enough of it left for n more passes, for two passes for each  *)
(* slot the walk comes by before its own, and for what may still join.     *)
(***************************************************************************)
ClassWaits(P, C, c, n) ==
  /\ c <= Cardinality(Ring(C, P)) + Cardinality(Gone(C, P))
  /\ \A h \in C : P[h].waited <= Allowance(C, P)
  /\ \A h \in C : Eager(P[h]) =>
       /\ P[h].due # 0
       /\ P[h].waited + n + 2 * Away(C, P, c, h) + Reserve(C, P, c) <= Allowance(C, P)

(* What leaves a producer's wait as it is, or ends it.                     *)
Settles(p, q) ==
  /\ q.waited <= p.waited
  /\ Eager(q) => Eager(p) /\ q.waited = p.waited /\ (p.due # 0 => q.due # 0)

(* The numbers that ClassWaits is about.                                   *)
Counted(C, P, c, N, T, A, G) ==
  /\ N \in Nat /\ N = Cardinality(C) /\ T = Cardinality(Ring(C, P))
  /\ A = Cardinality(Absent(C, P)) /\ G = Cardinality(Gone(C, P)) /\ T + A + G = N
  /\ Reserve(C, P, c) = 4 * A + 2 * (N * Beyond(T, c))
  /\ Allowance(C, P) = 4 * (N * (1 + G))
  /\ \A h \in C : There(P[h]) => \E d \in Nat : d = Away(C, P, c, h) /\ d + 1 <= T /\ d + 1 <= N

(* The numbers of a class are there for any cursor.                        *)
LEMMA RingNumbers ==
  ASSUME NEW C \in SUBSET Producers, NEW P, NEW c \in Nat, NEW N, N = Cardinality(C)
  PROVE  \E T, A, G \in Nat : Counted(C, P, c, N, T, A, G)
<1>1. PICK T, A, G \in Nat :
        /\ T = Cardinality(Ring(C, P)) /\ A = Cardinality(Absent(C, P))
        /\ G = Cardinality(Gone(C, P)) /\ T + A + G = N /\ N \in Nat
  BY Census
<1>2. /\ Reserve(C, P, c) = 4 * A + 2 * (N * Beyond(T, c))
      /\ Allowance(C, P) = 4 * (N * (1 + G))
  BY <1>1 DEF Reserve, Allowance
<1>3. ASSUME NEW h \in C, There(P[h])
      PROVE  \E d \in Nat : d = Away(C, P, c, h) /\ d + 1 <= T /\ d + 1 <= N
  <2>1. h \in Ring(C, P)
    BY <1>3 DEF Ring
  <2>2. PICK k \in 1 .. T : k = Rank(Ring(C, P), h)
    BY <1>1, <2>1, Census
  <2>3. T \in Nat \ {0}
    BY <2>2
  <2>4. PICK d \in 0 .. T - 1 : d = Distance(T, c, k)
    BY <2>2, <2>3, DistanceFits
  <2>5. d = Away(C, P, c, h)
    BY <1>1, <2>2, <2>4 DEF Away
  <2>6. d \in Nat /\ d + 1 <= T /\ d + 1 <= N
    BY <1>1, <2>3
  <2> QED
    BY <2>5, <2>6
<1>4. Counted(C, P, c, N, T, A, G)
  BY <1>1, <1>2, <1>3 DEF Counted
<1> QED
  BY <1>4

(* Whoever has not waited yet has an allowance for all that may come.      *)
LEMMA RingFresh ==
  ASSUME NEW C \in SUBSET Producers, NEW P, NEW c \in Nat,
         c <= Cardinality(Ring(C, P)) + Cardinality(Gone(C, P)),
         NEW h \in C, There(P[h]), NEW m \in 0 .. 2
  PROVE  m + 2 * Away(C, P, c, h) + Reserve(C, P, c) <= Allowance(C, P)
<1>1. PICK N : N = Cardinality(C)
  OBVIOUS
<1>2. PICK T, A, G \in Nat : Counted(C, P, c, N, T, A, G)
  BY <1>1, RingNumbers
<1>3. PICK d \in Nat : d = Away(C, P, c, h) /\ d + 1 <= T
  BY <1>2 DEF Counted
<1>4. c <= T + G /\ T + A + G = N /\ N \in Nat
  BY <1>2 DEF Counted
<1>5. m + 2 * d + (4 * A + 2 * (N * Beyond(T, c))) <= 4 * (N * (1 + G))
  BY <1>3, <1>4, FreshNumbers
<1> QED
  BY <1>2, <1>3, <1>5, Zenon DEF Counted

(* The allowance of a class with a member is at least one pass.            *)
LEMMA AllowanceFits ==
  ASSUME NEW C \in SUBSET Producers, NEW P
  PROVE  Allowance(C, P) \in Nat /\ (C # {} => 1 <= Allowance(C, P))
<1>1. PICK N, G : /\ N = Cardinality(C) /\ G = Cardinality(Gone(C, P)) /\ N \in Nat /\ G \in Nat
                  /\ (C # {} => N # 0)
  BY Census, FS_EmptySet
<1>2. PICK s \in Nat : s = N * (1 + G) /\ N <= s
  <2>1. 1 + G \in Nat /\ N * G \in Nat /\ N * (1 + G) = N + N * G
    BY <1>1, Products
  <2>2. N * (1 + G) \in Nat /\ N <= N * (1 + G)
    BY <1>1, <2>1
  <2> QED
    BY <2>2
<1>3. Allowance(C, P) = 4 * s
  BY <1>1, <1>2 DEF Allowance
<1> QED
  BY <1>1, <1>2, <1>3

(* A wait is paid for however the class changes.                           *)
LEMMA ClassLeaves ==
  ASSUME NEW C \in SUBSET Producers, NEW P \in [Producers -> Producer],
         NEW Q \in [Producers -> Producer], NEW c \in Nat, NEW n \in Nat, ClassWaits(P, C, c, n),
         \A h \in C : Stays(P[h], Q[h]) /\ Settles(P[h], Q[h])
  PROVE  ClassWaits(Q, C, c, n)
<1>1. PICK N : N = Cardinality(C)
  OBVIOUS
<1>2. PICK T, A, G \in Nat : Counted(C, P, c, N, T, A, G)
  BY <1>1, RingNumbers
<1>3. PICK U, B, H \in Nat : Counted(C, Q, c, N, U, B, H)
  BY <1>1, RingNumbers
<1>4. /\ Ring(C, Q) \in SUBSET Ring(C, P) /\ B <= A /\ G <= H
      /\ G = H => Ring(C, P) = Ring(C, Q) /\ Absent(C, P) = Absent(C, Q)
  BY <1>2, <1>3, Leavers DEF Counted
<1>5. U <= T
  BY <1>2, <1>3, <1>4, Census, FS_Subset DEF Counted
<1>6. c <= U + H
  BY <1>2, <1>3, <1>4, <1>5 DEF Counted, ClassWaits
<1>7. Allowance(C, P) <= Allowance(C, Q)
  <2>1. PICK s \in Nat, t \in Nat : s = N * (1 + G) /\ t = N * (1 + H) /\ s <= t
    <3>1. 1 + G \in Nat /\ 1 + H \in Nat /\ 1 + G <= 1 + H
      BY <1>4
    <3>2. N \in Nat
      BY <1>2 DEF Counted
    <3> QED
      BY <3>1, <3>2, Products
  <2>2. 4 * s <= 4 * t
    BY <2>1
  <2> QED
    BY <1>2, <1>3, <2>1, <2>2, Zenon DEF Counted
<1>8. ASSUME NEW h \in C PROVE Q[h].waited <= Allowance(C, Q)
  <2>1. P[h] \in Producer /\ Q[h] \in Producer
    OBVIOUS
  <2>2. Q[h].waited <= P[h].waited /\ P[h].waited <= Allowance(C, P)
    BY DEF Settles, ClassWaits
  <2>3. /\ Q[h].waited \in Nat /\ P[h].waited \in Nat
        /\ Allowance(C, P) \in Nat /\ Allowance(C, Q) \in Nat
    BY <2>1, AllowanceFits DEF Producer
  <2> QED
    BY <1>7, <2>2, <2>3
<1>9. ASSUME NEW h \in C, Eager(Q[h])
      PROVE  /\ Q[h].due # 0
             /\ Q[h].waited + n + 2 * Away(C, Q, c, h) + Reserve(C, Q, c) <= Allowance(C, Q)
  <2>1. P[h] \in Producer /\ Q[h] \in Producer
    OBVIOUS
  <2>2. Eager(P[h]) /\ Q[h].waited = P[h].waited /\ Q[h].due # 0
    BY <1>9 DEF Settles, ClassWaits
  <2>3. There(P[h]) /\ There(Q[h])
    BY <1>9, <2>2 DEF Eager, There
  <2>4. PICK d \in Nat : d = Away(C, P, c, h) /\ d + 1 <= N
    BY <1>2, <2>3 DEF Counted
  <2>5. PICK e \in Nat : e = Away(C, Q, c, h) /\ e + 1 <= N
    BY <1>3, <2>3 DEF Counted
  <2>6. PICK m \in Nat : m = P[h].waited + n
    BY <2>1 DEF Producer
  <2>7. m + 2 * d + Reserve(C, P, c) <= Allowance(C, P)
    BY <2>2, <2>4, <2>6 DEF ClassWaits
  <2>8. CASE G = H
    <3>1. d = e /\ Reserve(C, P, c) = Reserve(C, Q, c)
      BY <1>4, <2>4, <2>5, <2>8 DEF Away, Reserve
    <3>2. Allowance(C, P) = Allowance(C, Q)
      BY <1>2, <1>3, <2>8 DEF Counted
    <3> QED
      BY <2>2, <2>4, <2>5, <2>6, <2>7, <3>1, <3>2
  <2>9. CASE G # H
    <3>1. G < H
      BY <1>4, <2>9
    <3>2. m + 2 * d + (4 * A + 2 * (N * Beyond(T, c))) <= 4 * (N * (1 + G))
      BY <1>2, <2>7, Zenon DEF Counted
    <3>3. m + 2 * e + (4 * B + 2 * (N * Beyond(U, c))) <= 4 * (N * (1 + H))
      <4>1. T + A + G = N /\ U + B + H = N /\ N \in Nat
        BY <1>2, <1>3 DEF Counted
      <4> QED
        BY <1>4, <1>5, <2>5, <3>1, <3>2, <4>1, LeaveNumbers
    <3>4. m + 2 * e + Reserve(C, Q, c) <= Allowance(C, Q)
      BY <1>3, <3>3, Zenon DEF Counted
    <3> QED
      BY <2>2, <2>5, <2>6, <3>4
  <2> QED
    BY <2>8, <2>9
<1> QED
  BY <1>3, <1>6, <1>8, <1>9 DEF Counted, ClassWaits

(* So is it when one joins the class.                                      *)
LEMMA ClassJoined ==
  ASSUME NEW C \in SUBSET Producers, NEW P \in [Producers -> Producer],
         NEW Q \in [Producers -> Producer], NEW c \in Nat, NEW n \in Nat, ClassWaits(P, C, c, n),
         NEW g \in C, P[g].ctx = "absent", There(Q[g]), Q[g].waited = 0,
         \A h \in C : h # g => Q[h] = P[h]
  PROVE  ClassWaits(Q, C, c, n)
<1>1. PICK N : N = Cardinality(C)
  OBVIOUS
<1>2. PICK T, A, G \in Nat : Counted(C, P, c, N, T, A, G)
  BY <1>1, RingNumbers
<1>3. PICK U, B, H \in Nat : Counted(C, Q, c, N, U, B, H)
  BY <1>1, RingNumbers
<1>4. /\ U = T + 1 /\ B + 1 = A /\ G = H
      /\ \A h \in Ring(C, P) :
           Rank(Ring(C, Q), h) \in {Rank(Ring(C, P), h), Rank(Ring(C, P), h) + 1}
  <2>1. \A h \in C : h # g => Q[h].ctx = P[h].ctx
    OBVIOUS
  <2>2. OneMore(C, P, Q)
    BY <2>1, Joiner
  <2> QED
    BY <1>2, <1>3, <2>2 DEF Counted, OneMore
<1>5. Allowance(C, P) = Allowance(C, Q)
  BY <1>2, <1>3, <1>4 DEF Counted
<1>6. c <= U + H
  BY <1>2, <1>3, <1>4 DEF Counted, ClassWaits
<1>7. ASSUME NEW h \in C PROVE Q[h].waited <= Allowance(C, Q)
  <2>1. P[h].waited <= Allowance(C, P) /\ Allowance(C, P) \in Nat
    BY AllowanceFits DEF ClassWaits
  <2>2. CASE h = g
    BY <1>5, <2>1, <2>2
  <2>3. CASE h # g
    BY <1>5, <2>1, <2>3
  <2> QED
    BY <2>2, <2>3
<1>8. ASSUME NEW h \in C, Eager(Q[h])
      PROVE  /\ Q[h].due # 0
             /\ Q[h].waited + n + 2 * Away(C, Q, c, h) + Reserve(C, Q, c) <= Allowance(C, Q)
  <2>1. h # g /\ Q[h] = P[h] /\ P[h] \in Producer
    BY <1>8 DEF Eager
  <2>2. There(P[h]) /\ There(Q[h]) /\ Eager(P[h])
    BY <1>8, <2>1 DEF Eager, There
  <2>3. PICK d \in Nat : d = Away(C, P, c, h) /\ d + 1 <= T
    BY <1>2, <2>2 DEF Counted
  <2>4. PICK e \in Nat : e = Away(C, Q, c, h) /\ e + 1 <= N
    BY <1>3, <2>2 DEF Counted
  <2>5. PICK m \in Nat : m = P[h].waited + n
    BY <2>1 DEF Producer
  <2>6. P[h].due # 0 /\ m + 2 * d + Reserve(C, P, c) <= Allowance(C, P)
    BY <2>2, <2>3, <2>5 DEF ClassWaits
  <2>7. m + 2 * d + (4 * A + 2 * (N * Beyond(T, c))) <= 4 * (N * (1 + G))
    BY <1>2, <2>6, Zenon DEF Counted
  <2>8. c <= T => e <= d + 2
    <3> SUFFICES ASSUME c <= T PROVE e <= d + 2
      OBVIOUS
    <3>1. h \in Ring(C, P)
      BY <2>2 DEF Ring
    <3>2. PICK k \in 1 .. T : k = Rank(Ring(C, P), h)
      BY <1>2, <3>1, Census DEF Counted
    <3>3. PICK j \in {k, k + 1} : j = Rank(Ring(C, Q), h)
      BY <1>4, <3>1, <3>2
    <3>4. T \in Nat \ {0} /\ c \in 0 .. T
      BY <3>2
    <3>5. Distance(T + 1, c, j) <= Distance(T, c, k) + 2
      BY <3>4, PlaceJoins
    <3>6. d = Distance(T, c, k) /\ e = Distance(T + 1, c, j)
      BY <1>2, <1>3, <1>4, <2>3, <2>4, <3>2, <3>3 DEF Counted, Away
    <3> QED
      BY <3>5, <3>6
  <2>9. m + 2 * e + (4 * B + 2 * (N * Beyond(T + 1, c))) <= 4 * (N * (1 + G))
    <3>1. N \in Nat
      BY <1>2 DEF Counted
    <3> QED
      BY <1>4, <2>4, <2>7, <2>8, <3>1, JoinNumbers
  <2>10. m + 2 * e + Reserve(C, Q, c) <= Allowance(C, Q)
    BY <1>3, <1>4, <2>9, Zenon DEF Counted
  <2> QED
    BY <2>1, <2>4, <2>5, <2>6, <2>10
<1> QED
  BY <1>3, <1>6, <1>7, <1>8 DEF Counted, ClassWaits

(* The numbers that a wait is weighed with are natural.                    *)
LEMMA Weights ==
  ASSUME NEW C \in SUBSET Producers, NEW P, NEW c \in Nat
  PROVE  /\ Reserve(C, P, c) \in Nat /\ Allowance(C, P) \in Nat
         /\ \A h \in C : There(P[h]) => Away(C, P, c, h) \in Nat
<1>1. PICK N : N = Cardinality(C)
  OBVIOUS
<1>2. PICK T, A, G \in Nat : Counted(C, P, c, N, T, A, G)
  BY <1>1, RingNumbers
<1>3. PICK x \in Nat : x = Beyond(T, c)
  <2>1. Beyond(T, c) \in Nat
    BY DEF Beyond
  <2> QED
    BY <2>1
<1>4. N \in Nat /\ Reserve(C, P, c) = 4 * A + 2 * (N * Beyond(T, c))
  BY <1>2 DEF Counted
<1>5. PICK p \in Nat : p = N * x
  BY <1>4, Products
<1>6. Reserve(C, P, c) = 4 * A + 2 * p
  BY <1>3, <1>4, <1>5, Zenon
<1>7. Reserve(C, P, c) \in Nat
  BY <1>6
<1>8. \A h \in C : There(P[h]) => Away(C, P, c, h) \in Nat
  BY <1>2 DEF Counted
<1> QED
  BY <1>7, <1>8, AllowanceFits

(* Nothing but who is in it tells one ring from another.                   *)
LEMMA SameRing ==
  ASSUME NEW C \in SUBSET Producers, NEW P, NEW Q, \A h \in C : Q[h].ctx = P[h].ctx
  PROVE  /\ Ring(C, Q) = Ring(C, P) /\ Gone(C, Q) = Gone(C, P) /\ Allowance(C, Q) = Allowance(C, P)
         /\ \A c : Reserve(C, Q, c) = Reserve(C, P, c)
         /\ \A c, h : Away(C, Q, c, h) = Away(C, P, c, h)
<1>1. Ring(C, Q) = Ring(C, P) /\ Absent(C, Q) = Absent(C, P) /\ Gone(C, Q) = Gone(C, P)
  BY DEF Ring, Absent, Gone, There
<1> QED
  BY <1>1 DEF Allowance, Reserve, Away

(* Fewer passes are paid for sooner.                                       *)
LEMMA ClassRelaxes ==
  ASSUME NEW C \in SUBSET Producers, NEW P \in [Producers -> Producer], NEW c \in Nat,
         NEW n \in Nat, NEW m \in Nat, m <= n, ClassWaits(P, C, c, n)
  PROVE  ClassWaits(P, C, c, m)
<1>1. ASSUME NEW h \in C, Eager(P[h])
      PROVE  P[h].waited + m + 2 * Away(C, P, c, h) + Reserve(C, P, c) <= Allowance(C, P)
  <2>1. There(P[h]) /\ P[h].waited \in Nat
    <3>1. P[h] \in Producer
      OBVIOUS
    <3> QED
      BY <1>1, <3>1 DEF Eager, There, Producer
  <2>2. PICK a \in Nat, r \in Nat, w \in Nat, l \in Nat :
          /\ a = Away(C, P, c, h) /\ r = Reserve(C, P, c) /\ w = P[h].waited
          /\ l = Allowance(C, P)
    BY <2>1, Weights
  <2>3. w + n + 2 * a + r <= l
    BY <1>1, <2>2 DEF ClassWaits
  <2>4. w + m + 2 * a + r <= l
    BY <2>3
  <2> QED
    BY <2>2, <2>4
<1> QED
  BY <1>1 DEF ClassWaits

(* A cursor that moves on over x slots pays for two passes a slot.         *)
LEMMA ClassMoves ==
  ASSUME NEW C \in SUBSET Producers, NEW P \in [Producers -> Producer], NEW c \in Nat,
         NEW n \in Nat, ClassWaits(P, C, c, n), NEW T \in Nat, T = Cardinality(Ring(C, P)),
         NEW at, NEW x \in Nat, MovesOn(T, c, at, x),
         \A h \in C : Eager(P[h]) => x <= Away(C, P, c, h)
  PROVE  at \in Nat /\ ClassWaits(P, C, at, n + 2 * x)
<1>1. /\ at \in 0 .. T
      /\ \A k \in 1 .. T : x <= Distance(T, c, k) =>
           Distance(T, at, k) + x = Distance(T, c, k)
  BY DEF MovesOn
<1>2. at \in Nat /\ at <= T
  BY <1>1
<1>3. PICK A \in Nat, G \in Nat : A = Cardinality(Absent(C, P)) /\ G = Cardinality(Gone(C, P))
  BY Census
<1>4. PICK N \in Nat : N = Cardinality(C)
  BY Census
<1>5. Reserve(C, P, at) = 4 * A
  <2>1. Beyond(T, at) = 0
    BY <1>2 DEF Beyond
  <2>2. N * 0 = 0
    BY Products
  <2>3. Reserve(C, P, at) = 4 * A + 2 * 0
    BY <1>3, <1>4, <2>1, <2>2, Zenon DEF Reserve
  <2> QED
    BY <2>3
<1>6. Reserve(C, P, at) <= Reserve(C, P, c)
  <2>1. PICK y \in Nat : y = Beyond(T, c)
    <3>1. Beyond(T, c) \in Nat
      BY DEF Beyond
    <3> QED
      BY <3>1
  <2>2. PICK p \in Nat : p = N * y
    BY Products
  <2>3. Reserve(C, P, c) = 4 * A + 2 * p
    BY <1>3, <1>4, <2>1, <2>2, Zenon DEF Reserve
  <2> QED
    BY <1>5, <2>3
<1>7. ASSUME NEW h \in C, Eager(P[h])
      PROVE  P[h].waited + (n + 2 * x) + 2 * Away(C, P, at, h) + Reserve(C, P, at)
               <= Allowance(C, P)
  <2>1. There(P[h]) /\ P[h].waited \in Nat /\ h \in Ring(C, P)
    <3>1. P[h] \in Producer
      OBVIOUS
    <3> QED
      BY <1>7, <3>1 DEF Eager, There, Producer, Ring
  <2>2. PICK k \in 1 .. T : k = Rank(Ring(C, P), h)
    BY <2>1, Census
  <2>3. Away(C, P, c, h) = Distance(T, c, k) /\ Away(C, P, at, h) = Distance(T, at, k)
    BY <2>2 DEF Away
  <2>4. Away(C, P, at, h) + x = Away(C, P, c, h)
    BY <1>1, <1>7, <2>3
  <2>5. PICK a \in Nat, e \in Nat, r \in Nat, s \in Nat, w \in Nat, l \in Nat :
          /\ a = Away(C, P, c, h) /\ e = Away(C, P, at, h)
          /\ r = Reserve(C, P, c) /\ s = Reserve(C, P, at) /\ w = P[h].waited
          /\ l = Allowance(C, P)
    BY <1>2, <2>1, Weights
  <2>6. w + n + 2 * a + r <= l
    BY <1>7, <2>5 DEF ClassWaits
  <2>7. e + x = a /\ s <= r
    BY <1>6, <2>4, <2>5
  <2>8. w + (n + 2 * x) + 2 * e + s <= l
    BY <2>6, <2>7
  <2> QED
    BY <2>5, <2>8
<1>8. at <= T + G
  BY <1>2
<1> QED
  BY <1>2, <1>3, <1>7, <1>8 DEF ClassWaits

(* A pass that ends has been paid for.                                     *)
LEMMA ClassPassed ==
  ASSUME NEW C \in SUBSET Producers, NEW P \in [Producers -> Producer], NEW c \in Nat,
         NEW n \in {0, 1}, ClassWaits(P, C, c, n + 1), \A h \in C : P[h].due # 0 => ~P[h].ending,
         NEW Q, \A h \in C : Q[h] = Overlooked(P[h])
  PROVE  ClassWaits(Q, C, c, n)
<1>1. ASSUME NEW h \in C
      PROVE  \/ Q[h] = P[h]
             \/ /\ P[h].ctx = "live" /\ P[h].open /\ P[h].due # 0 /\ ~P[h].ending
                /\ Q[h] = [P[h] EXCEPT !.waited = @ + 1]
  <2>1. P[h] \in Producer
    OBVIOUS
  <2> QED
    BY <2>1 DEF Overlooked, Producer
<1>2. ASSUME NEW h \in C PROVE Q[h].ctx = P[h].ctx
  <2>1. P[h] \in Producer
    OBVIOUS
  <2> QED
    BY <1>1, <2>1 DEF Producer
<1>3. /\ Ring(C, Q) = Ring(C, P) /\ Gone(C, Q) = Gone(C, P) /\ Allowance(C, Q) = Allowance(C, P)
      /\ Reserve(C, Q, c) = Reserve(C, P, c)
      /\ \A h : Away(C, Q, c, h) = Away(C, P, c, h)
  BY <1>2, SameRing
<1>4. PICK r \in Nat, l \in Nat : r = Reserve(C, P, c) /\ l = Allowance(C, P)
  BY Weights
<1>5. c <= Cardinality(Ring(C, P)) + Cardinality(Gone(C, P))
  BY DEF ClassWaits
<1>6. ASSUME NEW h \in C
      PROVE  /\ Q[h].waited <= l
             /\ Eager(Q[h]) => /\ Q[h].due # 0
                               /\ Q[h].waited + n + 2 * Away(C, P, c, h) + r <= l
  <2>1. P[h] \in Producer
    OBVIOUS
  <2>2. PICK w \in Nat : w = P[h].waited /\ w <= l
    BY <1>4, <2>1 DEF ClassWaits, Producer
  <2>3. ASSUME Eager(P[h])
        PROVE  \E a \in Nat : /\ a = Away(C, P, c, h) /\ w + (n + 1) + 2 * a + r <= l
                              /\ P[h].due # 0
    <3>1. There(P[h])
      BY <2>3 DEF Eager, There
    <3>2. Away(C, P, c, h) \in Nat
      BY <3>1, Weights
    <3> QED
      BY <1>4, <2>2, <2>3, <3>2 DEF ClassWaits
  <2>4. CASE Q[h] = P[h]
    <3>1. ASSUME Eager(P[h]) PROVE w + n + 2 * Away(C, P, c, h) + r <= l /\ P[h].due # 0
      <4>1. PICK a \in Nat : /\ a = Away(C, P, c, h) /\ w + (n + 1) + 2 * a + r <= l
                             /\ P[h].due # 0
        BY <2>3, <3>1
      <4>2. w + n + 2 * a + r <= l
        BY <4>1
      <4> QED
        BY <4>1, <4>2
    <3> QED
      BY <2>2, <2>4, <3>1
  <2>5. CASE /\ P[h].ctx = "live" /\ P[h].open /\ P[h].due # 0 /\ ~P[h].ending
             /\ Q[h] = [P[h] EXCEPT !.waited = @ + 1]
    <3>1. Q[h].waited = w + 1 /\ Q[h].due # 0
      BY <2>1, <2>2, <2>5 DEF Producer
    <3>2. PICK a \in Nat : a = Away(C, P, c, h)
      <4>1. There(P[h])
        BY <2>5 DEF There
      <4> QED
        BY <4>1, Weights
    <3>3. CASE w # 0
      <4>1. Eager(P[h])
        BY <2>2, <2>5, <3>3 DEF Eager
      <4>2. w + (n + 1) + 2 * a + r <= l
        BY <2>3, <3>2, <4>1
      <4>3. (w + 1) + n + 2 * a + r <= l /\ w + 1 <= l
        BY <4>2
      <4> QED
        BY <3>1, <3>2, <4>3
    <3>4. CASE w = 0
      <4>1. There(P[h])
        BY <2>5 DEF There
      <4>2. PICK m \in 0 .. 2 : m = 1 + n
        OBVIOUS
      <4>3. m + 2 * a + r <= l
        BY <1>4, <1>5, <3>2, <4>1, RingFresh
      <4>4. (w + 1) + n + 2 * a + r <= l /\ w + 1 <= l
        BY <3>4, <4>2, <4>3
      <4> QED
        BY <3>1, <3>2, <4>4
    <3> QED
      BY <3>3, <3>4
  <2> QED
    BY <1>1, <2>4, <2>5
<1> QED
  BY <1>3, <1>4, <1>5, <1>6 DEF ClassWaits

(* The cursor of a class.                                                  *)
Resume(o, queries) == IF queries THEN o.query_resume ELSE o.svc_resume

(* How many passes a class may still have to let the other one go first.   *)
Later(o, at, queries) ==
  IF queries # o.queries_first THEN 1 ELSE IF at = "tx" /\ o.drain = 2 THEN 2 ELSE 0

(* How many slots of the drain in progress have had their turn.            *)
Walked(o) == IF o.served THEN o.visited + 1 ELSE o.visited

(* Both classes have what the passes to come will take.                    *)
BothWait(P, o, at) ==
  \A queries \in BOOLEAN : ClassWaits(P, Class(queries), Resume(o, queries), Later(o, at, queries))

(***************************************************************************)
(* The reactor: nobody has waited longer than its class allows, and whom   *)
(* a drain has not come by yet waits no longer for that.  A pass gives its *)
(* first class at least one turn.                                          *)
(***************************************************************************)
RingTurns ==
  /\ BothWait(prod, own, stage)
  /\ stage = "tx" =>
       /\ own.slots = Walk(Ring(ClassNow, prod))
       /\ \A h \in ClassNow : Eager(prod[h]) => Walked(own) <= Away(ClassNow, prod, Cursor, h)
       /\ own.drain = 1 /\ Walked(own) = 0 => may_start_fanout
  /\ stage # "tx" => ~own.served
  /\ stage \notin {"tx", "goodbye"} => may_start_fanout
  /\ \A h \in Producers :
       prod[h].ctx = "retired" => stage = "tx" /\ DrainsQueries /\ h \in Queries

(* What takes nobody's turn away and puts nobody in front of it.           *)
Yielding(p, q) ==
  /\ Stays(p, q) /\ Settles(p, q)
  /\ q.ctx = "retired" => p.ctx = "retired"

(* What the reactor does to a producer between two turns yields.           *)
LEMMA YieldingSteps ==
  ASSUME NEW p \in Producer
  PROVE  /\ Yielding(p, p) /\ Yielding(p, Withdrawn(p)) /\ Yielding(p, Forgotten(p))
         /\ Yielding(p, Dropped(p)) /\ Yielding(p, Farewelled(p)) /\ Yielding(p, Discarded(p))
         /\ Yielding(p, Posted(p)) /\ Yielding(p, Woken(p))
         /\ Withdrawn(p).ctx # "retired" /\ Forgotten(p).ctx = "gone"
<1>1. p.waited \in Nat /\ p.waited <= p.waited /\ 0 <= p.waited
  BY DEF Producer
<1>2. Yielding(p, p)
  BY <1>1 DEF Yielding, Stays, Settles
<1>3. Yielding(p, Withdrawn(p)) /\ Withdrawn(p).ctx # "retired"
  BY <1>1 DEF Yielding, Stays, Settles, Withdrawn, Eager, There, Producer
<1>4. Woken(p) \in Producer /\ Yielding(p, Woken(p))
  BY <1>1 DEF Yielding, Stays, Settles, Woken, Eager, There, Producer
<1>5. Yielding(p, Posted(p))
  BY <1>1 DEF Yielding, Stays, Settles, Posted, Eager, There, Producer
<1>6. Yielding(p, Forgotten(p)) /\ Forgotten(p).ctx = "gone"
  <2>1. Forgotten(p).ctx = "gone" /\ Forgotten(p).waited = 0
    BY DEF Forgotten, Woken, Producer
  <2> QED
    BY <1>1, <2>1 DEF Yielding, Stays, Settles, Eager
<1>7. Yielding(p, Dropped(p))
  BY <1>1 DEF Yielding, Stays, Settles, Dropped, Eager, There, Producer
<1>8. Yielding(p, Farewelled(p))
  BY <1>1 DEF Yielding, Stays, Settles, Farewelled, Eager, There, Producer
<1>9. Yielding(p, Discarded(p))
  <2>1. CASE p.ctx = "absent"
    BY <1>1, <2>1 DEF Yielding, Stays, Settles, Discarded, Eager, There, Producer
  <2>2. CASE p.ctx # "absent"
    <3>1. Forgotten(p) \in Producer
      BY DriverCalms
    <3>2. Discarded(p).ctx = "gone" /\ Discarded(p).waited = 0
      <4>1. Forgotten(p).ctx = "gone" /\ Forgotten(p).waited = 0
        BY DEF Forgotten, Woken, Producer
      <4> QED
        BY <2>2, <3>1, <4>1 DEF Discarded, Producer
    <3> QED
      BY <1>1, <3>2 DEF Yielding, Stays, Settles, Eager
  <2> QED
    BY <2>1, <2>2
<1> QED
  BY <1>2, <1>3, <1>4, <1>5, <1>6, <1>7, <1>8, <1>9

(* What yields and then yields again yields.                               *)
LEMMA YieldingOn ==
  ASSUME NEW p \in Producer, NEW q \in Producer, NEW r \in Producer,
         Yielding(p, q), Yielding(q, r), q.ctx = "gone" => r.ctx = "gone"
  PROVE  Yielding(p, r)
<1>1. p.waited \in Nat /\ q.waited \in Nat /\ r.waited \in Nat
  BY DEF Producer
<1> QED
  BY <1>1 DEF Yielding, Stays, Settles, There

(* The classes are two, and their cursors are indices.                     *)
LEMMA Classes ==
  ASSUME ReactorBusy, NEW queries \in BOOLEAN
  PROVE  /\ Class(queries) \in SUBSET Producers /\ Resume(own, queries) \in Nat
         /\ \A at : Later(own, at, queries) \in 0 .. 2
         /\ Cursor = Resume(own, DrainsQueries) /\ DrainsQueries \in BOOLEAN
BY DEF ReactorBusy, Class, Producers, Resume, Later, Cursor, DrainsQueries

(* What yields leaves both classes their due.                              *)
LEMMA BothYield ==
  ASSUME ReactorBusy, NEW P \in [Producers -> Producer], NEW Q \in [Producers -> Producer],
         NEW at, BothWait(P, own, at), \A h \in Producers : Yielding(P[h], Q[h])
  PROVE  BothWait(Q, own, at)
<1>1. ASSUME NEW queries \in BOOLEAN
      PROVE  ClassWaits(Q, Class(queries), Resume(own, queries), Later(own, at, queries))
  <2>1. PICK C \in SUBSET Producers, c \in Nat, n \in Nat :
          C = Class(queries) /\ c = Resume(own, queries) /\ n = Later(own, at, queries)
    BY Classes
  <2>2. ClassWaits(P, C, c, n)
    BY <2>1 DEF BothWait
  <2>3. \A h \in C : Stays(P[h], Q[h]) /\ Settles(P[h], Q[h])
    BY DEF Yielding
  <2>4. ClassWaits(Q, C, c, n)
    BY <2>2, <2>3, ClassLeaves
  <2> QED
    BY <2>1, <2>4
<1> QED
  BY <1>1 DEF BothWait

(* The order of turns: both cursors, and which class goes first.           *)
SameOrder(o) ==
  /\ o.queries_first = own.queries_first /\ o.served = own.served
  /\ o.svc_resume = own.svc_resume /\ o.query_resume = own.query_resume

(* Outside the drains only the producers change.                           *)
LEMMA RingRests ==
  ASSUME ReactorBusy, RingTurns, prod \in [Producers -> Producer],
         prod' \in [Producers -> Producer], SameOrder(own'),
         stage # "tx", stage' # "tx", stage' \notin {"tx", "goodbye"} => may_start_fanout',
         \A h \in Producers : Yielding(prod[h], prod'[h])
  PROVE  RingTurns'
<1>1. BothWait(prod', own, stage)
  BY BothYield DEF RingTurns
<1>2. BothWait(prod', own', stage')
  <2>1. \A queries \in BOOLEAN : /\ Resume(own', queries) = Resume(own, queries)
                                 /\ Later(own', stage', queries) = Later(own, stage, queries)
    BY DEF SameOrder, Resume, Later
  <2> QED
    BY <1>1, <2>1 DEF BothWait
<1>3. \A h \in Producers : prod'[h].ctx # "retired"
  BY DEF RingTurns, Yielding
<1> QED
  BY <1>2, <1>3 DEF RingTurns, SameOrder

(* A registration joins its ring, behind or in front of the cursor.        *)
LEMMA RingJoins ==
  ASSUME ReactorBusy, RingTurns, prod \in [Producers -> Producer],
         prod' \in [Producers -> Producer], SameOrder(own'),
         stage # "tx", stage' # "tx", stage' \notin {"tx", "goodbye"} => may_start_fanout',
         NEW g \in Producers, NEW q, prod' = [prod EXCEPT ![g] = q], prod[g].ctx = "absent",
         There(q), q.waited = 0, q.ctx # "retired"
  PROVE  RingTurns'
<1>1. prod'[g] = q /\ \A h \in Producers : h # g => prod'[h] = prod[h]
  OBVIOUS
<1>2. ASSUME NEW queries \in BOOLEAN
      PROVE  ClassWaits(prod', Class(queries), Resume(own, queries), Later(own, stage, queries))
  <2>1. PICK C \in SUBSET Producers, c \in Nat, n \in Nat :
          C = Class(queries) /\ c = Resume(own, queries) /\ n = Later(own, stage, queries)
    BY Classes
  <2>2. ClassWaits(prod, C, c, n)
    BY <2>1 DEF RingTurns, BothWait
  <2>3. CASE g \in C
    <3>1. \A h \in C : h # g => prod'[h] = prod[h]
      BY <1>1
    <3>2. ClassWaits(prod', C, c, n)
      BY <1>1, <2>2, <2>3, <3>1, ClassJoined
    <3> QED
      BY <2>1, <3>2
  <2>4. CASE g \notin C
    <3>1. ASSUME NEW h \in C PROVE Stays(prod[h], prod'[h]) /\ Settles(prod[h], prod'[h])
      <4>1. prod'[h] = prod[h] /\ prod[h] \in Producer
        BY <1>1, <2>4
      <4> QED
        BY <4>1, YieldingSteps DEF Yielding
    <3>2. ClassWaits(prod', C, c, n)
      BY <2>2, <3>1, ClassLeaves
    <3> QED
      BY <2>1, <3>2
  <2> QED
    BY <2>3, <2>4
<1>3. BothWait(prod', own', stage')
  <2>1. \A queries \in BOOLEAN : /\ Resume(own', queries) = Resume(own, queries)
                                 /\ Later(own', stage', queries) = Later(own, stage, queries)
    BY DEF SameOrder, Resume, Later
  <2> QED
    BY <1>2, <2>1 DEF BothWait
<1>4. \A h \in Producers : prod'[h].ctx # "retired"
  BY <1>1 DEF RingTurns
<1> QED
  BY <1>3, <1>4 DEF RingTurns, SameOrder

(* A drain knows where in its walk each of its class comes.                *)
LEMMA WalkPlaces ==
  ASSUME NEW C \in SUBSET Producers, NEW P, NEW s, s = Walk(Ring(C, P)), NEW c \in Nat
  PROVE  /\ Len(s) = Cardinality(Ring(C, P)) /\ Len(s) \in Nat
         /\ \A h \in C : There(P[h]) =>
              s[(((c % Len(s)) + Away(C, P, c, h)) % Len(s)) + 1] = h
<1>1. PICK S, T : S = Ring(C, P) /\ T = Cardinality(S)
  OBVIOUS
<1>2. S \in SUBSET Nat /\ IsFiniteSet(S) /\ T \in Nat
  BY <1>1, Census, DriverAssumption
<1>3. Len(s) = T
  BY <1>1, <1>2 DEF Walk
<1>4. ASSUME NEW h \in S PROVE s[(((c % T) + Away(C, P, c, h)) % T) + 1] = h
  <2>1. PICK k \in 1 .. T : k = Rank(S, h)
    BY <1>1, Census
  <2>2. s[k] = h
    <3>1. Walk(S)[Cardinality({g \in S : g <= h})] = h
      BY <1>2, WalkRanks
    <3> QED
      BY <1>1, <2>1, <3>1 DEF Rank
  <2>3. T \in Nat \ {0}
    BY <1>2, <2>1
  <2>4. (((c % T) + Distance(T, c, k)) % T) + 1 = k
    BY <2>3, SlotAtDistance
  <2>5. Away(C, P, c, h) = Distance(T, c, k)
    BY <1>1, <2>1 DEF Away
  <2> QED
    BY <2>2, <2>4, <2>5, Zenon
<1> QED
  BY <1>1, <1>2, <1>3, <1>4, Zenon DEF Ring

(* In the slot of a drain is whoever is as far away as it has come.        *)
LEMMA SlotWaits ==
  ASSUME ReactorBusy, RingTurns, stage = "tx", NEW h \in ClassNow, There(prod[h]),
         Away(ClassNow, prod, Cursor, h) = own.visited
  PROVE  h = Slot
<1>1. ClassNow \in SUBSET Producers /\ Cursor \in Nat
  BY Classes DEF ClassNow
<1>2. own.slots = Walk(Ring(ClassNow, prod))
  BY DEF RingTurns
<1>3. PICK C \in SUBSET Producers, c \in Nat : C = ClassNow /\ c = Cursor
  BY <1>1
<1>4. PICK s : s = own.slots
  OBVIOUS
<1>5. s[(((c % Len(s)) + Away(C, prod, c, h)) % Len(s)) + 1] = h
  <2>1. s = Walk(Ring(C, prod)) /\ h \in C
    BY <1>2, <1>3, <1>4
  <2> QED
    BY <2>1, WalkPlaces
<1> QED
  BY <1>3, <1>4, <1>5, Zenon DEF Slot, SlotAt

(* A turn in a drain is over for the slot, and for nobody else.            *)
LEMMA RingWalks ==
  ASSUME ReactorBusy, RingTurns, prod \in [Producers -> Producer],
         prod' \in [Producers -> Producer], SameWalk(own'), stage = "tx", stage' = "tx",
         \A h \in Producers : /\ Stays(prod[h], prod'[h]) /\ Settles(prod[h], prod'[h])
                              /\ prod'[h].ctx = "gone" => prod[h].ctx = "gone"
                              /\ prod'[h].ctx = "retired" => DrainsQueries /\ h \in Queries,
         \/ Walked(own') = Walked(own) /\ may_start_fanout' = may_start_fanout
         \/ Walked(own') = own.visited + 1 /\ ~Eager(prod'[Slot])
  PROVE  RingTurns'
<1>1. DrainsQueries' = DrainsQueries /\ Cursor' = Cursor /\ ClassNow' = ClassNow
  BY WalkGoesOn
<1>2. ClassNow \in SUBSET Producers /\ Cursor \in Nat
  BY Classes DEF ClassNow
<1>3. ASSUME NEW queries \in BOOLEAN
      PROVE  ClassWaits(prod', Class(queries), Resume(own, queries), Later(own, stage, queries))
  <2>1. PICK C \in SUBSET Producers, c \in Nat, n \in Nat :
          C = Class(queries) /\ c = Resume(own, queries) /\ n = Later(own, stage, queries)
    BY Classes
  <2>2. ClassWaits(prod, C, c, n)
    BY <2>1 DEF RingTurns, BothWait
  <2>3. ClassWaits(prod', C, c, n)
    BY <2>2, ClassLeaves
  <2> QED
    BY <2>1, <2>3
<1>4. BothWait(prod', own', stage')
  <2>1. \A queries \in BOOLEAN : /\ Resume(own', queries) = Resume(own, queries)
                                 /\ Later(own', stage', queries) = Later(own, stage, queries)
    BY DEF SameWalk, Resume, Later
  <2> QED
    BY <1>3, <2>1 DEF BothWait
<1>5. Ring(ClassNow, prod') = Ring(ClassNow, prod)
  BY <1>2 DEF Ring, Stays, There
<1>6. \A h : Away(ClassNow, prod', Cursor, h) = Away(ClassNow, prod, Cursor, h)
  BY <1>5 DEF Away
<1>7. own'.slots = Walk(Ring(ClassNow', prod'))
  BY <1>1, <1>5 DEF RingTurns, SameWalk
<1>8. own.visited \in Nat
  BY DEF ReactorBusy
<1>9. ASSUME NEW h \in ClassNow, Eager(prod'[h])
      PROVE  Walked(own') <= Away(ClassNow, prod, Cursor, h)
  <2>1. Eager(prod[h]) /\ There(prod[h])
    BY <1>2, <1>9 DEF Settles, Eager, There
  <2>2. PICK a \in Nat : a = Away(ClassNow, prod, Cursor, h) /\ Walked(own) <= a
    <3>1. Walked(own) <= Away(ClassNow, prod, Cursor, h)
      BY <2>1 DEF RingTurns
    <3>2. Away(ClassNow, prod, Cursor, h) \in Nat
      BY <1>2, <2>1, Weights
    <3> QED
      BY <3>1, <3>2
  <2>3. CASE Walked(own') = Walked(own)
    BY <2>2, <2>3
  <2>4. CASE Walked(own') = own.visited + 1 /\ ~Eager(prod'[Slot])
    <3>1. a # own.visited
      BY <1>9, <2>1, <2>2, <2>4, SlotWaits
    <3>2. own.visited <= a
      BY <1>8, <2>2 DEF Walked
    <3>3. own.visited + 1 <= a
      BY <1>8, <3>1, <3>2
    <3> QED
      BY <2>2, <2>4, <3>3
  <2> QED
    BY <2>3, <2>4
<1>10. own'.drain = 1 /\ Walked(own') = 0 => may_start_fanout'
  <2>1. own.visited + 1 # 0
    BY <1>8
  <2> QED
    BY <2>1 DEF RingTurns, SameWalk
<1> QED
  BY <1>1, <1>4, <1>6, <1>7, <1>9, <1>10 DEF RingTurns

(* Who is given up keeps its place, and waits no more.                     *)
LEMMA RetiredYields ==
  ASSUME NEW p \in Producer, NEW h, There(p), NEW r, r = RetiredProducer(p, h)
  PROVE  /\ Stays(p, r) /\ Settles(p, r) /\ r.ctx # "gone" /\ ~Eager(r)
         /\ h \in Services => r.ctx # "retired"
<1>1. PICK q \in Producer : q = Woken(Posted(p))
  <2>1. Posted(p) \in Producer
    BY DriverCalms
  <2> QED
    BY <2>1, DriverCalms
<1>2. q.ctx = p.ctx /\ q.waited = p.waited
  BY <1>1 DEF Woken, Posted, Producer
<1>3. p.waited \in Nat /\ p.waited <= p.waited /\ 0 <= p.waited
  BY DEF Producer
<1>4. CASE h \in Services
  <2>1. r = Withdrawn(q)
    BY <1>1, <1>4 DEF RetiredProducer, RetiredService
  <2>2. r.ctx # "live" /\ r.ctx # "retired" /\ Yielding(q, r)
    BY <2>1, DriverCalms, YieldingSteps
  <2>3. r.ctx \in {"leaving", q.ctx}
    BY <2>1 DEF Withdrawn, Producer
  <2> QED
    BY <1>2, <1>3, <2>2, <2>3 DEF Yielding, Stays, Settles, Eager, There
<1>5. CASE h \notin Services
  <2>1. r = [q EXCEPT !.ctx = "retired", !.due = 0, !.ending = FALSE]
    BY <1>1, <1>5 DEF RetiredProducer, RetiredQuery
  <2>2. r.ctx = "retired" /\ r.waited = q.waited
    BY <2>1 DEF Producer
  <2> QED
    BY <1>2, <1>3, <1>5, <2>2 DEF Stays, Settles, Eager, There
<1> QED
  BY <1>4, <1>5

(* The turns of a drain.                                                   *)
LEMMA ReactorTurnsRing ==
  ASSUME DriverInv, ReactorBusy, RingTurns, driver = "reactor",
         prod' \in [Producers -> Producer],
         \/ PassOver \/ NothingDue \/ EncodeFails \/ (\E n \in Fanouts : ReactorSends(n))
         \/ Undeliverable
  PROVE  RingTurns'
<1>1. prod \in [Producers -> Producer] /\ ReactorShape(own)
  BY DEF DriverInv, Common, ReactorInv
<1>2. Draining /\ Slot \in Producers /\ Slot \in ClassNow /\ stage = "tx" /\ stage' = "tx"
  <2>1. Draining /\ stage' = stage
    BY DEF PassOver, NothingDue, EncodeFails, ReactorSends, Undeliverable, Polled, rKeep
  <2> QED
    BY <2>1, SlotInClass DEF Draining
<1>3. PICK p \in Producer : p = prod[Slot] /\ Sound(Slot, p)
  BY <1>1, <1>2 DEF DriverInv, Common
<1>4. p.waited \in Nat /\ p.waited <= p.waited /\ 0 <= p.waited
  BY DEF Producer
<1>5. Eager(p) => p.due # 0
  <2>1. ClassWaits(prod, ClassNow, Resume(own, DrainsQueries), Later(own, stage, DrainsQueries))
    BY Classes DEF RingTurns, BothWait, ClassNow
  <2> QED
    BY <1>2, <1>3, <2>1 DEF ClassWaits
<1>6. Slot \in Queries \ Services => DrainsQueries
  BY <1>2 DEF ClassNow, Class
<1>7. ASSUME NextSlot \/ own' = [own EXCEPT !.served = TRUE], NEW q, prod' = [prod EXCEPT ![Slot] = q],
             Stays(p, q), Settles(p, q), ~Eager(q), q.ctx = "gone" => p.ctx = "gone",
             q.ctx = "retired" => p.ctx = "retired" \/ (DrainsQueries /\ Slot \in Queries)
      PROVE  RingTurns'
  <2>1. SameWalk(own') /\ Walked(own') = own.visited + 1
    BY <1>1, <1>7 DEF SameWalk, Walked, NextSlot, ReactorShape
  <2>2. \A h \in Producers : h # Slot => prod'[h] = prod[h]
    BY <1>7
  <2>3. prod'[Slot] = q
    BY <1>1, <1>2, <1>7
  <2>4. ASSUME NEW h \in Producers
        PROVE  /\ Stays(prod[h], prod'[h]) /\ Settles(prod[h], prod'[h])
               /\ prod'[h].ctx = "gone" => prod[h].ctx = "gone"
               /\ prod'[h].ctx = "retired" => DrainsQueries /\ h \in Queries
    <3>1. CASE h = Slot
      BY <1>2, <1>3, <1>7, <2>3, <3>1 DEF RingTurns
    <3>2. CASE h # Slot
      <4>1. prod'[h] = prod[h] /\ prod[h] \in Producer
        BY <1>1, <2>2, <3>2
      <4> QED
        BY <4>1, YieldingSteps DEF Yielding, RingTurns
    <3> QED
      BY <3>1, <3>2
  <2>5. ~Eager(prod'[Slot])
    BY <1>7, <2>3
  <2> QED
    BY <1>1, <1>2, <2>1, <2>4, <2>5, RingWalks
<1>8. p.due # 0 => p.ctx = "live" /\ There(p)
  BY <1>3 DEF Sound, There
<1>9. Slot \notin Services => DrainsQueries /\ Slot \in Queries
  BY <1>2, <1>6 DEF Producers
<1>10. CASE PassOver
  <2>1. NextSlot /\ prod' = [prod EXCEPT ![Slot] = p] /\ ~Eager(p)
    BY <1>1, <1>2, <1>3, <1>10 DEF PassOver, Eager, Live
  <2>2. Stays(p, p) /\ Settles(p, p)
    BY YieldingSteps DEF Yielding
  <2> QED
    BY <1>7, <2>1, <2>2
<1>11. CASE NothingDue
  <2>1. PICK q : q = [p EXCEPT !.failures = 0]
    OBVIOUS
  <2>2. NextSlot /\ prod' = [prod EXCEPT ![Slot] = q] /\ p.due = 0
    BY <1>1, <1>2, <1>3, <1>11, <2>1 DEF NothingDue
  <2>3. q.ctx = p.ctx /\ Stays(p, q) /\ Settles(p, q) /\ ~Eager(q)
    BY <1>4, <1>5, <2>1, <2>2 DEF Stays, Settles, Eager, There, Producer
  <2> QED
    BY <1>7, <2>2, <2>3
<1>12. CASE EncodeFails
  <2>1. PICK q : q = [p EXCEPT !.failures = @ + 1, !.waited = 0]
    OBVIOUS
  <2>2. PICK r : r = IF Slot \in Services /\ q.failures < MAX_CONSECUTIVE_ENCODE_ERRORS THEN q
                     ELSE RetiredProducer(q, Slot)
    OBVIOUS
  <2>3. NextSlot /\ prod' = [prod EXCEPT ![Slot] = r] /\ p.due # 0
    BY <1>3, <1>12, <2>1, <2>2 DEF EncodeFails, Producer
  <2>4. q \in Producer /\ q.ctx = "live" /\ q.waited = 0
    <3>1. p.failures + 1 \in Nat
      BY DEF Producer
    <3> QED
      BY <1>8, <2>1, <2>3, <3>1 DEF Producer
  <2>5. CASE r = q
    <3>1. Stays(p, r) /\ Settles(p, r) /\ ~Eager(r)
      BY <1>4, <1>8, <2>3, <2>4, <2>5 DEF Stays, Settles, Eager, There
    <3> QED
      BY <1>7, <2>3, <2>4, <2>5, <3>1
  <2>6. CASE r = RetiredProducer(q, Slot)
    <3>1. There(q)
      BY <2>4 DEF There
    <3>2. /\ Stays(q, r) /\ Settles(q, r) /\ r.ctx # "gone" /\ ~Eager(r)
          /\ Slot \in Services => r.ctx # "retired"
      BY <2>4, <2>6, <3>1, RetiredYields
    <3>3. Stays(p, r) /\ Settles(p, r)
      <4>1. r.waited <= 0 /\ r.waited <= p.waited
        <5>1. r.waited = 0
          <6>1. r \in Producer
            <7>1. r = prod'[Slot]
              BY <1>1, <1>2, <2>3
            <7> QED
              BY <1>2, <7>1
          <6>2. r.waited \in Nat /\ r.waited <= 0
            BY <2>4, <3>2, <6>1 DEF Settles, Producer
          <6> QED
            BY <6>2
        <5> QED
          BY <1>4, <5>1
      <4> QED
        BY <1>8, <2>3, <2>4, <3>2, <4>1 DEF Stays, Settles, There
    <3> QED
      BY <1>7, <1>9, <2>3, <3>2, <3>3
  <2> QED
    BY <2>2, <2>5, <2>6
<1>13. ASSUME NEW n \in Fanouts, ReactorSends(n) PROVE RingTurns'
  <2>1. PICK q : q = Sent(p, Slot, n)
    OBVIOUS
  <2>2. /\ own' = [own EXCEPT !.served = TRUE] /\ prod' = [prod EXCEPT ![Slot] = q]
        /\ p.due # 0
    BY <1>3, <1>13, <2>1 DEF ReactorSends, Producer
  <2>3. q.ctx = p.ctx /\ q.waited = 0
    BY <2>1 DEF Sent, Producer
  <2>4. Stays(p, q) /\ Settles(p, q) /\ ~Eager(q)
    BY <1>4, <2>3 DEF Stays, Settles, Eager, There
  <2> QED
    BY <1>7, <2>2, <2>3, <2>4
<1>14. CASE Undeliverable
  <2>1. PICK q : q = Sent(p, Slot, 0)
    OBVIOUS
  <2>2. PICK r : r = RetiredProducer(q, Slot)
    OBVIOUS
  <2>3. NextSlot /\ prod' = [prod EXCEPT ![Slot] = r] /\ p.due # 0
    BY <1>3, <1>14, <2>1, <2>2 DEF Undeliverable, Producer
  <2>4. q \in Producer /\ q.ctx = p.ctx /\ q.waited = 0 /\ There(q)
    <3>1. p.due - 1 \in Nat
      BY <2>3 DEF Producer
    <3> QED
      BY <1>8, <2>1, <2>3, <3>1 DEF Sent, Producer, There
  <2>5. /\ Stays(q, r) /\ Settles(q, r) /\ r.ctx # "gone" /\ ~Eager(r)
        /\ Slot \in Services => r.ctx # "retired"
    BY <2>2, <2>4, RetiredYields
  <2>6. r \in Producer
    <3>1. r = prod'[Slot]
      BY <1>1, <1>2, <2>3
    <3> QED
      BY <1>2, <3>1
  <2>7. r.waited <= p.waited
    <3>1. r.waited \in Nat /\ r.waited <= 0
      BY <2>4, <2>5, <2>6 DEF Settles, Producer
    <3> QED
      BY <1>4, <3>1
  <2>8. Stays(p, r) /\ Settles(p, r)
    BY <1>8, <2>3, <2>4, <2>5, <2>7 DEF Stays, Settles, There
  <2> QED
    BY <1>7, <1>9, <2>3, <2>5, <2>8
<1> QED
  BY <1>10, <1>11, <1>12, <1>13, <1>14

(* What a drain that ends has paid for the class it drained.               *)
NowPays(o, cut) ==
  ClassWaits(prod, ClassNow, Resume(o, DrainsQueries), IF own.drain = 2 /\ cut THEN 1 ELSE 2)

(* A drain that came by everyone leaves nobody waiting.                    *)
LEMMA DonePays ==
  ASSUME ReactorBusy, RingTurns, stage = "tx", own.visited = Len(own.slots)
  PROVE  NowPays(own, FALSE)
<1>1. ClassNow \in SUBSET Producers /\ Cursor \in Nat /\ Cursor = Resume(own, DrainsQueries)
  BY Classes DEF ClassNow
<1>2. PICK C \in SUBSET Producers, c \in Nat : C = ClassNow /\ c = Cursor
  BY <1>1
<1>3. own.slots = Walk(Ring(C, prod)) /\ own.visited \in Nat
  BY <1>2 DEF RingTurns, ReactorBusy
<1>4. PICK N : N = Cardinality(C)
  OBVIOUS
<1>5. PICK T, A, G \in Nat : Counted(C, prod, c, N, T, A, G)
  BY <1>4, RingNumbers
<1>6. own.visited = T
  <2>1. Len(own.slots) = Cardinality(Ring(C, prod))
    BY <1>3, WalkPlaces
  <2> QED
    BY <1>5, <2>1 DEF Counted
<1>7. ASSUME NEW h \in C, Eager(prod[h]) PROVE FALSE
  <2>1. There(prod[h])
    BY <1>7 DEF Eager, There
  <2>2. PICK d \in Nat : d = Away(C, prod, c, h) /\ d + 1 <= T
    BY <1>5, <2>1 DEF Counted
  <2>3. Walked(own) <= d
    BY <1>2, <1>7, <2>2 DEF RingTurns
  <2>4. own.visited <= d
    BY <1>3, <2>2, <2>3 DEF Walked
  <2> QED
    BY <1>6, <2>2, <2>4
<1>8. ClassWaits(prod, C, c, Later(own, stage, DrainsQueries))
  BY <1>1, <1>2, Classes DEF RingTurns, BothWait, ClassNow
<1>9. ClassWaits(prod, C, c, 2)
  BY <1>7, <1>8 DEF ClassWaits
<1> QED
  BY <1>1, <1>2, <1>9 DEF NowPays

(* A drain that is cut short has paid with the slots it came by.           *)
LEMMA CutPays ==
  ASSUME ReactorBusy, RingTurns, prod \in [Producers -> Producer], ReactorShape(own),
         Draining, ~may_start_fanout
  PROVE  /\ NowPays(ResumeAt(own), TRUE)
         /\ Resume(ResumeAt(own), ~DrainsQueries) = Resume(own, ~DrainsQueries)
         /\ ResumeAt(own).svc_resume \in Nat /\ ResumeAt(own).query_resume \in Nat
<1>1. ClassNow \in SUBSET Producers /\ Cursor \in Nat /\ Cursor = Resume(own, DrainsQueries)
  BY Classes DEF ClassNow
<1>2. PICK C \in SUBSET Producers, c \in Nat : C = ClassNow /\ c = Cursor
  BY <1>1
<1>3. stage = "tx" /\ own.slots = Walk(Ring(C, prod))
  BY <1>2 DEF RingTurns, Draining
<1>4. /\ own.visited \in Nat /\ own.drain \in {1, 2} /\ own.queries_first \in BOOLEAN
      /\ own.svc_resume \in Nat /\ own.query_resume \in Nat
  BY DEF ReactorBusy
<1>5. PICK T \in Nat \ {0} : T = Len(own.slots) /\ T = Cardinality(Ring(C, prod))
  <2>1. Len(own.slots) = Cardinality(Ring(C, prod)) /\ Len(own.slots) \in Nat
    BY <1>3, WalkPlaces
  <2>2. Len(own.slots) # 0
    BY <1>4, <2>1 DEF Draining
  <2> QED
    BY <2>1, <2>2
<1>6. PICK v \in 0 .. T - 1, b \in {0, 1} : v = own.visited /\ b = IF own.served THEN 1 ELSE 0
  <2>1. own.visited \in 0 .. T - 1
    BY <1>4, <1>5 DEF Draining
  <2>2. (IF own.served THEN 1 ELSE 0) \in {0, 1}
    OBVIOUS
  <2> QED
    BY <2>1, <2>2
<1>7. PICK x \in Nat : x = v + b /\ x = Walked(own)
  <2>1. v + b \in Nat /\ Walked(own) = v + b
    BY <1>6 DEF Walked
  <2> QED
    BY <2>1
<1>8. PICK at : at = (((c % T) + v) % T) + b
  OBVIOUS
<1>9. MovesOn(T, c, at, x)
  <2>1. MovesOn(T, c, at, v + b)
    BY <1>8, CursorMoves
  <2> QED
    BY <1>7, <2>1
<1>10. PICK n \in 0 .. 2 : n = Later(own, stage, DrainsQueries) /\ ClassWaits(prod, C, c, n)
  <2>1. Later(own, stage, DrainsQueries) \in 0 .. 2 /\ DrainsQueries \in BOOLEAN
    BY Classes
  <2>2. ClassWaits(prod, C, c, Later(own, stage, DrainsQueries))
    BY <1>1, <1>2, <2>1 DEF RingTurns, BothWait, ClassNow
  <2> QED
    BY <2>1, <2>2
<1>11. at \in Nat /\ ClassWaits(prod, C, at, n + 2 * x)
  <2>1. \A h \in C : Eager(prod[h]) => x <= Away(C, prod, c, h)
    BY <1>2, <1>3, <1>7 DEF RingTurns
  <2>2. n \in Nat
    OBVIOUS
  <2> QED
    BY <1>5, <1>9, <1>10, <2>1, <2>2, ClassMoves
<1>12. PICK m \in {1, 2} : m = IF own.drain = 2 THEN 1 ELSE 2
  OBVIOUS
<1>13. m <= n + 2 * x
  <2>1. CASE own.drain = 1
    <3>1. x # 0
      BY <1>3, <1>7, <2>1 DEF RingTurns
    <3> QED
      BY <1>12, <3>1
  <2>2. CASE own.drain = 2
    <3>1. DrainsQueries # own.queries_first
      BY <1>4, <2>2 DEF DrainsQueries
    <3>2. n = 1
      BY <1>10, <3>1 DEF Later
    <3> QED
      BY <1>12, <2>2, <3>2
  <2> QED
    BY <1>4, <2>1, <2>2
<1>14. ClassWaits(prod, C, at, m)
  <2>1. m \in Nat /\ n + 2 * x \in Nat
    OBVIOUS
  <2> QED
    BY <1>11, <1>13, <2>1, ClassRelaxes
<1>15. at = IF own.served THEN SlotAt + 1 ELSE SlotAt
  <2>1. SlotAt \in Nat
    BY SlotInClass
  <2>2. SlotAt = ((c % T) + v) % T
    BY <1>2, <1>5, <1>6, Zenon DEF SlotAt
  <2>3. at = SlotAt + b
    BY <1>8, <2>2
  <2> QED
    BY <1>6, <2>1, <2>3
<1>16. ResumeAt(own) = IF DrainsQueries THEN [own EXCEPT !.query_resume = at]
                       ELSE [own EXCEPT !.svc_resume = at]
  BY <1>15 DEF ResumeAt
<1>17. /\ Resume(ResumeAt(own), DrainsQueries) = at
       /\ Resume(ResumeAt(own), ~DrainsQueries) = Resume(own, ~DrainsQueries)
       /\ ResumeAt(own).svc_resume \in Nat /\ ResumeAt(own).query_resume \in Nat
  BY <1>4, <1>11, <1>16 DEF Resume, ReactorShape
<1> QED
  BY <1>2, <1>12, <1>14, <1>17 DEF NowPays

(* The updates that end a pass put nobody in front of another.             *)
LEMMA PushedYields ==
  ASSUME NEW p \in Producer, NEW h
  PROVE  Yielding(p, Pushed(p, h)) /\ Pushed(p, h) \in Producer
<1>1. PICK q \in Producer : q = Posted(p)
  BY DriverCalms
<1>2. PICK r \in Producer : r = Woken(q)
  BY DriverCalms
<1>3. r.ctx = p.ctx /\ r.waited = p.waited
  BY <1>1, <1>2 DEF Woken, Posted, Producer
<1>4. ASSUME NEW x \in {p, r}, p.ctx = "live"
      PROVE  /\ Yielding(p, Withdrawn(x)) /\ Withdrawn(x) \in Producer
             /\ Yielding(p, Forgotten(x)) /\ Forgotten(x) \in Producer
  <2>1. x \in Producer /\ x.ctx = p.ctx /\ x.waited = p.waited
    BY <1>3
  <2>2. Withdrawn(x) \in Producer /\ Withdrawn(x).ctx # "live" /\ Forgotten(x) \in Producer
    BY <2>1, DriverCalms
  <2>3. Yielding(x, Withdrawn(x)) /\ Yielding(x, Forgotten(x)) /\ Forgotten(x).ctx = "gone"
    BY <2>1, YieldingSteps
  <2> QED
    BY <1>4, <2>1, <2>2, <2>3 DEF Yielding, Stays, Settles, Eager, There
<1>5. Yielding(p, p)
  BY YieldingSteps
<1>6. CASE p.ctx # "live"
  BY <1>5, <1>6 DEF Pushed
<1>7. CASE p.ctx = "live"
  <2>1. Pushed(p, h) \in {p, Withdrawn(p), Forgotten(p), Withdrawn(r), Forgotten(r)}
    BY <1>1, <1>2, <1>7 DEF Pushed, remove_service, cancel_query
  <2> QED
    BY <1>4, <1>5, <1>7, <2>1
<1> QED
  BY <1>6, <1>7

(* The numbers of passes an ended drain leaves both classes.               *)
LEMMA EndPays ==
  ASSUME ReactorBusy, RingTurns, stage = "tx", prod \in [Producers -> Producer],
         NEW o, NEW cut \in BOOLEAN, NowPays(o, cut), o.svc_resume \in Nat, o.query_resume \in Nat,
         Resume(o, ~DrainsQueries) = Resume(own, ~DrainsQueries), NEW queries \in BOOLEAN
  PROVE  \E C \in SUBSET Producers, c \in Nat, n \in 0 .. 2 :
           /\ C = Class(queries) /\ c = Resume(o, queries) /\ ClassWaits(prod, C, c, n)
           /\ n = IF queries # DrainsQueries THEN Later(own, "tx", queries)
                  ELSE IF own.drain = 2 /\ cut THEN 1 ELSE 2
<1>1. Resume(o, queries) \in Nat /\ Class(queries) \in SUBSET Producers /\ DrainsQueries \in BOOLEAN
  BY Classes DEF Resume
<1>2. CASE queries = DrainsQueries
  <2>1. ClassWaits(prod, Class(queries), Resume(o, queries), IF own.drain = 2 /\ cut THEN 1 ELSE 2)
    BY <1>2 DEF NowPays, ClassNow
  <2>2. (IF own.drain = 2 /\ cut THEN 1 ELSE 2) \in 0 .. 2
    OBVIOUS
  <2> QED
    BY <1>1, <1>2, <2>1, <2>2
<1>3. CASE queries # DrainsQueries
  <2>1. queries = ~DrainsQueries /\ Resume(o, queries) = Resume(own, queries)
    BY <1>1, <1>3
  <2>2. ClassWaits(prod, Class(queries), Resume(o, queries), Later(own, "tx", queries))
    BY <2>1 DEF RingTurns, BothWait
  <2>3. Later(own, "tx", queries) \in 0 .. 2
    BY Classes
  <2> QED
    BY <1>1, <1>3, <2>2, <2>3
<1> QED
  BY <1>2, <1>3

(* A class ends, and every one of its own gets its pass counted.           *)
LEMMA ClassEndsRing ==
  ASSUME DriverInv, ReactorBusy, RingTurns, driver = "reactor", stage = "tx",
         prod' \in [Producers -> Producer],
         NEW o, ReactorShape(o), o.svc_resume \in Nat, o.query_resume \in Nat,
         o.drain = own.drain, o.queries_first = own.queries_first,
         NEW cut \in BOOLEAN, ClassEnds(o, cut), NowPays(o, cut),
         Resume(o, ~DrainsQueries) = Resume(own, ~DrainsQueries)
  PROVE  RingTurns'
<1> DEFINE left == [h \in Producers |-> IF h \in Queries /\ prod[h].ctx = "retired"
                                        THEN cancel_query(prod[h]) ELSE prod[h]]
<1>1. /\ prod \in [Producers -> Producer] /\ \A h \in Producers : Sound(h, prod[h])
      /\ own.drain \in {1, 2} /\ own.queries_first \in BOOLEAN
  BY DEF DriverInv, Common, ReactorBusy
<1>2. ASSUME NEW h \in Producers
      PROVE  /\ left[h] \in Producer /\ Yielding(prod[h], left[h]) /\ left[h].ctx # "retired"
             /\ left[h].due # 0 => ~left[h].ending
  <2>1. prod[h] \in Producer
    BY <1>1
  <2>2. CASE h \in Queries /\ prod[h].ctx = "retired"
    <3>1. left[h] = Forgotten(prod[h])
      BY <2>2 DEF cancel_query
    <3>2. Forgotten(prod[h]).due = 0
      BY <2>1 DEF Forgotten, Woken, Producer
    <3> QED
      BY <2>1, <3>1, <3>2, DriverCalms, YieldingSteps
  <2>3. CASE ~(h \in Queries /\ prod[h].ctx = "retired")
    <3>1. left[h] = prod[h]
      BY <2>3
    <3> QED
      BY <1>1, <2>1, <2>3, <3>1, YieldingSteps DEF RingTurns, Sound
  <2> QED
    BY <2>2, <2>3
<1>3. left \in [Producers -> Producer]
  BY <1>2
<1>4. ASSUME NEW queries \in BOOLEAN
      PROVE  \E C \in SUBSET Producers, c \in Nat, n \in 0 .. 2 :
               /\ C = Class(queries) /\ c = Resume(o, queries) /\ ClassWaits(left, C, c, n)
               /\ n = IF queries # DrainsQueries THEN Later(own, "tx", queries)
                      ELSE IF own.drain = 2 /\ cut THEN 1 ELSE 2
  <2>1. PICK C \in SUBSET Producers, c \in Nat, n \in 0 .. 2 :
           /\ C = Class(queries) /\ c = Resume(o, queries) /\ ClassWaits(prod, C, c, n)
           /\ n = IF queries # DrainsQueries THEN Later(own, "tx", queries)
                  ELSE IF own.drain = 2 /\ cut THEN 1 ELSE 2
    BY <1>1, EndPays
  <2>2. \A h \in C : Stays(prod[h], left[h]) /\ Settles(prod[h], left[h])
    BY <1>2 DEF Yielding
  <2>3. n \in Nat
    OBVIOUS
  <2> HIDE DEF left
  <2>4. ClassWaits(left, C, c, n)
    BY <1>1, <1>3, <2>1, <2>2, <2>3, ClassLeaves
  <2> QED
    BY <2>1, <2>4
<1>5. CASE own.drain = 1
  <2> DEFINE q == ~own.queries_first
  <2>1. /\ own' = [o EXCEPT !.drain = 2, !.visited = 0, !.served = FALSE,
                            !.slots = handle_scratch(q, prod)]
        /\ prod' = left /\ stage' = "tx"
    BY <1>5 DEF ClassEnds
  <2>2. /\ own'.drain = 2 /\ own'.visited = 0 /\ own'.slots = handle_scratch(q, prod)
        /\ own'.queries_first = own.queries_first /\ ~own'.served
        /\ own'.svc_resume = o.svc_resume /\ own'.query_resume = o.query_resume
    BY <2>1 DEF ReactorShape
  <2>3. DrainsQueries = own.queries_first /\ DrainsQueries' = q
    BY <1>1, <1>5, <2>2 DEF DrainsQueries
  <2>4. ClassNow' = Class(q) /\ Class(q) \in SUBSET Producers
    BY <2>3 DEF ClassNow, Class, Producers
  <2>5. BothWait(prod', own', stage')
    <3>1. ASSUME NEW queries \in BOOLEAN
          PROVE  ClassWaits(left, Class(queries), Resume(own', queries), Later(own', "tx", queries))
      <4>1. PICK C \in SUBSET Producers, c \in Nat, n \in 0 .. 2 :
               /\ C = Class(queries) /\ c = Resume(o, queries) /\ ClassWaits(left, C, c, n)
               /\ n = IF queries # DrainsQueries THEN Later(own, "tx", queries)
                      ELSE IF own.drain = 2 /\ cut THEN 1 ELSE 2
        BY <1>4
      <4>2. Resume(own', queries) = c
        BY <2>2, <4>1 DEF Resume
      <4>3. Later(own', "tx", queries) = n
        BY <1>1, <1>5, <2>2, <2>3, <4>1 DEF Later
      <4> QED
        BY <4>1, <4>2, <4>3, Zenon
    <3> HIDE DEF left
    <3> QED
      BY <2>1, <3>1, Zenon DEF BothWait
  <2>6. own'.slots = Walk(Ring(ClassNow', prod'))
    <3>1. \A h \in Class(q) : There(left[h]) <=> There(prod[h])
      <4>1. ASSUME NEW h \in Class(q) PROVE left[h] = prod[h]
        <5>1. h \in Producers
          BY <2>4
        <5>2. ~(h \in Queries /\ prod[h].ctx = "retired")
          <6>1. CASE own.queries_first
            <7>1. h \in Services
              BY <4>1, <6>1 DEF Class
            <7>2. h \notin Queries
              <8>1. \A s \in Services : s \in Nat
                BY DriverAssumption DEF Producers
              <8>2. ~(h < h)
                BY <7>1, <8>1
              <8> QED
                BY <7>1, <8>2, DriverAssumption
            <7> QED
              BY <7>2
          <6>2. CASE ~own.queries_first
            BY <2>3, <5>1, <6>2 DEF RingTurns
          <6> QED
            BY <6>1, <6>2
        <5> QED
          BY <5>1, <5>2
      <4> QED
        BY <4>1
    <3>2. Ring(Class(q), left) = {h \in Class(q) : prod[h].ctx \notin {"absent", "gone"}}
      BY <3>1 DEF Ring, There
    <3>3. own'.slots = Walk({h \in Class(q) : prod[h].ctx \notin {"absent", "gone"}})
      BY <2>2 DEF handle_scratch, Class
    <3> QED
      BY <2>1, <2>4, <3>2, <3>3
  <2>7. ASSUME NEW h \in ClassNow', Eager(prod'[h])
        PROVE  Walked(own') <= Away(ClassNow', prod', Cursor', h)
    <3>1. Cursor' \in Nat
      BY <2>2 DEF Cursor
    <3>2. There(prod'[h])
      BY <2>7 DEF Eager, There
    <3>3. Away(ClassNow', prod', Cursor', h) \in Nat
      BY <2>4, <2>7, <3>1, <3>2, Weights
    <3>4. Walked(own') = 0
      BY <2>2 DEF Walked
    <3> QED
      BY <3>3, <3>4
  <2>8. \A h \in Producers : prod'[h].ctx # "retired"
    BY <1>2, <2>1
  <2> QED
    BY <2>1, <2>2, <2>5, <2>6, <2>7, <2>8 DEF RingTurns
<1>6. CASE own.drain = 2
  <2> DEFINE passed == [h \in Producers |-> Overlooked(left[h])]
  <2>1. /\ more' = (more \/ cut)
        /\ own' = [o EXCEPT !.queries_first = IF more' THEN ~@ ELSE @, !.slots = <<>>,
                            !.visited = 0, !.served = FALSE]
        /\ prod' = push_updates(passed)
        /\ stage' = "goodbye"
    BY <1>6 DEF ClassEnds
  <2>2. /\ ~own'.served /\ own'.queries_first = IF more' THEN ~own.queries_first ELSE own.queries_first
        /\ own'.svc_resume = o.svc_resume /\ own'.query_resume = o.query_resume
    BY <2>1 DEF ReactorShape
  <2>3. DrainsQueries = ~own.queries_first
    BY <1>1, <1>6 DEF DrainsQueries
  <2>4. ASSUME NEW h \in Producers
        PROVE  /\ passed[h] \in Producer /\ passed[h].ctx = left[h].ctx
               /\ Yielding(passed[h], prod'[h]) /\ prod'[h].ctx # "retired"
    <3>1. passed[h] = Overlooked(left[h]) /\ left[h] \in Producer /\ left[h].ctx # "retired"
      BY <1>2
    <3> HIDE DEF left
    <3>2. passed[h] \in Producer /\ passed[h].ctx = left[h].ctx
      BY <3>1, DriverCalms DEF Overlooked, Producer
    <3> HIDE DEF passed
    <3>3. prod'[h] = Pushed(passed[h], h)
      BY <2>1 DEF push_updates
    <3>4. Yielding(passed[h], prod'[h])
      BY <3>2, <3>3, PushedYields
    <3> QED
      BY <3>1, <3>2, <3>4 DEF Yielding
  <2>5. passed \in [Producers -> Producer]
    BY <2>4
  <2>6. BothWait(prod', own', stage')
    <3>1. ASSUME NEW queries \in BOOLEAN
          PROVE  ClassWaits(prod', Class(queries), Resume(own', queries), Later(own', "goodbye", queries))
      <4>1. PICK C \in SUBSET Producers, c \in Nat, n \in 0 .. 2 :
               /\ C = Class(queries) /\ c = Resume(o, queries) /\ ClassWaits(left, C, c, n)
               /\ n = IF queries # DrainsQueries THEN Later(own, "tx", queries)
                      ELSE IF own.drain = 2 /\ cut THEN 1 ELSE 2
        BY <1>4
      <4>2. Resume(own', queries) = c
        BY <2>2, <4>1 DEF Resume
      <4>3. PICK m \in {0, 1} : m = Later(own', "goodbye", queries)
        BY DEF Later
      <4>4. m + 1 <= n
        BY <1>1, <1>6, <2>1, <2>2, <2>3, <4>1, <4>3 DEF Later
      <4>5. \A h \in C : left[h].due # 0 => ~left[h].ending
        BY <1>2
      <4>6. \A h \in C : passed[h] = Overlooked(left[h])
        OBVIOUS
      <4>7. \A h \in C : Stays(passed[h], prod'[h]) /\ Settles(passed[h], prod'[h])
        BY <2>4 DEF Yielding
      <4> HIDE DEF left, passed
      <4>8. n \in Nat /\ m \in Nat /\ m + 1 \in Nat
        OBVIOUS
      <4>9. ClassWaits(left, C, c, m + 1)
        BY <1>3, <4>1, <4>4, <4>8, ClassRelaxes
      <4>10. ClassWaits(passed, C, c, m)
        BY <1>3, <4>5, <4>6, <4>9, ClassPassed
      <4>11. ClassWaits(prod', C, c, m)
        BY <2>5, <4>7, <4>8, <4>10, ClassLeaves
      <4> QED
        BY <4>1, <4>2, <4>3, <4>11
    <3> QED
      BY <2>1, <3>1 DEF BothWait
  <2> QED
    BY <2>1, <2>2, <2>4, <2>6 DEF RingTurns
<1> QED
  BY <1>1, <1>5, <1>6

(* Both ways to end a class keep the ring turning.                         *)
LEMMA ClassOverRing ==
  ASSUME DriverInv, ReactorBusy, RingTurns, driver = "reactor",
         prod' \in [Producers -> Producer], CutShort \/ ClassDone
  PROVE  RingTurns'
<1>1. prod \in [Producers -> Producer] /\ ReactorShape(own)
  BY DEF DriverInv, Common, ReactorInv
<1>2. own.svc_resume \in Nat /\ own.query_resume \in Nat
  BY DEF ReactorBusy
<1>3. CASE ClassDone
  <2>1. stage = "tx" /\ own.visited = Len(own.slots) /\ ClassEnds(own, FALSE)
    BY <1>3 DEF ClassDone
  <2>2. NowPays(own, FALSE)
    BY <2>1, DonePays
  <2> QED
    BY <1>1, <1>2, <2>1, <2>2, ClassEndsRing
<1>4. CASE CutShort
  <2>1. Draining /\ stage = "tx" /\ ~may_start_fanout /\ ClassEnds(ResumeAt(own), TRUE)
    BY <1>4 DEF CutShort, Draining
  <2>2. PICK o : o = ResumeAt(own)
    OBVIOUS
  <2>3. /\ NowPays(o, TRUE) /\ Resume(o, ~DrainsQueries) = Resume(own, ~DrainsQueries)
        /\ o.svc_resume \in Nat /\ o.query_resume \in Nat
    BY <1>1, <2>1, <2>2, CutPays
  <2>4. PICK a \in Nat : \/ o = [own EXCEPT !.query_resume = a]
                         \/ o = [own EXCEPT !.svc_resume = a]
    <3>1. SlotAt \in Nat /\ SlotAt + 1 \in Nat
      BY <2>1, SlotInClass
    <3> QED
      BY <2>2, <3>1 DEF ResumeAt
  <2>5. ReactorShape(o) /\ o.drain = own.drain /\ o.queries_first = own.queries_first
    BY <1>1, <2>4 DEF ReactorShape
  <2> QED
    BY <1>1, <2>1, <2>2, <2>3, <2>5, ClassEndsRing
<1> QED
  BY <1>3, <1>4

(* A datagram or a timer makes nobody give way.                            *)
LEMMA PromptedYields ==
  ASSUME NEW P \in [Producers -> Producer], NEW g \in Producers, NEW backlog,
         Prompted(P, g, backlog)
  PROVE  \A h \in Producers : Yielding(P[h], prod'[h]) /\ prod'[h].ctx = P[h].ctx
<1>1. PICK p \in Producer : p = P[g]
  OBVIOUS
<1>2. PICK q : /\ prod' = [P EXCEPT ![g] = q]
               /\ \/ q = [p EXCEPT !.due = @ + 1]
                  \/ q = [p EXCEPT !.ending = TRUE, !.due = 0]
  BY <1>1 DEF Prompted
<1>3. q.ctx = p.ctx /\ q.waited = p.waited /\ Yielding(p, q)
  <2>1. /\ p.waited \in Nat /\ p.due + 1 # 0 /\ p.waited <= p.waited
    BY DEF Producer
  <2> QED
    BY <1>2, <2>1 DEF Yielding, Stays, Settles, Eager, There, Producer
<1> QED
  BY <1>1, <1>2, <1>3, YieldingSteps

(* A pass begins with the walk of the class that goes first.               *)
LEMMA ReactorPassRing ==
  ASSUME DriverInv, ReactorBusy, RingTurns, driver = "reactor",
         prod' \in [Producers -> Producer], ReactorPass
  PROVE  RingTurns'
<1> DEFINE P == sweep_closed_handles
<1>1. prod \in [Producers -> Producer] /\ ReactorShape(own)
  BY DEF DriverInv, Common, ReactorInv
<1>2. /\ stage = "recv" /\ stage' = "tx" /\ fire_timeouts(P) /\ budget' = budget
      /\ own' = [own EXCEPT !.slots = handle_scratch(own.queries_first, P)]
  BY DEF ReactorPass
<1>3. own.drain = 1 /\ own.visited = 0 /\ own.queries_first \in BOOLEAN /\ ~own.served
  BY <1>2 DEF ReactorBusy, RingTurns
<1>4. ASSUME NEW h \in Producers
      PROVE  P[h] \in Producer /\ Yielding(prod[h], P[h]) /\ P[h].ctx # "retired"
  <2>1. prod[h] \in Producer /\ prod[h].ctx # "retired"
    BY <1>1, <1>2 DEF RingTurns
  <2>2. P[h] = prod[h] \/ P[h] = Withdrawn(prod[h]) \/ P[h] = Forgotten(prod[h])
    BY DEF sweep_closed_handles, remove_service, cancel_query
  <2> HIDE DEF P
  <2>3. P[h] \in Producer
    BY <2>1, <2>2, DriverCalms
  <2>4. Yielding(prod[h], P[h])
    BY <2>1, <2>2, YieldingSteps
  <2> QED
    BY <2>1, <2>3, <2>4 DEF Yielding
<1>5. P \in [Producers -> Producer]
  <2>1. P = [h \in Producers |-> P[h]]
    BY DEF sweep_closed_handles
  <2> HIDE DEF P
  <2> QED
    BY <1>4, <2>1
<1> HIDE DEF P
<1>6. \A h \in Producers : Yielding(P[h], prod'[h]) /\ prod'[h].ctx = P[h].ctx
  <2>1. CASE prod' = P
    BY <1>5, <2>1, YieldingSteps
  <2>2. CASE \E g \in Producers : Prompted(P, g, 1)
    BY <1>5, <2>2, PromptedYields
  <2> QED
    BY <1>2, <2>1, <2>2 DEF fire_timeouts
<1>7. /\ own'.slots = handle_scratch(own.queries_first, P) /\ own'.visited = 0 /\ ~own'.served
      /\ own'.drain = 1 /\ own'.queries_first = own.queries_first
      /\ own'.svc_resume = own.svc_resume /\ own'.query_resume = own.query_resume
  BY <1>1, <1>2, <1>3 DEF ReactorShape
<1>8. DrainsQueries' = own.queries_first
  BY <1>3, <1>7 DEF DrainsQueries
<1>9. ClassNow' = Class(own.queries_first) /\ Class(own.queries_first) \in SUBSET Producers
  BY <1>8 DEF ClassNow, Class, Producers
<1>10. BothWait(prod', own', stage')
  <2>1. BothWait(prod, own, stage)
    BY DEF RingTurns
  <2>2. BothWait(P, own, stage)
    BY <1>1, <1>4, <1>5, <2>1, BothYield
  <2>3. BothWait(prod', own, stage)
    BY <1>5, <1>6, <2>2, BothYield
  <2>4. \A queries \in BOOLEAN : /\ Resume(own', queries) = Resume(own, queries)
                                 /\ Later(own', stage', queries) = Later(own, stage, queries)
    BY <1>2, <1>3, <1>7 DEF Resume, Later
  <2> QED
    BY <2>3, <2>4 DEF BothWait
<1>11. own'.slots = Walk(Ring(ClassNow', prod'))
  <2>1. Ring(ClassNow', prod') = {h \in Class(own.queries_first) : P[h].ctx \notin {"absent", "gone"}}
    BY <1>6, <1>9 DEF Ring, There
  <2> QED
    BY <1>7, <2>1 DEF handle_scratch, Class
<1>12. ASSUME NEW h \in ClassNow', Eager(prod'[h])
       PROVE  Walked(own') <= Away(ClassNow', prod', Cursor', h)
  <2>1. Cursor' \in Nat
    BY <1>7 DEF Cursor, ReactorBusy
  <2>2. There(prod'[h])
    BY <1>12 DEF Eager, There
  <2>3. Away(ClassNow', prod', Cursor', h) \in Nat
    BY <1>9, <1>12, <2>1, <2>2, Weights
  <2>4. Walked(own') = 0
    BY <1>7 DEF Walked
  <2> QED
    BY <2>3, <2>4
<1>13. may_start_fanout'
  BY <1>2 DEF RingTurns, may_start_fanout
<1>14. \A h \in Producers : prod'[h].ctx # "retired"
  BY <1>4, <1>6
<1> QED
  BY <1>2, <1>10, <1>11, <1>12, <1>13, <1>14 DEF RingTurns

(* The mailbox and the doorbell are no part of the ring.                   *)
LEMMA WorldYields ==
  ASSUME NEW p \in Producer, NEW q,
         \/ p.ctx = "absent" /\ q = [p EXCEPT !.open = TRUE]
         \/ q = Dropped(p) \/ q = [p EXCEPT !.ready = TRUE]
         \/ \E t, r : q = [p EXCEPT !.told = t, !.reader = r]
  PROVE  Yielding(p, q) /\ q.ctx = p.ctx
<1>1. p.waited <= p.waited
  BY YieldingSteps DEF Yielding, Settles
<1> QED
  BY <1>1 DEF Yielding, Stays, Settles, Eager, There, Producer, Dropped

(* Other threads, the receive tasks and the clock take nobody's turn.      *)
LEMMA ReactorWorldRing ==
  ASSUME DriverInv, ReactorBusy, RingTurns, driver = "reactor",
         prod' \in [Producers -> Producer],
         \/ \E h \in Producers : ReactorAsks(h) \/ ReactorDrops(h) \/ ReactorReads(h) \/ RoundDue(h)
         \/ EndpointDropped \/ (\E f \in Links : RecvFails(f))
         \/ UNCHANGED drvVars
  PROVE  RingTurns'
<1>1. prod \in [Producers -> Producer] /\ ReactorShape(own)
  BY DEF DriverInv, Common, ReactorInv
<1>2. /\ stage' = stage /\ budget' = budget
      /\ \E cmds : own' = own \/ own' = [own EXCEPT !.cmds = cmds]
  BY DEF ReactorAsks, ReactorDrops, ReactorReads, RoundDue, EndpointDropped, RecvFails, rKeep,
         drvVars
<1>3. \A h \in Producers : Yielding(prod[h], prod'[h]) /\ prod'[h].ctx = prod[h].ctx
  <2>1. CASE prod' = prod
    BY <1>1, <2>1, YieldingSteps
  <2>2. ASSUME NEW g \in Producers, NEW q, prod' = [prod EXCEPT ![g] = q],
               \/ prod[g].ctx = "absent" /\ q = [prod[g] EXCEPT !.open = TRUE]
               \/ q = Dropped(prod[g]) \/ q = [prod[g] EXCEPT !.ready = TRUE]
               \/ \E t, r : q = [prod[g] EXCEPT !.told = t, !.reader = r]
        PROVE  \A h \in Producers : Yielding(prod[h], prod'[h]) /\ prod'[h].ctx = prod[h].ctx
    <3>1. Yielding(prod[g], q) /\ q.ctx = prod[g].ctx
      BY <1>1, <2>2, WorldYields
    <3> QED
      BY <1>1, <2>2, <3>1, YieldingSteps
  <2>3. ASSUME NEW g \in Producers, ReactorAsks(g)
        PROVE  prod[g].ctx = "absent" /\ prod' = [prod EXCEPT ![g] = [prod[g] EXCEPT !.open = TRUE]]
    BY <2>3 DEF ReactorAsks
  <2>4. ASSUME NEW g \in Producers, ReactorDrops(g)
        PROVE  prod' = [prod EXCEPT ![g] = Dropped(prod[g])]
    BY <2>4 DEF ReactorDrops
  <2>5. ASSUME NEW g \in Producers, RoundDue(g)
        PROVE  prod' = [prod EXCEPT ![g] = [prod[g] EXCEPT !.ready = TRUE]]
    BY <2>5 DEF RoundDue
  <2>6. ASSUME NEW g \in Producers, ReactorReads(g)
        PROVE  \E t, r : prod' = [prod EXCEPT ![g] = [prod[g] EXCEPT !.told = t, !.reader = r]]
    <3>1. PICK t, r : prod' = [prod EXCEPT ![g].told = t, ![g].reader = r]
      BY <2>6 DEF ReactorReads
    <3>2. prod' = [prod EXCEPT ![g] = [prod[g] EXCEPT !.told = t, !.reader = r]]
      BY <1>1, <3>1
    <3> QED
      BY <3>2
  <2>7. CASE EndpointDropped \/ (\E f \in Links : RecvFails(f)) \/ UNCHANGED drvVars
    BY <2>1, <2>7 DEF EndpointDropped, RecvFails, drvVars
  <2> QED
    BY <2>2, <2>3, <2>4, <2>5, <2>6, <2>7
<1>4. SameWalk(own') /\ own'.visited = own.visited /\ own'.served = own.served
  BY <1>1, <1>2 DEF SameWalk, ReactorShape
<1>5. CASE stage = "tx"
  <2>1. Walked(own') = Walked(own) /\ may_start_fanout' = may_start_fanout
    BY <1>2, <1>4 DEF Walked, may_start_fanout
  <2>2. \A h \in Producers : /\ Stays(prod[h], prod'[h]) /\ Settles(prod[h], prod'[h])
                             /\ prod'[h].ctx = "gone" => prod[h].ctx = "gone"
                             /\ prod'[h].ctx = "retired" => DrainsQueries /\ h \in Queries
    BY <1>3 DEF Yielding, RingTurns
  <2> QED
    BY <1>1, <1>2, <1>4, <1>5, <2>1, <2>2, RingWalks
<1>6. CASE stage # "tx"
  <2>1. SameOrder(own')
    BY <1>4 DEF SameWalk, SameOrder
  <2>2. stage' \notin {"tx", "goodbye"} => may_start_fanout'
    BY <1>2 DEF RingTurns, may_start_fanout
  <2> QED
    BY <1>1, <1>2, <1>3, <1>6, <2>1, <2>2, RingRests
<1> QED
  BY <1>5, <1>6

(* A registration takes its place, a removal leaves one.                   *)
LEMMA CommandedRing ==
  ASSUME DriverInv, ReactorBusy, RingTurns, driver = "reactor",
         prod' \in [Producers -> Producer],
         NEW c \in {"add", "remove"} \X Producers, handle_command(c)
  PROVE  RingTurns'
<1>1. prod \in [Producers -> Producer] /\ ReactorShape(own)
  BY DEF DriverInv, Common, ReactorInv
<1>2. PICK g \in Producers : c = <<c[1], g>> /\ c[2] = g /\ c[1] \in {"add", "remove"}
  OBVIOUS
<1>3. PICK q, cmds : /\ q = Commanded(c) /\ prod' = [prod EXCEPT ![g] = q]
                     /\ own' = [own EXCEPT !.cmds = cmds]
  BY <1>2 DEF handle_command
<1>4. /\ stage \in {"commands", "park"} /\ stage' \in {"commands", "recv"}
      /\ budget' = budget /\ <<c[1], g>> \in own.cmds
  BY <1>2 DEF handle_command, rKeep
<1>5. SameOrder(own') /\ may_start_fanout'
  BY <1>1, <1>3, <1>4 DEF SameOrder, ReactorShape, RingTurns, may_start_fanout
<1>6. PICK p \in Producer : p = prod[g]
  BY <1>1
<1>7. ASSUME Yielding(p, q) PROVE RingTurns'
  <2>1. \A h \in Producers : Yielding(prod[h], prod'[h])
    BY <1>1, <1>3, <1>6, <1>7, YieldingSteps
  <2> QED
    BY <1>1, <1>4, <1>5, <2>1, RingRests
<1>8. ASSUME p.ctx = "absent", There(q), q.waited = 0, q.ctx # "retired" PROVE RingTurns'
  BY <1>1, <1>3, <1>4, <1>5, <1>6, <1>8, RingJoins
<1>9. CASE c[1] = "remove"
  <2>1. q = Withdrawn(p) \/ q = Forgotten(p)
    BY <1>2, <1>3, <1>6, <1>9 DEF Commanded, remove_service, cancel_query, Producers
  <2> QED
    BY <1>6, <1>7, <2>1, YieldingSteps
<1>10. CASE c[1] = "add"
  <2>1. p.ctx = "absent"
    BY <1>4, <1>6, <1>10 DEF DriverInv, ReactorInv
  <2>2. q = AddOrRollBack(g)
    BY <1>2, <1>3, <1>10 DEF Commanded
  <2>3. PICK s \in Producer : s = Started(g) /\ s.ctx = "live" /\ s.waited = 0
    <3>1. Started(g) \in Producer /\ Started(g).ctx = "live"
      BY StartedSound DEF Sound
    <3>2. Started(g).waited = 0
      BY DEF Started, NoProducer
    <3> QED
      BY <3>1, <3>2
  <2>4. CASE p.open
    <3>1. q = s
      BY <1>6, <2>2, <2>3, <2>4 DEF AddOrRollBack
    <3> QED
      BY <1>8, <2>1, <2>3, <3>1 DEF There
  <2>5. CASE ~p.open
    <3>1. PICK t \in Producer : t = [s EXCEPT !.open = FALSE] /\ t.ctx = "live" /\ t.waited = 0
      <4>1. PICK t : t = [s EXCEPT !.open = FALSE]
        OBVIOUS
      <4>2. t \in Producer /\ t.ctx = s.ctx /\ t.waited = s.waited
        BY <4>1 DEF Producer
      <4> QED
        BY <2>3, <4>1, <4>2
    <3>2. q = Withdrawn(t) \/ q = Forgotten(t)
      BY <1>6, <2>2, <2>3, <2>5, <3>1 DEF AddOrRollBack, remove_service, cancel_query
    <3>3. CASE q = Withdrawn(t)
      <4>1. q.ctx = "leaving" /\ q.waited = 0
        BY <3>1, <3>3 DEF Withdrawn, Producer
      <4> QED
        BY <1>8, <2>1, <4>1 DEF There
    <3>4. CASE q = Forgotten(t)
      <4>1. q.ctx = "gone" /\ q.waited = 0
        BY <3>1, <3>4 DEF Forgotten, Woken, Producer
      <4>2. 0 <= p.waited
        BY DEF Producer
      <4> QED
        BY <1>7, <4>1, <4>2 DEF Yielding, Stays, Settles, Eager
    <3> QED
      BY <3>2, <3>3, <3>4
  <2> QED
    BY <2>4, <2>5
<1> QED
  BY <1>2, <1>9, <1>10

(* The rest of the loop lets producers leave, and turns nothing.           *)
LEMMA ReactorRestRing ==
  ASSUME DriverInv, ReactorBusy, RingTurns, driver = "reactor",
         prod' \in [Producers -> Producer],
         \/ \E f \in Links, h \in Producers : ReactorHears(f, h)
         \/ \E h \in Services, n \in Fanouts : ReactorGoodbye(h, n)
         \/ ReactorPassOver \/ ReactorResumes \/ (\E by_timer \in BOOLEAN : ReactorWakes(by_timer))
         \/ ReactorCloses \/ (\E h \in Services : ReactorFlushes(h)) \/ ReactorEnds
  PROVE  RingTurns'
<1>1. prod \in [Producers -> Producer] /\ ReactorShape(own) /\ Services \subseteq Producers
  BY DEF DriverInv, Common, ReactorInv, Producers
<1>2. stage # "tx" /\ stage' # "tx"
  BY DEF ReactorHears, ReactorGoodbye, ReactorPassOver, ReactorResumes, ReactorWakes,
         ReactorCloses, ReactorFlushes, ReactorEnds
<1>3. SameOrder(own')
  <2>1. CASE own' = own \/ own' = [own EXCEPT !.cmds = {}] \/ own' = [own EXCEPT !.drain = 1]
    BY <1>1, <2>1 DEF SameOrder, ReactorShape
  <2> QED
    BY <2>1 DEF ReactorHears, ReactorGoodbye, ReactorPassOver, ReactorResumes, ReactorWakes,
       ReactorCloses, ReactorFlushes, ReactorEnds
<1>4. stage' \notin {"tx", "goodbye"} => may_start_fanout'
  <2>1. CASE ReactorPassOver
    <3>1. budget'.credits > 0 /\ ~budget'.started
      BY <2>1, DriverAssumption DEF ReactorPassOver, NewBudget
    <3> QED
      BY <3>1 DEF may_start_fanout
  <2>2. CASE \E h \in Services, n \in Fanouts : ReactorGoodbye(h, n)
    BY <2>2 DEF ReactorGoodbye
  <2>3. CASE budget' = budget /\ stage \notin {"tx", "goodbye"}
    BY <2>3 DEF RingTurns, may_start_fanout
  <2> QED
    BY <2>1, <2>2, <2>3 DEF ReactorHears, ReactorResumes, ReactorWakes, ReactorCloses,
       ReactorFlushes, ReactorEnds, rKeep
<1>5. \A h \in Producers : Yielding(prod[h], prod'[h])
  <2>1. ASSUME \A h \in Producers : prod'[h] \in {prod[h], Withdrawn(prod[h]), Forgotten(prod[h]),
                                                  Farewelled(prod[h]), Discarded(prod[h])}
        PROVE  \A h \in Producers : Yielding(prod[h], prod'[h])
    BY <1>1, <2>1, YieldingSteps
  <2>2. CASE \E f \in Links, h \in Producers : ReactorHears(f, h)
    BY <1>1, <2>2, PromptedYields DEF ReactorHears, Heard
  <2>3. CASE \/ \E h \in Services, n \in Fanouts : ReactorGoodbye(h, n)
             \/ \E h \in Services : ReactorFlushes(h)
    BY <1>1, <2>1, <2>3 DEF ReactorGoodbye, ReactorFlushes
  <2>4. CASE ReactorPassOver
    BY <2>1, <2>4 DEF ReactorPassOver
  <2>5. CASE ReactorResumes \/ (\E by_timer \in BOOLEAN : ReactorWakes(by_timer))
    BY <2>1, <2>5 DEF ReactorResumes, ReactorWakes
  <2>6. CASE ReactorCloses
    BY <2>1, <2>6 DEF ReactorCloses, remove_service
  <2>7. CASE ReactorEnds
    BY <2>1, <2>7 DEF ReactorEnds
  <2> QED
    BY <2>2, <2>3, <2>4, <2>5, <2>6, <2>7
<1> QED
  BY <1>1, <1>2, <1>3, <1>4, <1>5, RingRests

(* Every step of the reactor, of its callers and of the world keeps it.    *)
LEMMA ReactorRingStep ==
  ASSUME DriverInv, ReactorBusy, RingTurns, driver = "reactor",
         prod' \in [Producers -> Producer], [Next]_drvVars
  PROVE  RingTurns'
<1>1. \/ ReactorLoop \/ ReactorWorld \/ EndpointDropped
      \/ (\E h \in Producers : ReactorReads(h) \/ RoundDue(h)) \/ UNCHANGED drvVars
  BY DEF Next, Loop, World, Reads
<1>2. CASE ReactorLoop
  BY <1>2, ClassOverRing, ReactorPassRing, ReactorTurnsRing, CommandedRing, ReactorRestRing
     DEF ReactorLoop
<1>3. CASE ReactorWorld
  BY <1>3, ReactorWorldRing, ReactorRestRing DEF ReactorWorld
<1> QED
  BY <1>1, <1>2, <1>3, ReactorWorldRing

(* The reactor's half of the inductive invariant.                          *)
RingTurnsInv == driver = "reactor" => RingTurns

(* Before the reactor ran nobody is in a ring, and nobody waits.           *)
LEMMA RingInit == Init => RingTurnsInv
<1> SUFFICES ASSUME Init, driver = "reactor" PROVE RingTurns
  BY DEF RingTurnsInv
<1>1. /\ stage = "recv" /\ own = NewReactor /\ budget = NewBudget
      /\ \A h \in Producers : prod[h].ctx = "absent" /\ prod[h].waited = 0
  BY DEF Init, NoProducer
<1>2. own.svc_resume = 0 /\ own.query_resume = 0 /\ ~own.served
  BY <1>1 DEF NewReactor
<1>3. may_start_fanout
  <2>1. budget.credits > 0 /\ ~budget.started
    BY <1>1, DriverAssumption DEF NewBudget
  <2> QED
    BY <2>1 DEF may_start_fanout
<1>4. ASSUME NEW queries \in BOOLEAN
      PROVE  ClassWaits(prod, Class(queries), Resume(own, queries), Later(own, stage, queries))
  <2>1. PICK C \in SUBSET Producers : C = Class(queries)
    BY DEF Class, Producers
  <2>2. 0 <= Cardinality(Ring(C, prod)) + Cardinality(Gone(C, prod))
    BY Census
  <2>3. 0 <= Allowance(C, prod)
    BY AllowanceFits
  <2>4. Resume(own, queries) = 0
    BY <1>2 DEF Resume
  <2>5. \A n : ClassWaits(prod, C, 0, n)
    BY <1>1, <2>2, <2>3 DEF ClassWaits, Eager
  <2> QED
    BY <2>1, <2>4, <2>5
<1> QED
  BY <1>1, <1>2, <1>3, <1>4 DEF RingTurns, BothWait

(* The allowance of a class is the bound that the contract states.         *)
LEMMA RingSuffices == RingTurnsInv => RingComesRound
<1> SUFFICES ASSUME driver = "reactor", RingTurns, NEW h \in Producers
             PROVE  LET class == IF h \in Services THEN Services ELSE Queries
                        left == {g \in class : prod[g].ctx = "gone"}
                    IN prod[h].waited <= 4 * Cardinality(class) * (1 + Cardinality(left))
  BY DEF RingTurnsInv, RingComesRound
<1>1. PICK C \in SUBSET Producers : C = IF h \in Services THEN Services ELSE Queries
  BY DEF Producers
<1>2. h \in C /\ (C = Class(FALSE) \/ C = Class(TRUE))
  BY <1>1 DEF Producers, Class
<1>3. prod[h].waited <= Allowance(C, prod)
  <2>1. \E c, n : ClassWaits(prod, C, c, n)
    BY <1>2 DEF RingTurns, BothWait
  <2> QED
    BY <1>2, <2>1 DEF ClassWaits
<1>4. PICK N, G \in Nat : N = Cardinality(C) /\ G = Cardinality(Gone(C, prod))
  BY Census
<1>5. 4 * (N * (1 + G)) = 4 * N * (1 + G)
  BY <1>4
<1>6. prod[h].waited <= 4 * N * (1 + G)
  BY <1>3, <1>4, <1>5 DEF Allowance
<1> QED
  BY <1>1, <1>4, <1>6 DEF Gone

(***************************************************************************)
(* The reactor's ring comes round, though its walk is made anew on every   *)
(* pass: nobody with a datagram to send waits for longer than four passes  *)
(* for every producer of its class, and as many again for each of them     *)
(* that left and let the cursor point behind its place.                    *)
(***************************************************************************)
THEOREM RingMovesOn == Spec => []RingComesRound
<1>1. Init => RingTurnsInv
  BY RingInit
<1>2. DriverInv /\ DriverInv' /\ BusyInv /\ RingTurnsInv /\ [Next]_drvVars => RingTurnsInv'
  <2> SUFFICES ASSUME DriverInv, DriverInv', BusyInv, RingTurnsInv, [Next]_drvVars,
                      driver' = "reactor"
               PROVE  RingTurns'
    BY DEF RingTurnsInv
  <2>1. driver = "reactor" /\ ReactorBusy /\ RingTurns /\ prod' \in [Producers -> Producer]
    BY SameDriver DEF BusyInv, RingTurnsInv, DriverInv, Common
  <2> QED
    BY <2>1, ReactorRingStep
<1>3. RingTurnsInv => RingComesRound
  BY RingSuffices
<1>4. Init => BusyInv
  BY BusyInit
<1>5. DriverInv /\ BusyInv /\ [Next]_drvVars => BusyInv'
  BY BusyNext
<1> QED
  BY <1>1, <1>2, <1>3, <1>4, <1>5, DriversSound, PTL DEF Spec

(* Turns come round in either driver that takes them one after another.    *)
THEOREM TurnsGoRound == Spec => []TurnsComeRound
<1>1. RingComesRound /\ LineComesRound => TurnsComeRound
  BY DEF TurnsComeRound
<1> QED
  BY <1>1, RingMovesOn, LineMovesOn, PTL

=============================================================================
