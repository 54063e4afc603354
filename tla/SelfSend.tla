------------------------------ MODULE SelfSend ------------------------------
(***************************************************************************)
(* Self-send suppression (hick-udp/src/selfsend.rs): the kernel loops every *)
(* multicast datagram back to the socket that sent it, and SelfSendTracker *)
(* decides, datagram by datagram, whether what was received is that echo.  *)
(* A send leaves a CREDIT; a receive that matches a live credit claims it. *)
(*                                                                         *)
(* The tracker is a record and its methods are operators on it.  Every     *)
(* send pushes at most one credit at the back of the code's vector, so a   *)
(* credit is known by the number of its send: lower is nearer the front.   *)
(*                                                                         *)
(* The machine around it is the driver loop as the tracker sees it (an     *)
(* outbound stage that records, a seal, a receive stage that claims), two  *)
(* sockets that are FIFO queues, peers that may send the same bytes, a     *)
(* monotonic clock and a wall clock that steps.                            *)
(***************************************************************************)
EXTENDS Clock, Sequences, FiniteSets, FiniteSetsExt, Functions

CONSTANTS SELF_SEND_TTL,          \* 2 s
          MAX_SELF_SEND_ENTRIES,  \* 65536
          MAX_SELF_SEND_BYTES,    \* 1 MiB
          WALL_STEP_TOLERANCE,    \* 50 ms
          RX_TIMESTAMP_GRAIN,     \* how far a receive stamp is truncated
          SendFamilies,           \* the sockets that are bound
          Bodies,                 \* datagrams: [id, header, len]
          Steps,                  \* wall-clock steps that may happen
          MaxSends,               \* model bound on the sends
          MaxSelfTicks,           \* model bound on the clock
          MaxPeers,               \* model bound on peers' copies
          MaxDisturbances         \* model bound on these, steps and supersessions

Headers == {"short", "response", "proposing", "plain"}

ASSUME SelfSendAssumption ==
  /\ SELF_SEND_TTL \in Nat /\ WALL_STEP_TOLERANCE \in Nat /\ RX_TIMESTAMP_GRAIN \in Nat
  /\ MAX_SELF_SEND_ENTRIES \in Nat /\ MAX_SELF_SEND_BYTES \in Nat
  /\ \A b \in Bodies : b.header \in Headers /\ b.len \in Nat \ {0}
  /\ Steps \subseteq Int /\ \A d \in Steps : d > WALL_STEP_TOLERANCE \/ -d > WALL_STEP_TOLERANCE
  /\ MaxSends \in Nat /\ MaxSelfTicks \in Nat
  /\ MaxPeers \in Nat /\ MaxDisturbances \in Nat

-----------------------------------------------------------------------------
(***************************************************************************)
(* SendClass::of: only a query with empty authority and additional         *)
(* sections asserts nothing; bytes too short for a header do.              *)
(***************************************************************************)
ClassOf(body) == IF body.header = "plain" THEN "Question" ELSE "Assertion"

(***************************************************************************)
(* A Credit carries two stamps: `sent` orders the echo against the send,   *)
(* `aged_from` is when its echo first could be claimed.                    *)
(***************************************************************************)
Credit(family, body, generation, sent) ==
  [family |-> family, body |-> body, generation |-> generation,
   class |-> ClassOf(body), sent |-> sent, aged_from |-> None]

NewTracker == [entries |-> <<>>, bytes |-> 0, generation |-> 0]

ClockPair(w, m) == [wall |-> w, mono |-> m]

(***************************************************************************)
(* A credit no seal has reached is live; after that it ages on the         *)
(* monotonic clock alone.                                                  *)
(***************************************************************************)
still_live(now, aged_from) == aged_from = None \/ now - aged_from <= SELF_SEND_TTL

Distance(a, b) == IF a >= b THEN a - b ELSE b - a

(***************************************************************************)
(* The same interval measured on two clocks: a disagreement is a step of   *)
(* the wall clock, forwards or backwards.                                  *)
(***************************************************************************)
wall_stepped(sent, now) ==
  Distance(now.wall - sent.wall, now.mono - sent.mono) > WALL_STEP_TOLERANCE

(***************************************************************************)
(* How much a match is worth: ordered by the clocks, or by content alone.  *)
(***************************************************************************)
MatchMode == {"Ordered", "Degraded"}

(***************************************************************************)
(* The match mode a claim has evidence for, about this credit.             *)
(***************************************************************************)
evidence_mode(rx, sent, now) ==
  IF rx = None \/ wall_stepped(sent, now) THEN "Degraded" ELSE "Ordered"

(***************************************************************************)
(* A receive stamp earlier than the send, past the truncation grain, is    *)
(* somebody else's datagram; a degraded claim weighs nothing.              *)
(***************************************************************************)
reference_ordered(rx, sent, mode) ==
  mode = "Degraded" \/ rx + RX_TIMESTAMP_GRAIN >= sent.wall

BytesOf(entries) == MapThenSumSet(LAMBDA n : entries[n].body.len, DOMAIN entries)

LiveCredits(entries, now) ==
  Restrict(entries, {n \in DOMAIN entries : still_live(now, entries[n].aged_from)})

(***************************************************************************)
(* Every expired credit leaves, and the byte count is taken again.         *)
(***************************************************************************)
reclaim_expired_sealed(t, now) ==
  LET kept == LiveCredits(t.entries, now)
  IN [t EXCEPT !.entries = kept, !.bytes = BytesOf(kept)]

Full(entries, bytes, len) ==
  entries >= MAX_SELF_SEND_ENTRIES \/ bytes + len > MAX_SELF_SEND_BYTES

Oldest(entries, k) == Restrict(entries, {n \in DOMAIN entries : n <= k})

Without(entries, S) == Restrict(entries, DOMAIN entries \ S)

(***************************************************************************)
(* SelfSendTracker::admit: below both caps there is nothing to weigh (0);  *)
(* at a cap, up to which credit the front may be taken to make room.  Only *)
(* dead ones: a live front refuses the newcomer instead.                   *)
(***************************************************************************)
admit(t, len, now) ==
  IF ~Full(Cardinality(DOMAIN t.entries), t.bytes, len) THEN {0}
  ELSE {k \in DOMAIN t.entries :
          LET front == Oldest(t.entries, k)
          IN /\ ~Full(Cardinality(DOMAIN t.entries \ DOMAIN front),
                      t.bytes - BytesOf(front), len)
             /\ \A n \in DOMAIN front : ~still_live(now, front[n].aged_from)}

(***************************************************************************)
(* The credit of send n goes to the back.                                  *)
(***************************************************************************)
Pushed(entries, n, credit) ==
  [i \in DOMAIN entries \cup {n} |-> IF i = n THEN credit ELSE entries[i]]

AgedFromSend(t, n, family, body, sent, now) ==
  IF Full(Cardinality(DOMAIN t.entries), t.bytes, body.len) THEN t
  ELSE [t EXCEPT !.bytes = @ + body.len,
                 !.entries = Pushed(@, n, [Credit(family, body, t.generation, sent)
                                             EXCEPT !.aged_from = sent.mono])]

(***************************************************************************)
(* SelfSendTracker::record.  At a cap the dead are reclaimed first; if     *)
(* there is still no room the new credit is dropped, never a live one.     *)
(* (The sweep and the decision each read the clock; they get one reading.) *)
(***************************************************************************)
record(t, n, family, body, sent, now) ==
  LET swept == IF Full(Cardinality(DOMAIN t.entries), t.bytes, body.len)
               THEN reclaim_expired_sealed(t, now) ELSE t
      room  == admit(swept, body.len, now)
      k     == CHOOSE j \in room : \A i \in room : j <= i
      front == Oldest(swept.entries, k)
  IN IF room = {} THEN swept
     ELSE [swept EXCEPT
             !.bytes = @ - BytesOf(front) + body.len,
             !.entries = Pushed(Without(@, DOMAIN front), n,
                                Credit(family, body, swept.generation, sent))]

(***************************************************************************)
(* SelfSendTracker::supersede: what was sent so far asserts records this   *)
(* endpoint no longer publishes.                                           *)
(***************************************************************************)
supersede(t) == [t EXCEPT !.generation = @ + 1]

ReopenEveryWindow(t, opened_at) ==
  [t EXCEPT !.entries = [i \in DOMAIN t.entries |->
                           [t.entries[i] EXCEPT !.aged_from = opened_at]]]

(***************************************************************************)
(* The claim window of every credit recorded since the last seal opens.    *)
(* (The seal counter, which only the drivers' assertions read, is theirs.  *)
(* The sweep and the anchor get one reading of the clock where `seal`      *)
(* takes two: a credit that dies between them is refused by `claim`.)      *)
(***************************************************************************)
open_window_at(t, opened_at) ==
  [t EXCEPT !.entries = [i \in DOMAIN t.entries |->
                           [t.entries[i] EXCEPT !.aged_from =
                              IF @ = None THEN opened_at ELSE @]]]

seal(t, now) == open_window_at(reclaim_expired_sealed(t, now), now)

has_unsealed(t) == \E i \in DOMAIN t.entries : t.entries[i].aged_from = None

(***************************************************************************)
(* The credits a claim may weigh: same socket, same bytes, live, and sent  *)
(* before the datagram was received.                                       *)
(***************************************************************************)
Eligible(t, family, body, rx, now) ==
  {i \in DOMAIN t.entries :
     LET c == t.entries[i]
     IN /\ c.family = family /\ c.body = body
        /\ still_live(now.mono, c.aged_from)
        /\ reference_ordered(rx, c.sent, evidence_mode(rx, c.sent, now))}

AnyGeneration(t, family, body, rx, now) == Eligible(t, family, body, rx, now)

(***************************************************************************)
(* A credit answers for bytes still published: recorded in the current     *)
(* generation, or a question, which asserts nothing to go stale.           *)
(***************************************************************************)
Current(t, family, body, rx, now) ==
  {i \in Eligible(t, family, body, rx, now) :
     t.entries[i].generation = t.generation \/ t.entries[i].class = "Question"}

(***************************************************************************)
(* SelfSendTracker::claim: the oldest current credit is taken, once; a     *)
(* superseded one stands as a tombstone and is never spent.                *)
(***************************************************************************)
claim(t, family, body, rx, now) ==
  LET current == Current(t, family, body, rx, now)
      pos     == CHOOSE i \in current : \A j \in current : i <= j
  IN IF current # {}
     THEN [verdict |-> evidence_mode(rx, t.entries[pos].sent, now),
           tracker |-> [t EXCEPT !.entries = Without(@, {pos}),
                                 !.bytes = @ - t.entries[pos].body.len]]
     ELSE [verdict |-> IF Eligible(t, family, body, rx, now) = {}
                       THEN "NoCredit" ELSE "Superseded",
           tracker |-> t]

-----------------------------------------------------------------------------
VARIABLES mono, skew,      \* the monotonic clock; wall minus monotonic
          stamps,          \* whether the platform stamps what it receives
          tracker,
          stage,           \* the driver loop: "out" records, "recv" claims
          pending,         \* a send whose stamp is taken and syscall is not made
          queue,           \* each socket's receive queue
          sends,           \* ghost: every send the kernel accepted
          stepped,         \* ghost: wall steps so far
          peers,           \* ghost: peer datagrams so far
          spoiled          \* ghost: keys whose credits were refused or misspent

selfVars == <<mono, skew, stamps, tracker, stage, pending, queue, sends, stepped, peers,
              spoiled>>

wall == mono + skew

Disturbable == peers + stepped + tracker.generation < MaxDisturbances

Key(family, body) == <<family, body.id>>

SelfInit ==
  /\ mono = 0 /\ skew = 0 /\ stamps \in BOOLEAN /\ tracker = NewTracker /\ stage = "out"
  /\ pending = None /\ queue = [f \in SendFamilies |-> <<>>]
  /\ sends = <<>> /\ stepped = 0 /\ peers = 0 /\ spoiled = {}

(***************************************************************************)
(* note_multicast_attempt, first half: the clock pair is read before the   *)
(* syscall, and anything may stall in between.                             *)
(***************************************************************************)
Stamp(f, b) ==
  /\ stage = "out" /\ pending = None /\ Len(sends) < MaxSends
  /\ pending' = [family |-> f, body |-> b, sent |-> ClockPair(wall, mono), stepped |-> stepped]
  /\ UNCHANGED <<mono, skew, stamps, tracker, stage, queue, sends, stepped, peers, spoiled>>

(***************************************************************************)
(* A kernel receive stamp, truncated to its grain, or none where the       *)
(* platform gives none.                                                    *)
(***************************************************************************)
RxStamps == IF stamps THEN {wall - g : g \in 0 .. RX_TIMESTAMP_GRAIN} ELSE {None}

(***************************************************************************)
(* One received datagram and the evidence of when it was received, never   *)
(* apart; the ghosts tell which send it echoes (0: a peer's) and when.     *)
(***************************************************************************)
RxDatagram(body, rx, send, at) ==
  [body |-> body, rx |-> rx, send |-> send, stepped |-> at]

(***************************************************************************)
(* The kernel accepts the datagram and loops it back (or its queue drops   *)
(* it); only then is the credit recorded.                                  *)
(***************************************************************************)
Submitted ==
  /\ pending # None
  /\ LET p == pending
         after == record(tracker, Len(sends) + 1, p.family, p.body, p.sent, mono)
         live  == LiveCredits(tracker.entries, mono)
         refused == Full(Cardinality(DOMAIN live), BytesOf(live), p.body.len)
     IN /\ tracker' = after
        /\ sends' = Append(sends, [key |-> Key(p.family, p.body), class |-> ClassOf(p.body),
                                   generation |-> tracker.generation, opened |-> None])
        /\ spoiled' = IF refused THEN spoiled \cup {Key(p.family, p.body)} ELSE spoiled
        /\ \/ queue' = queue
           \/ \E rx \in RxStamps :
                queue' = [queue EXCEPT ![p.family] =
                            Append(@, RxDatagram(p.body, rx, Len(sends) + 1, p.stepped))]
  /\ pending' = None
  /\ UNCHANGED <<mono, skew, stamps, stage, stepped, peers>>

(***************************************************************************)
(* A failed send records nothing.                                          *)
(***************************************************************************)
SendFailed ==
  /\ pending # None /\ pending' = None
  /\ UNCHANGED <<mono, skew, stamps, tracker, stage, queue, sends, stepped, peers, spoiled>>

(***************************************************************************)
(* A peer multicasts the same bytes: a fault-tolerance twin, or a replay.  *)
(* (Arriving during the receive stage is arriving before the next one.)    *)
(***************************************************************************)
PeerSends(f, b) ==
  /\ stage = "out" /\ peers < MaxPeers /\ Disturbable /\ peers' = peers + 1
  /\ \E rx \in RxStamps :
       queue' = [queue EXCEPT ![f] =
                   Append(@, RxDatagram(b, rx, 0, stepped))]
  /\ UNCHANGED <<mono, skew, stamps, tracker, stage, pending, sends, stepped, spoiled>>

(***************************************************************************)
(* A rename or a withdrawal begins.                                        *)
(***************************************************************************)
Supersede ==
  /\ stage = "out" /\ pending = None /\ Disturbable
  /\ tracker' = supersede(tracker)
  /\ UNCHANGED <<mono, skew, stamps, stage, pending, queue, sends, stepped, peers, spoiled>>

(***************************************************************************)
(* The end of the outbound stage: seal, then receive.                      *)
(***************************************************************************)
Seal ==
  /\ stage = "out" /\ pending = None
  /\ stage' = "recv" /\ tracker' = seal(tracker, mono)
  /\ sends' = [i \in DOMAIN sends |-> IF sends[i].opened = None
                                      THEN [sends[i] EXCEPT !.opened = mono] ELSE sends[i]]
  /\ UNCHANGED <<mono, skew, stamps, pending, queue, stepped, peers, spoiled>>

(***************************************************************************)
(* What the receive stage is about to decide about a socket's next         *)
(* datagram.                                                               *)
(***************************************************************************)
Awaits(f) == stage = "recv" /\ queue[f] # <<>>

NextKey(f) == Key(f, Head(queue[f]).body)

Claimed(f) ==
  claim(tracker, f, Head(queue[f]).body, Head(queue[f]).rx, ClockPair(wall, mono))

Own(f) == Head(queue[f]).send # 0

Late(f) == ~still_live(mono, sends[Head(queue[f]).send].opened)

SteppedTwice(f) == stepped > Head(queue[f]).stepped + 1

(***************************************************************************)
(* Ghost: this claim may take a credit that another datagram's echo needs: *)
(* it is late, a stranger's, an echo of what was superseded since, or one  *)
(* the wall clock stepped twice around.                                    *)
(***************************************************************************)
Misspent(f) ==
  \/ Own(f) /\ (Late(f) \/ SteppedTwice(f))
  \/ /\ Claimed(f).verdict \in MatchMode
     /\ Own(f) => sends[Head(queue[f]).send].generation # tracker.generation

(***************************************************************************)
(* The receive stage takes the next datagram of a socket and claims it.    *)
(***************************************************************************)
Receive(f) ==
  /\ Awaits(f)
  /\ tracker' = Claimed(f).tracker
  /\ queue' = [queue EXCEPT ![f] = Tail(@)]
  /\ spoiled' = IF Misspent(f) THEN spoiled \cup {NextKey(f)} ELSE spoiled
  /\ UNCHANGED <<mono, skew, stamps, stage, pending, sends, stepped, peers>>

NextIteration ==
  /\ stage = "recv" /\ stage' = "out"
  /\ UNCHANGED <<mono, skew, stamps, tracker, pending, queue, sends, stepped, peers, spoiled>>

SelfTick ==
  /\ mono < MaxSelfTicks /\ mono' = mono + 1
  /\ UNCHANGED <<skew, stamps, tracker, stage, pending, queue, sends, stepped, peers, spoiled>>

(***************************************************************************)
(* settimeofday, an NTP step, a resumed guest.  (Where nothing received is *)
(* stamped, nothing depends on the wall clock.)                            *)
(***************************************************************************)
WallStep(d) ==
  /\ stamps /\ Disturbable /\ stepped' = stepped + 1
  /\ skew' = skew + d
  /\ UNCHANGED <<mono, stamps, tracker, stage, pending, queue, sends, peers, spoiled>>

SelfNext ==
  \/ \E f \in SendFamilies, b \in Bodies : Stamp(f, b) \/ PeerSends(f, b)
  \/ Submitted \/ SendFailed \/ Supersede \/ Seal \/ NextIteration \/ SelfTick
  \/ \E f \in SendFamilies : Receive(f)
  \/ \E d \in Steps : WallStep(d)

SelfSpec == SelfInit /\ [][SelfNext]_selfVars

-----------------------------------------------------------------------------
(***************************************************************************)
(* The endpoint never takes its own echo for a peer: whatever the stalls,  *)
(* the order sockets are read in, and one wall-clock step, an echo claimed *)
(* inside its window is refused only when its credit was never admitted    *)
(* (a cap), went to another copy of the same bytes (a peer's, or an older  *)
(* generation's echo), or the wall clock stepped twice around it.          *)
(* A refused echo is a phantom conflict with oneself, and a rename.        *)
(***************************************************************************)
OwnEchoRecognised ==
  \A f \in SendFamilies :
    Awaits(f) /\ Own(f) /\ Claimed(f).verdict = "NoCredit" =>
      \/ NextKey(f) \in spoiled
      \/ Late(f)
      \/ SteppedTwice(f)

(***************************************************************************)
(* A peer's identical bytes are mistaken for an echo only within           *)
(* SELF_SEND_TTL of a seal that followed one of this endpoint's own sends  *)
(* of them: no number of later seals extends a credit.                     *)
(***************************************************************************)
SuppressionBounded ==
  \A f \in SendFamilies :
    Awaits(f) /\ Claimed(f).verdict # "NoCredit" =>
      \E i \in DOMAIN sends : /\ sends[i].key = NextKey(f)
                              /\ mono - sends[i].opened <= SELF_SEND_TTL

(***************************************************************************)
(* Once a generation is superseded, its bytes no longer silence a peer     *)
(* that defends them: an assertion is read as an echo outright only when   *)
(* this endpoint has sent the same bytes in the current generation.        *)
(***************************************************************************)
OnlyCurrentGenerationSilences ==
  \A f \in SendFamilies :
    /\ Awaits(f) /\ ClassOf(Head(queue[f]).body) = "Assertion"
    /\ Claimed(f).verdict \in MatchMode
    => \E i \in DOMAIN sends : /\ sends[i].key = NextKey(f)
                               /\ sends[i].generation = tracker.generation

=============================================================================
