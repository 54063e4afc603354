--------------------------- MODULE AdmissionProofs --------------------------
(***************************************************************************)
(* TLAPS proofs about what a driver asks of a datagram before an endpoint  *)
(* sees it.  Self-send suppression: for every time to live, cap, tolerance *)
(* and grain, any sockets, datagrams, peers and clock steps.  The on-link  *)
(* check: for addresses of any length in octets of any width, any set of   *)
(* address lists, any datagrams, renumberings and refresh interval.        *)
(***************************************************************************)
EXTENDS SelfSend, OnLink, FiniteSetTheorems, SequenceTheorems, FunctionTheorems,
        NaturalsInduction, WellFoundedInduction, TLAPS

-----------------------------------------------------------------------------
(* Self-send suppression.                                                  *)

entries == tracker.entries

Stamps == [wall : Int, mono : Nat]

CreditType ==
  [family : SendFamilies, body : Bodies, generation : Nat, class : {"Question", "Assertion"},
   sent : Stamps, aged_from : Nat \cup {None}]

Keys == {Key(f, b) : f \in SendFamilies, b \in Bodies}

SendType ==
  [key : Keys, class : {"Question", "Assertion"}, generation : Nat, opened : Nat \cup {None}]

PendingType == [family : SendFamilies, body : Bodies, sent : Stamps, stepped : Nat]

RxType == [body : Bodies, rx : Int \cup {None}, send : Nat, stepped : Nat]

TrackerShape(t, count) ==
  /\ t = [entries |-> t.entries, bytes |-> t.bytes, generation |-> t.generation]
  /\ t.generation \in Nat
  /\ DOMAIN t.entries \subseteq 1 .. count
  /\ \A n \in DOMAIN t.entries : t.entries[n] \in CreditType

SelfShape ==
  /\ mono \in Nat /\ skew \in Int /\ stepped \in Nat /\ stage \in {"out", "recv"}
  /\ pending # None => pending \in PendingType /\ stage = "out"
  /\ sends \in Seq(SendType)
  /\ queue \in [SendFamilies -> Seq(RxType)]
  /\ TrackerShape(tracker, Len(sends))

(***************************************************************************)
(* A credit says of its send what the send was.                            *)
(***************************************************************************)
CreditsHaveSends ==
  \A n \in DOMAIN entries :
    LET c == entries[n]
    IN /\ sends[n].key = Key(c.family, c.body) /\ sends[n].generation = c.generation
       /\ sends[n].opened = c.aged_from /\ c.class = ClassOf(c.body)

SealedInRecv == stage = "recv" => \A n \in 1 .. Len(sends) : sends[n].opened # None

CreditInv == SelfShape /\ CreditsHaveSends /\ SealedInRecv

(***************************************************************************)
(* A stamp taken after `at` steps of the wall clock: none since, and the   *)
(* clocks are as far apart as then; one, and they disagree visibly.        *)
(***************************************************************************)
Since(sent, at) ==
  /\ at <= stepped /\ sent.mono <= mono
  /\ stepped = at => sent.wall - sent.mono = skew
  /\ stepped = at + 1 => Distance(skew, sent.wall - sent.mono) > WALL_STEP_TOLERANCE

PendingSince == pending # None => Since(pending.sent, pending.stepped)

(***************************************************************************)
(* An echo that is not late, of bytes no credit of which was refused or    *)
(* misspent, still has the credit of its OWN send, and the clocks speak    *)
(* for it unless they stepped twice.                                       *)
(***************************************************************************)
Owed(f, e) ==
  /\ Key(f, e.body) \notin spoiled /\ still_live(mono, sends[e.send].opened)
  /\ stepped <= e.stepped + 1

EchoHasCredit(f, e) ==
  /\ e.send \in 1 .. Len(sends) /\ sends[e.send].key = Key(f, e.body)
  /\ Owed(f, e) =>
       /\ e.send \in DOMAIN entries
       /\ entries[e.send].family = f /\ entries[e.send].body = e.body
       /\ Since(entries[e.send].sent, e.stepped)
       /\ stepped = e.stepped =>
            e.rx = None \/ e.rx + RX_TIMESTAMP_GRAIN >= entries[e.send].sent.wall

EchoesHaveCredits ==
  \A f \in SendFamilies, j \in Nat :
    j \in 1 .. Len(queue[f]) /\ queue[f][j].send # 0 => EchoHasCredit(f, queue[f][j])

EchoesInOrder ==
  \A f \in SendFamilies : \A i, j \in 1 .. Len(queue[f]) :
    i < j /\ queue[f][i].send # 0 /\ queue[f][j].send # 0 =>
      queue[f][i].send < queue[f][j].send

EchoInv == CreditInv /\ PendingSince /\ EchoesHaveCredits /\ EchoesInOrder

-----------------------------------------------------------------------------
(* The tracker's methods.                                                  *)

LEMMA LeastExists ==
  ASSUME NEW S \in SUBSET Nat, S # {}
  PROVE  \E x \in S : \A y \in S : x <= y
<1>1. PICK x \in S : \A y \in S : ~(<<y, x>> \in OpToRel(<, Nat))
  BY NatLessThanWellFounded, WFMin
<1>2. \A y \in S : x <= y
  <2> TAKE y \in S
  <2>1. x \in Nat /\ y \in Nat
    OBVIOUS
  <2>2. ~(y < x)
    BY <1>1, <2>1 DEF OpToRel
  <2> QED
    BY <2>1, <2>2
<1> QED
  BY <1>2

LEMMA LeastIsChosen ==
  ASSUME NEW S \in SUBSET Nat, S # {}
  PROVE  LET k == CHOOSE j \in S : \A i \in S : j <= i
         IN k \in S /\ \A i \in S : k <= i
BY LeastExists

(* A new credit is one of the send being recorded.                         *)
LEMMA NewCredit ==
  ASSUME NEW f \in SendFamilies, NEW b \in Bodies, NEW g \in Nat, NEW sent \in Stamps
  PROVE  LET c == Credit(f, b, g, sent)
         IN /\ c \in CreditType /\ c.family = f /\ c.body = b /\ c.generation = g
            /\ c.class = ClassOf(b) /\ c.sent = sent /\ c.aged_from = None
BY DEF Credit, CreditType, ClassOf

(* Reclaiming keeps the live and touches nothing else.                     *)
LEMMA ReclaimKeepsLive ==
  ASSUME NEW t, NEW count \in Nat, TrackerShape(t, count), NEW now
  PROVE  LET r == reclaim_expired_sealed(t, now)
         IN /\ TrackerShape(r, count) /\ r.generation = t.generation
            /\ DOMAIN r.entries = {n \in DOMAIN t.entries : still_live(now, t.entries[n].aged_from)}
            /\ \A n \in DOMAIN r.entries : r.entries[n] = t.entries[n]
<1> DEFINE kept == LiveCredits(t.entries, now)
           r == reclaim_expired_sealed(t, now)
<1>1. /\ DOMAIN kept = {n \in DOMAIN t.entries : still_live(now, t.entries[n].aged_from)}
      /\ \A n \in DOMAIN kept : kept[n] = t.entries[n]
  BY DEF LiveCredits, Restrict
<1> HIDE DEF kept
<1>2. r = [t EXCEPT !.entries = kept, !.bytes = BytesOf(kept)]
  BY DEF reclaim_expired_sealed, kept
<1>3. r = [entries |-> kept, bytes |-> BytesOf(kept), generation |-> t.generation]
  BY <1>2 DEF TrackerShape
<1> HIDE DEF r
<1>4. r.entries = kept /\ r.generation = t.generation
      /\ r = [entries |-> r.entries, bytes |-> r.bytes, generation |-> r.generation]
  BY <1>3
<1>5. TrackerShape(r, count)
  BY <1>1, <1>4 DEF TrackerShape
<1> QED
  BY <1>1, <1>4, <1>5 DEF r

(* Recording send n never drops a live credit, and drops the new one only  *)
(* when the live ones leave no room for it.                                *)
LEMMA RecordKeepsLive ==
  ASSUME NEW t, NEW count \in Nat, TrackerShape(t, count), NEW now,
         NEW f \in SendFamilies, NEW b \in Bodies, NEW sent \in Stamps
  PROVE  LET n == count + 1
             r == record(t, n, f, b, sent, now)
             live == LiveCredits(t.entries, now)
         IN /\ TrackerShape(r, n) /\ r.generation = t.generation
            /\ \A m \in DOMAIN r.entries :
                 m # n => m \in DOMAIN t.entries /\ r.entries[m] = t.entries[m]
            /\ n \in DOMAIN r.entries => r.entries[n] = Credit(f, b, t.generation, sent)
            /\ \A m \in DOMAIN t.entries :
                 still_live(now, t.entries[m].aged_from) => m \in DOMAIN r.entries
            /\ ~Full(Cardinality(DOMAIN live), BytesOf(live), b.len) => n \in DOMAIN r.entries
<1> DEFINE n == count + 1
           r == record(t, n, f, b, sent, now)
           live == LiveCredits(t.entries, now)
           atCap == Full(Cardinality(DOMAIN t.entries), t.bytes, b.len)
           swept == IF atCap THEN reclaim_expired_sealed(t, now) ELSE t
           room == admit(swept, b.len, now)
           k == CHOOSE j \in room : \A i \in room : j <= i
           front == Oldest(swept.entries, k)
           new == Credit(f, b, swept.generation, sent)
<1>1. /\ TrackerShape(swept, count) /\ swept.generation = t.generation
      /\ DOMAIN swept.entries \subseteq DOMAIN t.entries
      /\ \A m \in DOMAIN swept.entries : swept.entries[m] = t.entries[m]
      /\ \A m \in DOMAIN t.entries :
           still_live(now, t.entries[m].aged_from) => m \in DOMAIN swept.entries
  <2>1. CASE atCap
    BY <2>1, ReclaimKeepsLive
  <2>2. CASE ~atCap
    BY <2>2
  <2> QED
    BY <2>1, <2>2
<1>2. ~Full(Cardinality(DOMAIN live), BytesOf(live), b.len) =>
        ~Full(Cardinality(DOMAIN swept.entries), swept.bytes, b.len)
  <2>1. CASE atCap
    <3>1. swept = [t EXCEPT !.entries = live, !.bytes = BytesOf(live)]
      BY <2>1 DEF reclaim_expired_sealed
    <3>2. swept.entries = live /\ swept.bytes = BytesOf(live)
      <4> HIDE DEF live, swept
      <4> QED
        BY <3>1 DEF TrackerShape
    <3> HIDE DEF live, swept
    <3> QED
      BY <3>2
  <2>2. CASE ~atCap
    BY <2>2
  <2> QED
    BY <2>1, <2>2
<1>3. r = IF room = {} THEN swept
          ELSE [swept EXCEPT !.bytes = @ - BytesOf(front) + b.len,
                             !.entries = Pushed(Without(@, DOMAIN front), n, new)]
  BY DEF record
<1> HIDE DEF swept
<1>4. room \in SUBSET Nat
  BY <1>1 DEF admit, TrackerShape
<1>5. ~Full(Cardinality(DOMAIN swept.entries), swept.bytes, b.len) => room = {0}
  BY DEF admit
<1> HIDE DEF atCap
<1>6. CASE room = {}
  <2>1. r = swept
    BY <1>3, <1>6
  <2>2. n \notin DOMAIN t.entries
    BY DEF TrackerShape
  <2>3. TrackerShape(r, n)
    BY <1>1, <2>1 DEF TrackerShape
  <2>4. Full(Cardinality(DOMAIN live), BytesOf(live), b.len)
    BY <1>2, <1>5, <1>6
  <2> HIDE DEF r, room, live
  <2> QED
    BY <1>1, <2>1, <2>2, <2>3, <2>4 DEF r, live
<1>7. CASE room # {}
  <2>1. k \in room
    <3> HIDE DEF room
    <3> QED
      BY <1>4, <1>7, LeastIsChosen
  <2>2. /\ DOMAIN front = {m \in DOMAIN swept.entries : m <= k}
        /\ \A m \in DOMAIN front : front[m] = swept.entries[m]
    <3> HIDE DEF k
    <3> QED
      BY DEF Oldest, Restrict
  <2>3. \A m \in DOMAIN front : ~still_live(now, swept.entries[m].aged_from)
    <3>1. CASE room = {0}
      <4>1. k = 0
        <5> HIDE DEF k, room
        <5> QED
          BY <2>1, <3>1
      <4>2. DOMAIN front = {}
        <5> HIDE DEF k, front, room
        <5> QED
          BY <1>1, <2>2, <4>1 DEF TrackerShape
      <4> QED
        BY <4>2
    <3>2. CASE room # {0}
      <4>1. k \in {j \in DOMAIN swept.entries :
                     LET fr == Oldest(swept.entries, j)
                     IN /\ ~Full(Cardinality(DOMAIN swept.entries \ DOMAIN fr),
                                 swept.bytes - BytesOf(fr), b.len)
                        /\ \A m \in DOMAIN fr : ~still_live(now, fr[m].aged_from)}
        <5>1. room = {j \in DOMAIN swept.entries :
                        LET fr == Oldest(swept.entries, j)
                        IN /\ ~Full(Cardinality(DOMAIN swept.entries \ DOMAIN fr),
                                    swept.bytes - BytesOf(fr), b.len)
                           /\ \A m \in DOMAIN fr : ~still_live(now, fr[m].aged_from)}
          BY <1>5, <3>2 DEF admit
        <5> HIDE DEF k, room
        <5> QED
          BY <2>1, <5>1
      <4>2. \A m \in DOMAIN front : ~still_live(now, front[m].aged_from)
        <5> HIDE DEF k, room
        <5> QED
          BY <4>1
      <4> QED
        BY <2>2, <4>2
    <3> QED
      BY <3>1, <3>2
  <2> DEFINE rest == Without(swept.entries, DOMAIN front)
  <2> HIDE DEF k, room, front
  <2>4. DOMAIN rest = DOMAIN swept.entries \ DOMAIN front
        /\ \A m \in DOMAIN rest : rest[m] = swept.entries[m]
    BY DEF Without, Restrict
  <2> HIDE DEF rest
  <2> DEFINE pushed == Pushed(rest, n, new)
  <2>5. DOMAIN pushed = DOMAIN rest \cup {n} /\ pushed[n] = new
        /\ \A m \in DOMAIN rest : m # n => pushed[m] = rest[m]
    BY DEF Pushed
  <2>6. r = [swept EXCEPT !.bytes = @ - BytesOf(front) + b.len, !.entries = pushed]
    BY <1>3, <1>7 DEF rest
  <2>7. n \notin DOMAIN t.entries
    BY DEF TrackerShape
  <2>8. new \in CreditType
    BY <1>1, NewCredit DEF TrackerShape
  <2> HIDE DEF pushed, new, r
  <2>9. r.entries = pushed /\ r.generation = swept.generation
        /\ r = [entries |-> r.entries, bytes |-> r.bytes, generation |-> r.generation]
    BY <1>1, <2>6 DEF TrackerShape
  <2>10. TrackerShape(r, n)
    <3>1. DOMAIN r.entries \subseteq 1 .. n
      BY <1>1, <2>4, <2>5, <2>9 DEF TrackerShape
    <3>2. \A m \in DOMAIN r.entries : r.entries[m] \in CreditType
      BY <1>1, <2>4, <2>5, <2>8, <2>9 DEF TrackerShape
    <3> QED
      BY <1>1, <2>9, <3>1, <3>2 DEF TrackerShape
  <2>11. n \in DOMAIN r.entries /\ r.entries[n] = Credit(f, b, t.generation, sent)
    BY <1>1, <2>5, <2>9 DEF new
  <2>12. \A m \in DOMAIN r.entries :
           m # n => m \in DOMAIN t.entries /\ r.entries[m] = t.entries[m]
    BY <1>1, <2>4, <2>5, <2>9
  <2>13. \A m \in DOMAIN t.entries :
           still_live(now, t.entries[m].aged_from) => m \in DOMAIN r.entries
    BY <1>1, <2>2, <2>3, <2>4, <2>5, <2>9
  <2> HIDE DEF n, live
  <2> QED
    BY <1>1, <2>9, <2>10, <2>11, <2>12, <2>13 DEF r, n, live
<1> QED
  BY <1>6, <1>7

(* A seal keeps the live credits and opens the windows that were not.      *)
LEMMA SealOpensWindows ==
  ASSUME NEW t, NEW count \in Nat, TrackerShape(t, count), NEW now \in Nat
  PROVE  LET s == seal(t, now)
         IN /\ TrackerShape(s, count) /\ s.generation = t.generation
            /\ DOMAIN s.entries = {n \in DOMAIN t.entries : still_live(now, t.entries[n].aged_from)}
            /\ \A n \in DOMAIN s.entries :
                 s.entries[n] = [t.entries[n] EXCEPT !.aged_from = IF @ = None THEN now ELSE @]
<1> DEFINE r == reclaim_expired_sealed(t, now)
           s == seal(t, now)
           opened == [i \in DOMAIN r.entries |->
                        [r.entries[i] EXCEPT !.aged_from = IF @ = None THEN now ELSE @]]
<1>1. /\ TrackerShape(r, count) /\ r.generation = t.generation
      /\ DOMAIN r.entries = {n \in DOMAIN t.entries : still_live(now, t.entries[n].aged_from)}
      /\ \A n \in DOMAIN r.entries : r.entries[n] = t.entries[n]
  BY ReclaimKeepsLive
<1>2. s = [r EXCEPT !.entries = opened]
  BY DEF seal, open_window_at
<1> HIDE DEF r, s
<1>3. /\ DOMAIN opened = DOMAIN r.entries
      /\ \A n \in DOMAIN opened :
           opened[n] = [t.entries[n] EXCEPT !.aged_from = IF @ = None THEN now ELSE @]
  BY <1>1
<1>4. \A n \in DOMAIN opened : opened[n] \in CreditType
  <2> TAKE n \in DOMAIN opened
  <2>1. opened[n] = [r.entries[n] EXCEPT !.aged_from = IF @ = None THEN now ELSE @]
    OBVIOUS
  <2>2. r.entries[n] \in CreditType
    BY <1>1, <1>3 DEF TrackerShape
  <2> HIDE DEF opened
  <2> QED
    BY <2>1, <2>2 DEF CreditType
<1> HIDE DEF opened
<1>5. s.entries = opened /\ s.generation = r.generation
      /\ s = [entries |-> s.entries, bytes |-> s.bytes, generation |-> s.generation]
  BY <1>1, <1>2 DEF TrackerShape
<1>6. TrackerShape(s, count)
  BY <1>1, <1>3, <1>4, <1>5 DEF TrackerShape
<1> QED
  BY <1>1, <1>3, <1>5, <1>6 DEF s

(* A claim takes the oldest current credit, or nothing.                    *)
LEMMA ClaimTakesOldest ==
  ASSUME NEW t, NEW count \in Nat, TrackerShape(t, count), NEW f, NEW b, NEW rx, NEW now
  PROVE  LET current == Current(t, f, b, rx, now)
             c == claim(t, f, b, rx, now)
         IN /\ TrackerShape(c.tracker, count) /\ c.tracker.generation = t.generation
            /\ c.verdict = "NoCredit" => Eligible(t, f, b, rx, now) = {}
            /\ \/ current = {} /\ c.tracker = t /\ c.verdict \notin MatchMode
               \/ /\ c.verdict \in MatchMode
                  /\ \E pos \in current :
                       /\ \A i \in current : pos <= i
                       /\ DOMAIN c.tracker.entries = DOMAIN t.entries \ {pos}
                       /\ \A n \in DOMAIN c.tracker.entries : c.tracker.entries[n] = t.entries[n]
<1> DEFINE current == Current(t, f, b, rx, now)
           pos == CHOOSE i \in current : \A j \in current : i <= j
           c == claim(t, f, b, rx, now)
           took == [t EXCEPT !.entries = Without(@, {pos}),
                             !.bytes = @ - t.entries[pos].body.len]
           mode == evidence_mode(rx, t.entries[pos].sent, now)
           none == Eligible(t, f, b, rx, now) = {}
<1>1. c = IF current # {} THEN [verdict |-> mode, tracker |-> took]
          ELSE [verdict |-> IF none THEN "NoCredit" ELSE "Superseded", tracker |-> t]
  BY DEF claim
<1>2. current \in SUBSET (DOMAIN t.entries) /\ current \in SUBSET Nat
  BY DEF Current, Eligible, TrackerShape
<1>3. CASE current = {}
  <2>1. c.tracker = t /\ c.verdict = IF none THEN "NoCredit" ELSE "Superseded"
    <3> HIDE DEF current, c, none, mode, took
    <3> QED
      BY <1>1, <1>3
  <2>2. c.verdict \notin MatchMode /\ (c.verdict = "NoCredit" => none)
    <3> HIDE DEF current, c, none
    <3> QED
      BY <2>1 DEF MatchMode
  <2> HIDE DEF current, c, none
  <2> QED
    BY <1>3, <2>1, <2>2 DEF current, c, none
<1>4. CASE current # {}
  <2>1. pos \in current /\ \A i \in current : pos <= i
    <3> HIDE DEF current
    <3> QED
      BY <1>2, <1>4, LeastIsChosen
  <2>2. c.tracker = took /\ c.verdict = mode
    <3> HIDE DEF current, c, none, mode, took
    <3> QED
      BY <1>1, <1>4
  <2>3. mode \in MatchMode /\ mode # "NoCredit"
    <3> HIDE DEF pos
    <3> QED
      BY DEF evidence_mode, MatchMode
  <2> DEFINE rest == Without(t.entries, {pos})
  <2> HIDE DEF pos
  <2>4. DOMAIN rest = DOMAIN t.entries \ {pos} /\ \A n \in DOMAIN rest : rest[n] = t.entries[n]
    BY DEF Without, Restrict
  <2>5. took = [t EXCEPT !.entries = rest, !.bytes = @ - t.entries[pos].body.len]
    OBVIOUS
  <2> HIDE DEF rest, took
  <2>6. took.entries = rest /\ took.generation = t.generation
        /\ took = [entries |-> took.entries, bytes |-> took.bytes, generation |-> took.generation]
    BY <2>5 DEF TrackerShape
  <2>7. TrackerShape(took, count)
    BY <2>4, <2>6 DEF TrackerShape
  <2> HIDE DEF current, c, mode, none
  <2> QED
    BY <2>1, <2>2, <2>3, <2>4, <2>6, <2>7 DEF current, c, none
<1> QED
  BY <1>3, <1>4

-----------------------------------------------------------------------------
(* Credits and sends.                                                      *)

LEMMA CreditInit == SelfInit => CreditInv
<1> SUFFICES ASSUME SelfInit PROVE CreditInv
  OBVIOUS
<1>1. entries = <<>> /\ tracker = [entries |-> <<>>, bytes |-> 0, generation |-> 0]
  BY DEF SelfInit, NewTracker, entries
<1>2. DOMAIN entries = {} /\ Len(sends) = 0
  BY <1>1 DEF SelfInit
<1>3. SelfShape
  BY <1>1, <1>2 DEF SelfInit, SelfShape, TrackerShape, entries
<1> QED
  BY <1>2, <1>3 DEF CreditInv, CreditsHaveSends, SealedInRecv, SelfInit

(* The sends say nothing new and the tracker keeps its credits.            *)
LEMMA CreditKept ==
  ASSUME CreditInv, UNCHANGED sends, TrackerShape(tracker', Len(sends)),
         \A n \in DOMAIN entries' : n \in DOMAIN entries /\ entries'[n] = entries[n]
  PROVE  CreditsHaveSends' /\ TrackerShape(tracker, Len(sends))'
<1>1. CreditsHaveSends'
  BY DEF CreditInv, CreditsHaveSends, entries
<1>2. TrackerShape(tracker, Len(sends))'
  BY DEF TrackerShape
<1> QED
  BY <1>1, <1>2

LEMMA RxStampsTyped ==
  ASSUME CreditInv, NEW rx \in RxStamps
  PROVE  /\ rx \in Int \cup {None}
         /\ rx # None => rx + RX_TIMESTAMP_GRAIN >= wall
BY SelfSendAssumption DEF RxStamps, wall, CreditInv, SelfShape

LEMMA StampCredit ==
  ASSUME CreditInv, NEW f \in SendFamilies, NEW b \in Bodies, Stamp(f, b)
  PROVE  CreditInv'
<1>1. ClockPair(wall, mono) \in Stamps
  BY DEF ClockPair, wall, Stamps, CreditInv, SelfShape
<1>2. pending' \in PendingType
  BY <1>1 DEF Stamp, PendingType, CreditInv, SelfShape
<1>3. CreditsHaveSends' /\ TrackerShape(tracker, Len(sends))'
  BY CreditKept DEF Stamp, entries, CreditInv, SelfShape
<1>4. SelfShape'
  BY <1>2, <1>3 DEF Stamp, CreditInv, SelfShape
<1> QED
  BY <1>3, <1>4 DEF Stamp, CreditInv, SealedInRecv

LEMMA PeerCredit ==
  ASSUME CreditInv, NEW f \in SendFamilies, NEW b \in Bodies, PeerSends(f, b)
  PROVE  CreditInv'
<1>1. PICK rx \in RxStamps :
        queue' = [queue EXCEPT ![f] = Append(@, RxDatagram(b, rx, 0, stepped))]
  BY DEF PeerSends
<1>2. RxDatagram(b, rx, 0, stepped) \in RxType
  BY RxStampsTyped DEF RxDatagram, RxType, CreditInv, SelfShape
<1>3. queue' \in [SendFamilies -> Seq(RxType)]
  BY <1>1, <1>2 DEF CreditInv, SelfShape
<1>4. CreditsHaveSends' /\ TrackerShape(tracker, Len(sends))'
  BY CreditKept DEF PeerSends, entries, CreditInv, SelfShape
<1>5. SelfShape'
  BY <1>3, <1>4 DEF PeerSends, CreditInv, SelfShape
<1> QED
  BY <1>4, <1>5 DEF PeerSends, CreditInv, SealedInRecv

(* What recording a send leaves in the tracker.                            *)
LEMMA SubmittedRecords ==
  ASSUME CreditInv, Submitted
  PROVE  LET n == Len(sends) + 1
             live == LiveCredits(entries, mono)
             refused == Full(Cardinality(DOMAIN live), BytesOf(live), pending.body.len)
         IN /\ n \in Nat /\ n \notin DOMAIN entries
            /\ sends' = Append(sends, [key |-> Key(pending.family, pending.body),
                                       class |-> ClassOf(pending.body),
                                       generation |-> tracker.generation, opened |-> None])
            /\ sends' \in Seq(SendType) /\ Len(sends') = n
            /\ \A m \in 1 .. Len(sends) : sends'[m] = sends[m]
            /\ sends'[n] = [key |-> Key(pending.family, pending.body),
                            class |-> ClassOf(pending.body),
                            generation |-> tracker.generation, opened |-> None]
            /\ TrackerShape(tracker', n) /\ tracker'.generation = tracker.generation
            /\ \A m \in DOMAIN entries' :
                 m # n => m \in DOMAIN entries /\ entries'[m] = entries[m]
            /\ n \in DOMAIN entries' =>
                 entries'[n] = Credit(pending.family, pending.body, tracker.generation,
                                      pending.sent)
            /\ \A m \in DOMAIN entries :
                 still_live(mono, entries[m].aged_from) => m \in DOMAIN entries'
            /\ ~refused => n \in DOMAIN entries'
            /\ spoiled' = IF refused THEN spoiled \cup {Key(pending.family, pending.body)}
                          ELSE spoiled
<1> DEFINE n == Len(sends) + 1
           new == [key |-> Key(pending.family, pending.body), class |-> ClassOf(pending.body),
                   generation |-> tracker.generation, opened |-> None]
<1>1. pending \in PendingType /\ TrackerShape(tracker, Len(sends)) /\ Len(sends) \in Nat
      /\ sends \in Seq(SendType) /\ tracker.generation \in Nat
  BY DEF Submitted, CreditInv, SelfShape, TrackerShape
<1>2. pending.family \in SendFamilies /\ pending.body \in Bodies /\ pending.sent \in Stamps
  BY <1>1 DEF PendingType
<1>3. tracker' = record(tracker, Len(sends) + 1, pending.family, pending.body, pending.sent, mono)
  BY DEF Submitted
<1>4. new \in SendType
  BY <1>1, <1>2 DEF SendType, Keys, ClassOf
<1>5. sends' = Append(sends, new)
  BY DEF Submitted
<1>6. /\ sends' \in Seq(SendType) /\ Len(sends') = n /\ sends'[n] = new
      /\ \A m \in 1 .. Len(sends) : sends'[m] = sends[m]
  <2> HIDE DEF new
  <2> QED
    BY <1>1, <1>4, <1>5
<1>7. n \notin DOMAIN entries
  BY <1>1 DEF TrackerShape, entries
<1>8. spoiled' = IF Full(Cardinality(DOMAIN LiveCredits(entries, mono)),
                         BytesOf(LiveCredits(entries, mono)), pending.body.len)
                 THEN spoiled \cup {Key(pending.family, pending.body)} ELSE spoiled
  BY DEF Submitted, entries
<1> HIDE DEF new
<1>9. /\ TrackerShape(tracker', n) /\ tracker'.generation = tracker.generation
      /\ \A m \in DOMAIN entries' :
           m # n => m \in DOMAIN entries /\ entries'[m] = entries[m]
      /\ n \in DOMAIN entries' =>
           entries'[n] = Credit(pending.family, pending.body, tracker.generation, pending.sent)
      /\ \A m \in DOMAIN entries :
           still_live(mono, entries[m].aged_from) => m \in DOMAIN entries'
      /\ ~Full(Cardinality(DOMAIN LiveCredits(entries, mono)),
               BytesOf(LiveCredits(entries, mono)), pending.body.len) => n \in DOMAIN entries'
  <2> DEFINE r == record(tracker, Len(sends) + 1, pending.family, pending.body, pending.sent, mono)
             live == LiveCredits(tracker.entries, mono)
  <2>1. /\ TrackerShape(r, n) /\ r.generation = tracker.generation
        /\ \A m \in DOMAIN r.entries :
             m # n => m \in DOMAIN tracker.entries /\ r.entries[m] = tracker.entries[m]
        /\ n \in DOMAIN r.entries =>
             r.entries[n] = Credit(pending.family, pending.body, tracker.generation, pending.sent)
        /\ \A m \in DOMAIN tracker.entries :
             still_live(mono, tracker.entries[m].aged_from) => m \in DOMAIN r.entries
        /\ ~Full(Cardinality(DOMAIN live), BytesOf(live), pending.body.len) =>
             n \in DOMAIN r.entries
    BY <1>1, <1>2, RecordKeepsLive
  <2>2. tracker' = r
    BY <1>3
  <2> HIDE DEF r
  <2> QED
    BY <2>1, <2>2 DEF entries
<1> QED
  BY <1>1, <1>5, <1>6, <1>7, <1>8, <1>9 DEF new

LEMMA SubmittedCredit ==
  ASSUME CreditInv, Submitted
  PROVE  CreditInv'
<1> DEFINE n == Len(sends) + 1
<1>1. /\ n \in Nat /\ n \notin DOMAIN entries
      /\ sends' \in Seq(SendType) /\ Len(sends') = n
      /\ \A m \in 1 .. Len(sends) : sends'[m] = sends[m]
      /\ sends'[n] = [key |-> Key(pending.family, pending.body), class |-> ClassOf(pending.body),
                      generation |-> tracker.generation, opened |-> None]
      /\ TrackerShape(tracker', n)
      /\ \A m \in DOMAIN entries' : m # n => m \in DOMAIN entries /\ entries'[m] = entries[m]
      /\ n \in DOMAIN entries' =>
           entries'[n] = Credit(pending.family, pending.body, tracker.generation, pending.sent)
  BY SubmittedRecords
<1> HIDE DEF n
<1>2. pending \in PendingType /\ tracker.generation \in Nat /\ stage = "out"
  BY DEF Submitted, CreditInv, SelfShape, TrackerShape
<1>3. pending.family \in SendFamilies /\ pending.body \in Bodies /\ pending.sent \in Stamps
      /\ pending.stepped \in Nat
  BY <1>2 DEF PendingType
<1>4. queue' \in [SendFamilies -> Seq(RxType)]
  <2>1. CASE queue' = queue
    BY <2>1 DEF CreditInv, SelfShape
  <2>2. CASE queue' # queue
    <3>1. PICK rx \in RxStamps :
            queue' = [queue EXCEPT ![pending.family] =
                        Append(@, RxDatagram(pending.body, rx, Len(sends) + 1, pending.stepped))]
      BY <2>2 DEF Submitted
    <3>2. RxDatagram(pending.body, rx, Len(sends) + 1, pending.stepped) \in RxType
      BY <1>1, <1>3, RxStampsTyped DEF RxDatagram, RxType, n
    <3> QED
      BY <1>3, <3>1, <3>2 DEF CreditInv, SelfShape
  <2> QED
    BY <2>1, <2>2
<1>5. CreditsHaveSends'
  <2> SUFFICES ASSUME NEW m \in DOMAIN entries'
               PROVE  LET c == entries'[m]
                      IN /\ sends'[m].key = Key(c.family, c.body)
                         /\ sends'[m].generation = c.generation
                         /\ sends'[m].opened = c.aged_from /\ c.class = ClassOf(c.body)
    BY DEF CreditsHaveSends, Key, ClassOf
  <2>1. CASE m # n
    <3>1. m \in DOMAIN entries /\ entries'[m] = entries[m]
      BY <1>1, <2>1
    <3>2. m \in 1 .. Len(sends)
      BY <3>1 DEF CreditInv, SelfShape, TrackerShape, entries
    <3> QED
      BY <1>1, <3>1, <3>2 DEF CreditInv, CreditsHaveSends
  <2>2. CASE m = n
    BY <1>1, <1>2, <1>3, <2>2, NewCredit
  <2> QED
    BY <2>1, <2>2
<1>6. TrackerShape(tracker, Len(sends))'
  BY <1>1 DEF TrackerShape
<1>7. SelfShape'
  BY <1>1, <1>4, <1>6 DEF Submitted, CreditInv, SelfShape
<1> QED
  BY <1>2, <1>5, <1>7 DEF Submitted, CreditInv, SealedInRecv

LEMMA SupersedeCredit ==
  ASSUME CreditInv, Supersede
  PROVE  CreditInv' /\ entries' = entries
<1>1. TrackerShape(tracker, Len(sends)) /\ tracker' = [tracker EXCEPT !.generation = @ + 1]
  BY DEF CreditInv, SelfShape, Supersede, supersede
<1>2. /\ tracker'.entries = tracker.entries /\ tracker'.generation = tracker.generation + 1
      /\ tracker' = [entries |-> tracker'.entries, bytes |-> tracker'.bytes,
                     generation |-> tracker'.generation]
  BY <1>1 DEF TrackerShape
<1>3. entries' = entries
  BY <1>2 DEF entries
<1>4. TrackerShape(tracker', Len(sends))
  BY <1>1, <1>2 DEF TrackerShape
<1>5. CreditsHaveSends' /\ TrackerShape(tracker, Len(sends))'
  BY <1>3, <1>4, CreditKept DEF Supersede
<1>6. SelfShape'
  BY <1>5 DEF Supersede, CreditInv, SelfShape
<1> QED
  BY <1>3, <1>5, <1>6 DEF Supersede, CreditInv, SealedInRecv

(* What a seal does to the credits and to what is remembered of the sends. *)
LEMMA SealSteps ==
  ASSUME CreditInv, Seal
  PROVE  /\ TrackerShape(tracker', Len(sends))
         /\ sends' \in Seq(SendType) /\ Len(sends') = Len(sends)
         /\ \A m \in 1 .. Len(sends) :
              /\ sends'[m].key = sends[m].key /\ sends'[m].generation = sends[m].generation
              /\ sends'[m].opened = IF sends[m].opened = None THEN mono ELSE sends[m].opened
         /\ DOMAIN entries' = {m \in DOMAIN entries : still_live(mono, entries[m].aged_from)}
         /\ \A m \in DOMAIN entries' :
              entries'[m] = [entries[m] EXCEPT !.aged_from = IF @ = None THEN mono ELSE @]
<1>1. TrackerShape(tracker, Len(sends)) /\ Len(sends) \in Nat /\ mono \in Nat
      /\ sends \in Seq(SendType)
  BY DEF CreditInv, SelfShape
<1>2. tracker' = seal(tracker, mono)
  BY DEF Seal
<1>3. /\ TrackerShape(tracker', Len(sends))
      /\ DOMAIN entries' = {m \in DOMAIN entries : still_live(mono, entries[m].aged_from)}
      /\ \A m \in DOMAIN entries' :
           entries'[m] = [entries[m] EXCEPT !.aged_from = IF @ = None THEN mono ELSE @]
  <2> DEFINE s == seal(tracker, mono)
  <2>1. /\ TrackerShape(s, Len(sends))
        /\ DOMAIN s.entries =
             {m \in DOMAIN tracker.entries : still_live(mono, tracker.entries[m].aged_from)}
        /\ \A m \in DOMAIN s.entries :
             s.entries[m] = [tracker.entries[m] EXCEPT !.aged_from = IF @ = None THEN mono ELSE @]
    BY <1>1, SealOpensWindows
  <2>2. tracker' = s
    BY <1>2
  <2> HIDE DEF s
  <2> QED
    BY <2>1, <2>2 DEF entries
<1> DEFINE opened == [i \in 1 .. Len(sends) |->
                        IF sends[i].opened = None
                        THEN [sends[i] EXCEPT !.opened = mono] ELSE sends[i]]
<1>4. sends' = opened
  BY <1>1 DEF Seal
<1>5. \A i \in 1 .. Len(sends) : sends[i] \in SendType
  BY <1>1
<1>6. \A i \in 1 .. Len(sends) :
        /\ opened[i] \in SendType
        /\ opened[i].key = sends[i].key /\ opened[i].generation = sends[i].generation
        /\ opened[i].opened = IF sends[i].opened = None THEN mono ELSE sends[i].opened
  BY <1>1, <1>5 DEF SendType
<1>7. opened \in Seq(SendType) /\ Len(opened) = Len(sends)
  BY <1>1, <1>6
<1> HIDE DEF opened
<1> QED
  BY <1>3, <1>4, <1>6, <1>7

LEMMA SealCredit ==
  ASSUME CreditInv, Seal
  PROVE  CreditInv'
<1>1. TrackerShape(tracker, Len(sends))'
  BY SealSteps DEF TrackerShape
<1>2. CreditsHaveSends'
  <2> SUFFICES ASSUME NEW m \in DOMAIN entries'
               PROVE  LET c == entries'[m]
                      IN /\ sends'[m].key = Key(c.family, c.body)
                         /\ sends'[m].generation = c.generation
                         /\ sends'[m].opened = c.aged_from /\ c.class = ClassOf(c.body)
    BY DEF CreditsHaveSends, Key, ClassOf
  <2>1. m \in DOMAIN entries /\ m \in 1 .. Len(sends) /\ entries[m] \in CreditType
    BY SealSteps DEF CreditInv, SelfShape, TrackerShape, entries
  <2>2. entries'[m] = [entries[m] EXCEPT !.aged_from = IF @ = None THEN mono ELSE @]
    BY SealSteps
  <2>3. /\ entries'[m].family = entries[m].family /\ entries'[m].body = entries[m].body
        /\ entries'[m].generation = entries[m].generation
        /\ entries'[m].class = entries[m].class
        /\ entries'[m].aged_from = IF entries[m].aged_from = None THEN mono
                                   ELSE entries[m].aged_from
    BY <2>1, <2>2 DEF CreditType
  <2> QED
    BY <2>1, <2>3, SealSteps DEF CreditInv, CreditsHaveSends
<1>3. \A m \in 1 .. Len(sends') : sends'[m].opened # None
  BY SealSteps, ClockAssumption DEF CreditInv, SelfShape
<1>4. SelfShape'
  BY <1>1, SealSteps DEF Seal, CreditInv, SelfShape
<1> QED
  BY <1>2, <1>3, <1>4 DEF CreditInv, SealedInRecv

(* What the receive stage does to the credits.                             *)
LEMMA ReceiveSteps ==
  ASSUME CreditInv, NEW f \in SendFamilies, Awaits(f)
  PROVE  LET h == Head(queue[f])
             current == Current(tracker, f, h.body, h.rx, ClockPair(wall, mono))
             c == Claimed(f)
         IN /\ h \in RxType /\ h = queue[f][1]
            /\ TrackerShape(c.tracker, Len(sends)) /\ c.tracker.generation = tracker.generation
            /\ c.verdict = "NoCredit" =>
                 Eligible(tracker, f, h.body, h.rx, ClockPair(wall, mono)) = {}
            /\ \/ c.tracker = tracker /\ c.verdict \notin MatchMode
               \/ /\ c.verdict \in MatchMode
                  /\ \E pos \in current :
                       /\ \A i \in current : pos <= i
                       /\ DOMAIN c.tracker.entries = DOMAIN entries \ {pos}
                       /\ \A n \in DOMAIN c.tracker.entries :
                            c.tracker.entries[n] = entries[n]
<1>1. TrackerShape(tracker, Len(sends)) /\ Len(sends) \in Nat /\ queue[f] \in Seq(RxType)
      /\ queue[f] # <<>>
  BY DEF CreditInv, SelfShape, Awaits
<1>2. Head(queue[f]) \in RxType /\ Head(queue[f]) = queue[f][1]
  BY <1>1
<1> QED
  BY <1>1, <1>2, ClaimTakesOldest DEF Claimed, entries

LEMMA ReceiveCredit ==
  ASSUME CreditInv, NEW f \in SendFamilies, Receive(f)
  PROVE  CreditInv'
<1>1. Awaits(f) /\ tracker' = Claimed(f).tracker
  BY DEF Receive
<1>2. /\ TrackerShape(tracker', Len(sends))
      /\ \A n \in DOMAIN entries' : n \in DOMAIN entries /\ entries'[n] = entries[n]
  BY <1>1, ReceiveSteps DEF entries
<1>3. CreditsHaveSends' /\ TrackerShape(tracker, Len(sends))'
  BY <1>2, CreditKept DEF Receive
<1>4. queue' \in [SendFamilies -> Seq(RxType)]
  <2>1. queue[f] \in Seq(RxType) /\ queue[f] # <<>>
    BY <1>1 DEF Awaits, CreditInv, SelfShape
  <2>2. Tail(queue[f]) \in Seq(RxType)
    BY <2>1
  <2> QED
    BY <2>2 DEF Receive, CreditInv, SelfShape
<1>5. SelfShape'
  BY <1>3, <1>4 DEF Receive, CreditInv, SelfShape
<1> QED
  BY <1>3, <1>5 DEF Receive, CreditInv, SealedInRecv

LEMMA CreditStep == CreditInv /\ [SelfNext]_selfVars => CreditInv'
<1> SUFFICES ASSUME CreditInv, [SelfNext]_selfVars PROVE CreditInv'
  OBVIOUS
<1>1. ASSUME NEW f \in SendFamilies, NEW b \in Bodies, Stamp(f, b) \/ PeerSends(f, b)
      PROVE  CreditInv'
  BY <1>1, StampCredit, PeerCredit
<1>2. CASE SendFailed \/ NextIteration \/ SelfTick \/ UNCHANGED selfVars
  <2>1. CreditsHaveSends' /\ TrackerShape(tracker, Len(sends))'
    BY <1>2, CreditKept DEF SendFailed, NextIteration, SelfTick, selfVars, entries, CreditInv,
                            SelfShape
  <2>2. SelfShape'
    BY <1>2, <2>1 DEF SendFailed, NextIteration, SelfTick, selfVars, CreditInv, SelfShape
  <2> QED
    BY <1>2, <2>1, <2>2 DEF SendFailed, NextIteration, SelfTick, selfVars, CreditInv,
                            SealedInRecv
<1>3. ASSUME NEW d \in Steps, WallStep(d)
      PROVE  CreditInv'
  <2>1. CreditsHaveSends' /\ TrackerShape(tracker, Len(sends))'
    BY <1>3, CreditKept DEF WallStep, entries, CreditInv, SelfShape
  <2>2. SelfShape'
    BY <1>3, <2>1, SelfSendAssumption DEF WallStep, CreditInv, SelfShape
  <2> QED
    BY <1>3, <2>1, <2>2 DEF WallStep, CreditInv, SealedInRecv
<1>4. CASE Submitted
  BY <1>4, SubmittedCredit
<1>5. CASE Supersede
  BY <1>5, SupersedeCredit
<1>6. CASE Seal
  BY <1>6, SealCredit
<1>7. ASSUME NEW f \in SendFamilies, Receive(f)
      PROVE  CreditInv'
  BY <1>7, ReceiveCredit
<1> QED
  BY <1>1, <1>2, <1>3, <1>4, <1>5, <1>6, <1>7 DEF SelfNext

-----------------------------------------------------------------------------
(* Echoes and their credits.                                               *)

LEMMA QueuedTyped ==
  ASSUME CreditInv, NEW f \in SendFamilies, NEW j \in 1 .. Len(queue[f])
  PROVE  queue[f][j] \in RxType /\ Len(queue[f]) \in Nat /\ j \in Nat
BY DEF CreditInv, SelfShape

(* The typed parts of an echo that waits to be received.                   *)
LEMMA EchoTyped ==
  ASSUME CreditInv, NEW e \in RxType, e.send \in 1 .. Len(sends)
  PROVE  /\ e.stepped \in Nat /\ stepped \in Nat /\ mono \in Nat
         /\ sends[e.send].opened \in Nat \cup {None}
         /\ e.send \in DOMAIN entries =>
              /\ entries[e.send].sent.wall \in Int /\ entries[e.send].sent.mono \in Nat
              /\ entries[e.send].aged_from = sends[e.send].opened
<1>1. e.stepped \in Nat /\ stepped \in Nat /\ mono \in Nat
  BY DEF CreditInv, SelfShape, RxType
<1>2. sends[e.send] \in SendType
  BY DEF CreditInv, SelfShape
<1>3. ASSUME e.send \in DOMAIN entries
      PROVE  entries[e.send] \in CreditType /\ entries[e.send].aged_from = sends[e.send].opened
  BY <1>3 DEF CreditInv, SelfShape, TrackerShape, CreditsHaveSends, entries
<1> QED
  BY <1>1, <1>2, <1>3 DEF SendType, CreditType, Stamps

LEMMA EchoInit == SelfInit => EchoInv
<1> SUFFICES ASSUME SelfInit PROVE EchoInv
  OBVIOUS
<1>1. \A f \in SendFamilies : queue[f] = <<>> /\ Len(queue[f]) = 0
  BY DEF SelfInit
<1>2. EchoesHaveCredits
  BY <1>1 DEF EchoesHaveCredits
<1>3. EchoesInOrder
  BY <1>1 DEF EchoesInOrder
<1> QED
  BY <1>2, <1>3, CreditInit DEF EchoInv, PendingSince, SelfInit

(* The steps that touch neither the clocks, nor the sends, nor a queue's   *)
(* order, nor a credit.                                                    *)
LEMMA EchoesKept ==
  ASSUME EchoInv, UNCHANGED <<queue, sends, spoiled, mono, skew, stepped>>, entries' = entries
  PROVE  EchoesHaveCredits' /\ EchoesInOrder'
<1>1. EchoesInOrder'
  BY DEF EchoInv, EchoesInOrder
<1>2. EchoesHaveCredits'
  <2> SUFFICES ASSUME NEW f \in SendFamilies, NEW j \in Nat,
                      j \in 1 .. Len(queue[f]), queue[f][j].send # 0
               PROVE  EchoHasCredit(f, queue[f][j])'
    BY DEF EchoesHaveCredits
  <2>1. EchoHasCredit(f, queue[f][j])
    BY DEF EchoInv, EchoesHaveCredits
  <2> QED
    BY <2>1 DEF EchoHasCredit, Owed, Since
<1> QED
  BY <1>1, <1>2

LEMMA StampEcho ==
  ASSUME EchoInv, NEW f \in SendFamilies, NEW b \in Bodies, Stamp(f, b)
  PROVE  EchoInv'
<1>1. CreditInv /\ CreditInv'
  BY StampCredit DEF EchoInv
<1>2. PendingSince'
  <2>1. mono \in Nat /\ skew \in Int /\ stepped \in Nat
    BY <1>1 DEF CreditInv, SelfShape
  <2> QED
    BY <2>1 DEF Stamp, PendingSince, Since, ClockPair, wall
<1> QED
  BY <1>1, <1>2, EchoesKept DEF Stamp, EchoInv, entries

LEMMA IdleEcho ==
  ASSUME EchoInv, SendFailed \/ NextIteration \/ Supersede \/ UNCHANGED selfVars
  PROVE  EchoInv'
<1>1. CreditInv /\ CreditInv'
  BY CreditStep DEF EchoInv, SelfNext
<1>2. entries' = entries
  BY <1>1, SupersedeCredit DEF SendFailed, NextIteration, selfVars, entries
<1>3. PendingSince'
  BY DEF EchoInv, SendFailed, NextIteration, Supersede, selfVars, PendingSince, Since
<1>4. EchoesHaveCredits' /\ EchoesInOrder'
  BY <1>2, EchoesKept DEF SendFailed, NextIteration, Supersede, selfVars
<1> QED
  BY <1>1, <1>3, <1>4 DEF EchoInv

LEMMA TickEcho ==
  ASSUME EchoInv, SelfTick
  PROVE  EchoInv'
<1>1. CreditInv /\ CreditInv'
  BY CreditStep DEF EchoInv, SelfNext
<1>2. PendingSince'
  <2>1. pending # None => pending.sent.mono \in Nat
    BY <1>1 DEF CreditInv, SelfShape, PendingType, Stamps
  <2> QED
    BY <1>1, <2>1 DEF EchoInv, SelfTick, PendingSince, Since, CreditInv, SelfShape
<1>3. EchoesInOrder'
  BY DEF EchoInv, EchoesInOrder, SelfTick
<1>4. EchoesHaveCredits'
  <2> SUFFICES ASSUME NEW f \in SendFamilies, NEW j \in Nat,
                      j \in 1 .. Len(queue[f]), queue[f][j].send # 0
               PROVE  EchoHasCredit(f, queue[f][j])'
    BY DEF EchoesHaveCredits, SelfTick
  <2> DEFINE e == queue[f][j]
  <2>1. EchoHasCredit(f, e) /\ e \in RxType
    BY <1>1, QueuedTyped DEF EchoInv, EchoesHaveCredits
  <2>2. e.send \in 1 .. Len(sends)
    BY <2>1 DEF EchoHasCredit
  <2>3. /\ e.stepped \in Nat /\ stepped \in Nat /\ mono \in Nat
        /\ sends[e.send].opened \in Nat \cup {None}
        /\ e.send \in DOMAIN entries =>
             entries[e.send].sent.wall \in Int /\ entries[e.send].sent.mono \in Nat
    BY <1>1, <2>1, <2>2, EchoTyped
  <2>4. e' = e /\ mono' = mono + 1 /\ entries' = entries
        /\ UNCHANGED <<sends, stepped, skew, spoiled>>
    BY DEF SelfTick, entries
  <2> HIDE DEF e
  <2>5. still_live(mono + 1, sends[e.send].opened) => still_live(mono, sends[e.send].opened)
    BY <2>3, ClockAssumption, SelfSendAssumption DEF still_live
  <2>6. EchoHasCredit(f, e)'
    BY <2>1, <2>3, <2>4, <2>5 DEF EchoHasCredit, Owed, Since
  <2> QED
    BY <2>6 DEF e
<1> QED
  BY <1>1, <1>2, <1>3, <1>4 DEF EchoInv

(* One step of the wall clock and the two clocks disagree visibly about    *)
(* what was stamped before it.                                             *)
LEMMA StepSince ==
  ASSUME NEW d \in Steps, WallStep(d), mono \in Nat, skew \in Int, stepped \in Nat,
         NEW sent \in Stamps, NEW at \in Nat, Since(sent, at)
  PROVE  /\ at <= stepped' /\ sent.mono <= mono' /\ stepped' # at
         /\ stepped' = at + 1 => Distance(skew', sent.wall - sent.mono) > WALL_STEP_TOLERANCE
<1>1. stepped' = stepped + 1 /\ mono' = mono /\ skew' = skew + d /\ d \in Int
  BY SelfSendAssumption DEF WallStep
<1>2. sent.wall \in Int /\ sent.mono \in Nat
  BY DEF Stamps
<1>3. d > WALL_STEP_TOLERANCE \/ -d > WALL_STEP_TOLERANCE
  BY SelfSendAssumption
<1>4. WALL_STEP_TOLERANCE \in Nat
  BY SelfSendAssumption
<1> QED
  BY <1>1, <1>2, <1>3, <1>4 DEF Since, Distance

LEMMA WallStepEcho ==
  ASSUME EchoInv, NEW d \in Steps, WallStep(d)
  PROVE  EchoInv'
<1>1. CreditInv /\ CreditInv'
  BY CreditStep DEF EchoInv, SelfNext
<1>2. mono \in Nat /\ skew \in Int /\ stepped \in Nat
  BY <1>1 DEF CreditInv, SelfShape
<1>3. PendingSince'
  <2>1. pending # None => pending.sent \in Stamps /\ pending.stepped \in Nat
    BY <1>1 DEF CreditInv, SelfShape, PendingType
  <2> QED
    BY <1>2, <2>1, StepSince DEF EchoInv, WallStep, PendingSince, Since
<1>4. EchoesInOrder'
  BY DEF EchoInv, EchoesInOrder, WallStep
<1>5. EchoesHaveCredits'
  <2> SUFFICES ASSUME NEW f \in SendFamilies, NEW j \in Nat,
                      j \in 1 .. Len(queue[f]), queue[f][j].send # 0
               PROVE  EchoHasCredit(f, queue[f][j])'
    BY DEF EchoesHaveCredits, WallStep
  <2> DEFINE e == queue[f][j]
  <2>1. EchoHasCredit(f, e) /\ e \in RxType
    BY <1>1, QueuedTyped DEF EchoInv, EchoesHaveCredits
  <2>2. e.send \in 1 .. Len(sends) /\ e.stepped \in Nat
    BY <2>1 DEF EchoHasCredit, RxType
  <2>3. e.send \in DOMAIN entries => entries[e.send].sent \in Stamps
    BY <1>1 DEF CreditInv, SelfShape, TrackerShape, CreditType, entries
  <2>4. e' = e /\ mono' = mono /\ stepped' = stepped + 1 /\ entries' = entries
        /\ UNCHANGED <<sends, spoiled>>
    BY DEF WallStep, entries
  <2> HIDE DEF e
  <2>5. Owed(f, e)' => Owed(f, e)
    BY <1>2, <2>2, <2>4 DEF Owed
  <2>6. EchoHasCredit(f, e)'
    BY <1>2, <2>1, <2>2, <2>3, <2>4, <2>5, StepSince DEF EchoHasCredit, Since
  <2> QED
    BY <2>6 DEF e
<1> QED
  BY <1>1, <1>3, <1>4, <1>5 DEF EchoInv

(* A datagram goes to the back of a queue.                                 *)
LEMMA QueueGrows ==
  ASSUME CreditInv, NEW f \in SendFamilies, NEW d, queue' = [queue EXCEPT ![f] = Append(@, d)]
  PROVE  \A g \in SendFamilies, j \in Nat : j \in 1 .. Len(queue'[g]) =>
           \/ j \in 1 .. Len(queue[g]) /\ queue'[g][j] = queue[g][j]
           \/ /\ g = f /\ j = Len(queue[g]) + 1 /\ queue'[g][j] = d
              /\ \A i \in 1 .. Len(queue'[g]) :
                   i < j => i \in 1 .. Len(queue[g]) /\ queue'[g][i] = queue[g][i]
<1>1. \A g \in SendFamilies : queue[g] \in Seq(RxType)
  BY DEF CreditInv, SelfShape
<1>2. \A g \in SendFamilies : queue'[g] = IF g = f THEN Append(queue[g], d) ELSE queue[g]
  BY DEF CreditInv, SelfShape
<1> TAKE g \in SendFamilies, j \in Nat
<1> HAVE j \in 1 .. Len(queue'[g])
<1>3. CASE g # f
  BY <1>2, <1>3
<1>4. CASE g = f
  <2>1. queue'[g] = Append(queue[g], d) /\ queue[g] \in Seq(RxType) /\ Len(queue[g]) \in Nat
    <3>1. queue'[g] = Append(queue[g], d)
      BY <1>2, <1>4, Zenon
    <3>2. queue[g] \in Seq(RxType)
      BY <1>1
    <3> QED
      BY <3>1, <3>2
  <2>2. /\ Len(queue'[g]) = Len(queue[g]) + 1 /\ queue'[g][Len(queue[g]) + 1] = d
        /\ \A i \in 1 .. Len(queue[g]) : queue'[g][i] = queue[g][i]
    BY <2>1
  <2> QED
    BY <1>4, <2>1, <2>2
<1> QED
  BY <1>3, <1>4

(* A longer queue keeps the echoes in order when the newcomer is a         *)
(* stranger's or the echo of the newest send.                              *)
LEMMA OrderGrows ==
  ASSUME EchoInv, NEW f \in SendFamilies, NEW d,
         queue' = [queue EXCEPT ![f] = Append(@, d)],
         d.send = 0 \/ d.send = Len(sends) + 1
  PROVE  EchoesInOrder'
<1> SUFFICES ASSUME NEW g \in SendFamilies, NEW i \in 1 .. Len(queue'[g]),
                    NEW j \in 1 .. Len(queue'[g]), i < j,
                    queue'[g][i].send # 0, queue'[g][j].send # 0
             PROVE  queue'[g][i].send < queue'[g][j].send
  BY DEF EchoesInOrder
<1>1. CreditInv
  BY DEF EchoInv
<1>2. i \in Nat /\ j \in Nat
  OBVIOUS
<1>3. CASE j \in 1 .. Len(queue[g]) /\ queue'[g][j] = queue[g][j]
  <2>1. i \in 1 .. Len(queue[g]) /\ queue'[g][i] = queue[g][i]
    BY <1>1, <1>2, <1>3, QueueGrows
  <2> QED
    BY <1>3, <2>1 DEF EchoInv, EchoesInOrder
<1>4. CASE queue'[g][j] = d /\ i \in 1 .. Len(queue[g]) /\ queue'[g][i] = queue[g][i]
  <2>1. queue[g][i].send \in 1 .. Len(sends)
    BY <1>2, <1>4 DEF EchoInv, EchoesHaveCredits, EchoHasCredit
  <2> QED
    BY <1>4, <2>1
<1> QED
  BY <1>1, <1>2, <1>3, <1>4, QueueGrows

LEMMA PeerEcho ==
  ASSUME EchoInv, NEW f \in SendFamilies, NEW b \in Bodies, PeerSends(f, b)
  PROVE  EchoInv'
<1>1. CreditInv /\ CreditInv'
  BY PeerCredit DEF EchoInv
<1>2. PICK rx \in RxStamps :
        queue' = [queue EXCEPT ![f] = Append(@, RxDatagram(b, rx, 0, stepped))]
  BY DEF PeerSends
<1> DEFINE d == RxDatagram(b, rx, 0, stepped)
<1>3. d.send = 0
  BY DEF RxDatagram
<1>4. queue' = [queue EXCEPT ![f] = Append(@, d)]
  BY <1>2
<1> HIDE DEF d
<1>5. EchoesInOrder'
  BY <1>3, <1>4, OrderGrows
<1>6. EchoesHaveCredits'
  <2> SUFFICES ASSUME NEW g \in SendFamilies, NEW j \in Nat,
                      j \in 1 .. Len(queue'[g]), queue'[g][j].send # 0
               PROVE  EchoHasCredit(g, queue[g][j])'
    BY DEF EchoesHaveCredits
  <2>1. j \in 1 .. Len(queue[g]) /\ queue'[g][j] = queue[g][j]
    BY <1>1, <1>3, <1>4, QueueGrows
  <2>2. EchoHasCredit(g, queue[g][j])
    BY <2>1 DEF EchoInv, EchoesHaveCredits
  <2>3. entries' = entries /\ UNCHANGED <<mono, skew, stepped, sends, spoiled>>
    BY DEF PeerSends, entries
  <2> QED
    BY <2>1, <2>2, <2>3 DEF EchoHasCredit, Owed, Since
<1>7. PendingSince'
  BY DEF EchoInv, PeerSends, PendingSince, Since
<1> QED
  BY <1>1, <1>5, <1>6, <1>7 DEF EchoInv

LEMMA SubmittedEcho ==
  ASSUME EchoInv, Submitted
  PROVE  EchoInv'
<1> DEFINE n == Len(sends) + 1
           key == Key(pending.family, pending.body)
<1>1. CreditInv /\ CreditInv'
  BY SubmittedCredit DEF EchoInv
<1>2. /\ n \in Nat /\ Len(sends') = n
      /\ \A m \in 1 .. Len(sends) : sends'[m] = sends[m]
      /\ sends'[n].key = key
      /\ \A m \in DOMAIN entries' : m # n => m \in DOMAIN entries /\ entries'[m] = entries[m]
      /\ n \in DOMAIN entries' =>
           entries'[n] = Credit(pending.family, pending.body, tracker.generation, pending.sent)
      /\ \A m \in DOMAIN entries :
           still_live(mono, entries[m].aged_from) => m \in DOMAIN entries'
      /\ n \notin DOMAIN entries' => key \in spoiled'
      /\ spoiled \subseteq spoiled'
  BY <1>1, SubmittedRecords
<1>3. pending.family \in SendFamilies /\ pending.body \in Bodies /\ pending.sent \in Stamps
      /\ pending.stepped \in Nat
  BY <1>1 DEF Submitted, CreditInv, SelfShape, PendingType
<1>4. Since(pending.sent, pending.stepped)
  BY DEF EchoInv, Submitted, PendingSince
<1>5. UNCHANGED <<mono, skew, stepped>> /\ pending' = None
  BY DEF Submitted
<1>6. mono \in Nat /\ skew \in Int /\ stepped \in Nat /\ tracker.generation \in Nat
      /\ Len(sends) \in Nat
  BY <1>1 DEF CreditInv, SelfShape, TrackerShape
(* An echo that was queued before keeps what it had.                       *)
<1>7. ASSUME NEW g \in SendFamilies, NEW e \in RxType, EchoHasCredit(g, e)
      PROVE  EchoHasCredit(g, e)'
  <2>1. e.send \in 1 .. Len(sends) /\ e.send # n
    BY <1>6, <1>7 DEF EchoHasCredit
  <2>2. sends'[e.send] = sends[e.send] /\ e.send \in 1 .. Len(sends')
    BY <1>2, <1>6, <2>1
  <2>3. Owed(g, e)' => Owed(g, e)
    BY <1>2, <1>5, <2>2 DEF Owed
  <2>4. ASSUME Owed(g, e)
        PROVE  e.send \in DOMAIN entries' /\ entries'[e.send] = entries[e.send]
    <3>1. e.send \in DOMAIN entries
      BY <1>7, <2>4 DEF EchoHasCredit
    <3>2. entries[e.send].aged_from = sends[e.send].opened
      BY <1>1, <3>1 DEF CreditInv, CreditsHaveSends
    <3>3. still_live(mono, entries[e.send].aged_from)
      BY <2>4, <3>2 DEF Owed
    <3> QED
      BY <1>2, <2>1, <3>1, <3>3
  <2> HIDE DEF n, key
  <2> QED
    BY <1>5, <1>7, <2>2, <2>3, <2>4 DEF EchoHasCredit, Since
(* The echo of the send itself has the credit just recorded, or the credit *)
(* was refused.                                                            *)
<1>8. ASSUME NEW e \in RxType, NEW rx \in RxStamps,
             e = RxDatagram(pending.body, rx, n, pending.stepped),
             NEW g \in SendFamilies, g = pending.family
      PROVE  EchoHasCredit(g, e)'
  <2> DEFINE sent == pending.sent
  <2>1. e.body = pending.body /\ e.rx = rx /\ e.send = n /\ e.stepped = pending.stepped
        /\ g = pending.family
    BY <1>8 DEF RxDatagram
  <2>2. rx \in Int \cup {None} /\ (rx # None => rx + RX_TIMESTAMP_GRAIN >= wall)
    BY <1>1, RxStampsTyped
  <2>3. stepped = e.stepped => e.rx = None \/ e.rx + RX_TIMESTAMP_GRAIN >= sent.wall
    <3>1. pending.sent.wall \in Int /\ pending.sent.mono \in Nat
      BY <1>3 DEF Stamps
    <3>2. RX_TIMESTAMP_GRAIN \in Nat
      BY SelfSendAssumption
    <3> QED
      BY <1>4, <1>6, <2>1, <2>2, <3>1, <3>2 DEF Since, wall
  <2>4. ASSUME n \in DOMAIN entries'
        PROVE  /\ entries'[n].family = g /\ entries'[n].body = e.body /\ entries'[n].sent = sent
    BY <1>2, <1>3, <1>6, <2>1, <2>4, NewCredit
  <2>5. e.send \in 1 .. Len(sends') /\ sends'[e.send].key = Key(g, e.body)
    BY <1>2, <1>6, <2>1
  <2>6. Owed(g, e)' => n \in DOMAIN entries'
    <3>1. key = Key(g, e.body)
      BY <2>1
    <3> SUFFICES ASSUME Key(g, e.body) \notin spoiled' PROVE n \in DOMAIN entries'
      BY DEF Owed
    <3> HIDE DEF key
    <3> QED
      BY <1>2, <3>1
  <2> HIDE DEF n, key
  <2> QED
    BY <1>4, <1>5, <2>1, <2>3, <2>4, <2>5, <2>6 DEF EchoHasCredit, Since
<1>9. EchoesHaveCredits' /\ EchoesInOrder'
  <2>1. ASSUME NEW g \in SendFamilies, NEW j \in Nat,
               j \in 1 .. Len(queue[g]), queue[g][j].send # 0, queue'[g][j] = queue[g][j]
        PROVE  EchoHasCredit(g, queue[g][j])'
    <3>1. PICK e \in RxType : e = queue[g][j]
      BY <1>1, <2>1, QueuedTyped
    <3>2. EchoHasCredit(g, e)
      BY <2>1, <3>1 DEF EchoInv, EchoesHaveCredits
    <3>3. EchoHasCredit(g, e)'
      BY <1>7, <3>2
    <3> QED
      BY <2>1, <3>1, <3>3
  <2>2. CASE queue' = queue
    BY <2>1, <2>2 DEF EchoInv, EchoesInOrder, EchoesHaveCredits
  <2>3. CASE queue' # queue
    <3>1. PICK rx \in RxStamps :
            queue' = [queue EXCEPT ![pending.family] =
                        Append(@, RxDatagram(pending.body, rx, n, pending.stepped))]
      BY <2>3 DEF Submitted
    <3>2. PICK d \in RxType : d = RxDatagram(pending.body, rx, n, pending.stepped)
      BY <1>1, <1>2, <1>3, RxStampsTyped DEF RxDatagram, RxType
    <3>3. d.send = n
      BY <3>2 DEF RxDatagram
    <3>4. queue' = [queue EXCEPT ![pending.family] = Append(@, d)]
      BY <3>1, <3>2
    <3>5. EchoesInOrder'
      BY <1>3, <3>3, <3>4, OrderGrows
    <3>6. EchoesHaveCredits'
      <4> SUFFICES ASSUME NEW g \in SendFamilies, NEW j \in Nat,
                          j \in 1 .. Len(queue'[g]), queue'[g][j].send # 0
                   PROVE  EchoHasCredit(g, queue[g][j])'
        BY DEF EchoesHaveCredits
      <4>1. CASE j \in 1 .. Len(queue[g]) /\ queue'[g][j] = queue[g][j]
        BY <2>1, <4>1
      <4>2. CASE g = pending.family /\ queue'[g][j] = d
        <5>1. EchoHasCredit(g, d)'
          BY <1>8, <3>2, <4>2
        <5> QED
          BY <4>2, <5>1 DEF EchoHasCredit, Owed, Since
      <4> QED
        BY <1>1, <1>3, <3>4, <4>1, <4>2, QueueGrows
    <3> QED
      BY <3>5, <3>6
  <2> QED
    BY <2>2, <2>3
<1>10. PendingSince'
  BY <1>5 DEF PendingSince
<1> QED
  BY <1>1, <1>9, <1>10 DEF EchoInv

LEMMA SealEcho ==
  ASSUME EchoInv, Seal
  PROVE  EchoInv'
<1>1. CreditInv /\ CreditInv'
  BY SealCredit DEF EchoInv
<1>2. PendingSince' /\ EchoesInOrder'
  BY DEF EchoInv, Seal, PendingSince, Since, EchoesInOrder
<1>3. EchoesHaveCredits'
  <2> SUFFICES ASSUME NEW f \in SendFamilies, NEW j \in Nat,
                      j \in 1 .. Len(queue[f]), queue[f][j].send # 0
               PROVE  EchoHasCredit(f, queue[f][j])'
    BY DEF EchoesHaveCredits, Seal
  <2> DEFINE e == queue[f][j]
  <2>1. EchoHasCredit(f, e) /\ e \in RxType
    BY <1>1, QueuedTyped DEF EchoInv, EchoesHaveCredits
  <2>2. e.send \in 1 .. Len(sends)
    BY <2>1 DEF EchoHasCredit
  <2>3. e' = e /\ UNCHANGED <<mono, skew, stepped, spoiled>>
    BY DEF Seal
  <2> HIDE DEF e
  <2>4. /\ sends'[e.send].key = sends[e.send].key /\ Len(sends') = Len(sends)
        /\ sends'[e.send].opened = IF sends[e.send].opened = None THEN mono
                                   ELSE sends[e.send].opened
    BY <1>1, <2>2, SealSteps
  <2>5. Owed(f, e)' => Owed(f, e)
    BY <2>3, <2>4 DEF Owed, still_live
  <2>6. ASSUME Owed(f, e)
        PROVE  /\ e.send \in DOMAIN entries' /\ entries'[e.send].family = entries[e.send].family
               /\ entries'[e.send].body = entries[e.send].body
               /\ entries'[e.send].sent = entries[e.send].sent
    <3>1. e.send \in DOMAIN entries
      BY <2>1, <2>6 DEF EchoHasCredit
    <3>2. /\ entries[e.send].aged_from = sends[e.send].opened
          /\ entries[e.send] \in CreditType
      BY <1>1, <3>1 DEF CreditInv, SelfShape, TrackerShape, CreditsHaveSends, entries
    <3>3. e.send \in DOMAIN entries'
      BY <1>1, <2>6, <3>1, <3>2, SealSteps DEF Owed
    <3>4. entries'[e.send] = [entries[e.send] EXCEPT !.aged_from = IF @ = None THEN mono ELSE @]
      BY <1>1, <3>3, SealSteps
    <3> QED
      BY <3>2, <3>3, <3>4 DEF CreditType
  <2>7. EchoHasCredit(f, e)'
    BY <2>1, <2>2, <2>3, <2>4, <2>5, <2>6 DEF EchoHasCredit, Since
  <2> QED
    BY <2>7 DEF e
<1> QED
  BY <1>1, <1>2, <1>3 DEF EchoInv

(* An echo that is owed its credit may claim it: either the clocks order   *)
(* it after its send, or they disagree visibly and order nothing.          *)
LEMMA OwnCreditEligible ==
  ASSUME EchoInv, NEW f \in SendFamilies, NEW e \in RxType, EchoHasCredit(f, e), Owed(f, e)
  PROVE  e.send \in Eligible(tracker, f, e.body, e.rx, ClockPair(wall, mono))
<1> DEFINE now == ClockPair(wall, mono)
           c == entries[e.send]
<1>1. /\ e.send \in 1 .. Len(sends) /\ e.send \in DOMAIN entries /\ c.family = f
      /\ c.body = e.body /\ Since(c.sent, e.stepped)
      /\ stepped = e.stepped => e.rx = None \/ e.rx + RX_TIMESTAMP_GRAIN >= c.sent.wall
  BY DEF EchoHasCredit
<1>2. CreditInv /\ mono \in Nat /\ skew \in Int /\ stepped \in Nat
  BY DEF EchoInv, CreditInv, SelfShape
<1>3. /\ e.stepped \in Nat /\ c.sent.wall \in Int /\ c.sent.mono \in Nat
      /\ c.aged_from = sends[e.send].opened
  BY <1>1, <1>2, EchoTyped
<1>4. now.wall = mono + skew /\ now.mono = mono
  BY DEF ClockPair, wall
<1>5. still_live(now.mono, c.aged_from)
  BY <1>3, <1>4 DEF Owed
<1>6. reference_ordered(e.rx, c.sent, evidence_mode(e.rx, c.sent, now))
  <2>1. CASE e.rx = None
    BY <2>1 DEF reference_ordered, evidence_mode
  <2>2. CASE e.rx # None /\ stepped = e.stepped
    BY <1>1, <2>2 DEF reference_ordered
  <2>3. CASE stepped = e.stepped + 1
    <3>1. Distance(skew, c.sent.wall - c.sent.mono) > WALL_STEP_TOLERANCE
      BY <1>1, <2>3 DEF Since
    <3>2. wall_stepped(c.sent, now)
      <4> HIDE DEF c, now
      <4> QED
        BY <1>2, <1>3, <1>4, <3>1 DEF wall_stepped, Distance
    <3> HIDE DEF c, now
    <3> QED
      BY <3>2 DEF reference_ordered, evidence_mode
  <2>4. stepped = e.stepped \/ stepped = e.stepped + 1
    <3>1. e.stepped <= stepped /\ stepped <= e.stepped + 1
      BY <1>1 DEF Since, Owed
    <3> QED
      BY <1>2, <1>3, <3>1
  <2> QED
    BY <2>1, <2>2, <2>3, <2>4
<1> HIDE DEF now
<1>7. e.send \in Eligible(tracker, f, e.body, e.rx, now)
  BY <1>1, <1>5, <1>6 DEF Eligible, entries
<1> QED
  BY <1>7 DEF now

(* A claim takes no credit that an echo behind it is owed.                 *)
LEMMA ClaimSparesLater ==
  ASSUME EchoInv, NEW f \in SendFamilies, Receive(f),
         NEW g \in SendFamilies, NEW e \in RxType, EchoHasCredit(g, e), Owed(g, e),
         Key(g, e.body) \notin spoiled',
         g = f => e.send # 0 /\ (Head(queue[f]).send # 0 => Head(queue[f]).send < e.send)
  PROVE  e.send \in DOMAIN entries' /\ entries'[e.send] = entries[e.send]
<1> DEFINE h == Head(queue[f])
           now == ClockPair(wall, mono)
           current == Current(tracker, f, h.body, h.rx, now)
<1>1. CreditInv /\ Awaits(f) /\ tracker' = Claimed(f).tracker
      /\ spoiled' = IF Misspent(f) THEN spoiled \cup {Key(f, h.body)} ELSE spoiled
  BY DEF EchoInv, Receive, NextKey
<1>2. /\ e.send \in DOMAIN entries /\ entries[e.send].family = g
      /\ entries[e.send].body = e.body /\ e.send \in 1 .. Len(sends)
  BY DEF EchoHasCredit
<1>3. /\ h \in RxType /\ h = queue[f][1]
      /\ \/ tracker' = tracker /\ Claimed(f).verdict \notin MatchMode
         \/ /\ Claimed(f).verdict \in MatchMode
            /\ \E pos \in current :
                 /\ \A i \in current : pos <= i
                 /\ DOMAIN tracker'.entries = DOMAIN entries \ {pos}
                 /\ \A n \in DOMAIN tracker'.entries : tracker'.entries[n] = entries[n]
  BY <1>1, ReceiveSteps
<1>4. CASE tracker' = tracker
  BY <1>2, <1>4 DEF entries
<1>5. CASE Claimed(f).verdict \in MatchMode /\ tracker' # tracker
  <2>1. PICK pos \in current :
          /\ \A i \in current : pos <= i
          /\ DOMAIN entries' = DOMAIN entries \ {pos}
          /\ \A n \in DOMAIN entries' : entries'[n] = entries[n]
    BY <1>3, <1>5 DEF entries
  <2>2. pos \in DOMAIN entries /\ entries[pos].family = f /\ entries[pos].body = h.body
    BY DEF Current, Eligible, entries
  <2>3. pos # e.send
    <3> SUFFICES ASSUME pos = e.send PROVE FALSE
      OBVIOUS
    <3>1. g = f /\ e.body = h.body
      BY <1>2, <2>2
    <3>2. ~Misspent(f) /\ Key(f, h.body) \notin spoiled
      BY <1>1, <3>1
    <3>3. /\ h.send # 0 /\ ~Late(f) /\ ~SteppedTwice(f)
          /\ sends[h.send].generation = tracker.generation
      BY <1>5, <3>2 DEF Misspent, Own
    <3>4. EchoHasCredit(f, h)
      <4>1. 1 \in Nat /\ 1 \in 1 .. Len(queue[f])
        <5>1. queue[f] \in Seq(RxType) /\ queue[f] # <<>>
          BY <1>1 DEF Awaits, CreditInv, SelfShape
        <5> QED
          BY <5>1
      <4> HIDE DEF h
      <4> QED
        BY <1>3, <3>3, <4>1 DEF EchoInv, EchoesHaveCredits
    <3>5. Owed(f, h)
      <4>1. h.stepped \in Nat /\ stepped \in Nat
        BY <1>1, <1>3 DEF RxType, CreditInv, SelfShape
      <4>2. stepped <= h.stepped + 1
        BY <3>3, <4>1 DEF SteppedTwice
      <4> QED
        BY <3>2, <3>3, <4>2 DEF Owed, Late
    <3>6. h.send \in Eligible(tracker, f, h.body, h.rx, now) /\ h.send \in DOMAIN entries
      <4> HIDE DEF h, now
      <4>1. h.send \in Eligible(tracker, f, h.body, h.rx, ClockPair(wall, mono))
        BY <1>3, <3>4, <3>5, OwnCreditEligible
      <4> QED
        BY <4>1 DEF now, Eligible, entries
    <3>7. entries[h.send].generation = tracker.generation
      BY <1>1, <3>3, <3>6 DEF CreditInv, CreditsHaveSends
    <3>8. h.send \in current
      <4> HIDE DEF h, now
      <4> QED
        BY <3>6, <3>7 DEF Current, entries
    <3>9. pos <= h.send /\ h.send < e.send
      BY <2>1, <3>1, <3>3, <3>8
    <3>10. h.send \in Int /\ e.send \in Int /\ pos \in Int
      BY <1>2, <1>3 DEF RxType
    <3> HIDE DEF h
    <3> QED
      BY <3>9, <3>10
  <2> QED
    BY <1>2, <2>1, <2>3
<1> QED
  BY <1>3, <1>4, <1>5

LEMMA ReceiveEcho ==
  ASSUME EchoInv, NEW f \in SendFamilies, Receive(f)
  PROVE  EchoInv'
<1>1. CreditInv /\ CreditInv'
  BY ReceiveCredit DEF EchoInv
<1>2. UNCHANGED <<mono, skew, stepped, sends, pending>> /\ spoiled \subseteq spoiled'
  BY DEF Receive
<1>3. PendingSince'
  BY <1>2 DEF EchoInv, PendingSince, Since
<1>4. queue[f] \in Seq(RxType) /\ queue[f] # <<>> /\ Head(queue[f]) = queue[f][1]
  <2>1. queue[f] \in Seq(RxType) /\ queue[f] # <<>>
    BY <1>1 DEF Receive, Awaits, CreditInv, SelfShape
  <2> QED
    BY <2>1
(* What is behind moves up, in order.                                      *)
<1>5. \A g \in SendFamilies, j \in Nat : j \in 1 .. Len(queue'[g]) =>
        \/ g # f /\ j \in 1 .. Len(queue[g]) /\ queue'[g][j] = queue[g][j]
        \/ g = f /\ j + 1 \in 1 .. Len(queue[g]) /\ queue'[g][j] = queue[g][j + 1]
  <2>1. \A g \in SendFamilies : queue'[g] = IF g = f THEN Tail(queue[f]) ELSE queue[g]
    BY DEF Receive, CreditInv, SelfShape, EchoInv
  <2>2. /\ Len(queue[f]) \in Nat /\ Len(Tail(queue[f])) = Len(queue[f]) - 1
        /\ \A j \in 1 .. Len(Tail(queue[f])) : Tail(queue[f])[j] = queue[f][j + 1]
    BY <1>4
  <2> DEFINE rest == Tail(queue[f])
  <2>3. Len(rest) = Len(queue[f]) - 1 /\ \A j \in 1 .. Len(rest) : rest[j] = queue[f][j + 1]
    BY <2>2
  <2>4. queue'[f] = rest
    BY <2>1
  <2> HIDE DEF rest
  <2> TAKE g \in SendFamilies, j \in Nat
  <2> HAVE j \in 1 .. Len(queue'[g])
  <2>5. CASE g = f
    <3>1. j \in 1 .. Len(rest) /\ queue'[g][j] = rest[j]
      BY <2>4, <2>5
    <3> QED
      BY <2>2, <2>3, <2>5, <3>1
  <2>6. CASE g # f
    BY <2>1, <2>6
  <2> QED
    BY <2>5, <2>6
<1>6. EchoesInOrder'
  <2> SUFFICES ASSUME NEW g \in SendFamilies, NEW i \in 1 .. Len(queue'[g]),
                      NEW j \in 1 .. Len(queue'[g]), i < j,
                      queue'[g][i].send # 0, queue'[g][j].send # 0
               PROVE  queue'[g][i].send < queue'[g][j].send
    BY DEF EchoesInOrder
  <2>1. i \in Nat /\ j \in Nat
    OBVIOUS
  <2>2. CASE g # f
    <3>1. /\ i \in 1 .. Len(queue[g]) /\ queue'[g][i] = queue[g][i]
          /\ j \in 1 .. Len(queue[g]) /\ queue'[g][j] = queue[g][j]
      BY <1>5, <2>1, <2>2
    <3> QED
      BY <3>1 DEF EchoInv, EchoesInOrder
  <2>3. CASE g = f
    <3>1. /\ i + 1 \in 1 .. Len(queue[g]) /\ queue'[g][i] = queue[g][i + 1]
          /\ j + 1 \in 1 .. Len(queue[g]) /\ queue'[g][j] = queue[g][j + 1] /\ i + 1 < j + 1
      BY <1>5, <2>1, <2>3
    <3> QED
      BY <3>1 DEF EchoInv, EchoesInOrder
  <2> QED
    BY <2>2, <2>3
<1>7. EchoesHaveCredits'
  <2> SUFFICES ASSUME NEW g \in SendFamilies, NEW j \in Nat,
                      j \in 1 .. Len(queue'[g]), queue'[g][j].send # 0
               PROVE  EchoHasCredit(g, queue[g][j])'
    BY DEF EchoesHaveCredits
  <2>1. PICK i \in Nat : /\ i \in 1 .. Len(queue[g]) /\ queue'[g][j] = queue[g][i]
                         /\ g = f => 1 < i
    BY <1>5
  <2>2. PICK e \in RxType : e = queue[g][i]
    BY <1>1, <2>1, QueuedTyped
  <2>3. EchoHasCredit(g, e) /\ e.send # 0
    BY <2>1, <2>2 DEF EchoInv, EchoesHaveCredits
  <2>4. g = f /\ Head(queue[f]).send # 0 => Head(queue[f]).send < e.send
    <3>1. 1 \in 1 .. Len(queue[f])
      BY <1>4
    <3> QED
      BY <1>4, <2>1, <2>2, <2>3, <3>1 DEF EchoInv, EchoesInOrder
  <2>5. Owed(g, e)' => Owed(g, e) /\ Key(g, e.body) \notin spoiled'
    BY <1>2 DEF Owed
  <2>6. Owed(g, e)' => e.send \in DOMAIN entries' /\ entries'[e.send] = entries[e.send]
    BY <2>3, <2>4, <2>5, ClaimSparesLater
  <2>7. EchoHasCredit(g, e)'
    BY <1>2, <2>3, <2>5, <2>6 DEF EchoHasCredit, Since
  <2> QED
    BY <2>1, <2>2, <2>7 DEF EchoHasCredit, Owed, Since
<1> QED
  BY <1>1, <1>3, <1>6, <1>7 DEF EchoInv

LEMMA EchoStep == EchoInv /\ [SelfNext]_selfVars => EchoInv'
<1> SUFFICES ASSUME EchoInv, [SelfNext]_selfVars PROVE EchoInv'
  OBVIOUS
<1>1. ASSUME NEW f \in SendFamilies, NEW b \in Bodies, Stamp(f, b) \/ PeerSends(f, b)
      PROVE  EchoInv'
  BY <1>1, StampEcho, PeerEcho
<1>2. CASE SendFailed \/ NextIteration \/ Supersede \/ UNCHANGED selfVars
  BY <1>2, IdleEcho
<1>3. CASE Submitted
  BY <1>3, SubmittedEcho
<1>4. CASE Seal
  BY <1>4, SealEcho
<1>5. CASE SelfTick
  BY <1>5, TickEcho
<1>6. ASSUME NEW f \in SendFamilies, Receive(f)
      PROVE  EchoInv'
  BY <1>6, ReceiveEcho
<1>7. ASSUME NEW d \in Steps, WallStep(d)
      PROVE  EchoInv'
  BY <1>7, WallStepEcho
<1> QED
  BY <1>1, <1>2, <1>3, <1>4, <1>5, <1>6, <1>7 DEF SelfNext

LEMMA EchoAlways == SelfSpec => []EchoInv
BY EchoInit, EchoStep, PTL DEF SelfSpec

-----------------------------------------------------------------------------
(* What the tracker promises.                                              *)

(* A credit that a claim may weigh was left by a send of the same bytes,   *)
(* whose window is still open.                                             *)
LEMMA EligibleWasSent ==
  ASSUME CreditInv, NEW f \in SendFamilies, Awaits(f), NEW b, NEW rx,
         NEW i \in Eligible(tracker, f, b, rx, ClockPair(wall, mono))
  PROVE  /\ i \in 1 .. Len(sends) /\ sends[i].key = Key(f, b)
         /\ sends[i].generation = entries[i].generation
         /\ mono - sends[i].opened <= SELF_SEND_TTL
<1>1. /\ i \in DOMAIN entries /\ entries[i].family = f /\ entries[i].body = b
      /\ still_live(mono, entries[i].aged_from)
  BY DEF Eligible, entries, ClockPair
<1>2. i \in 1 .. Len(sends)
  BY <1>1 DEF CreditInv, SelfShape, TrackerShape, entries
<1>3. /\ sends[i].key = Key(f, b) /\ sends[i].generation = entries[i].generation
      /\ sends[i].opened = entries[i].aged_from
  BY <1>1 DEF CreditInv, CreditsHaveSends
<1>4. sends[i].opened # None
  BY <1>2 DEF Awaits, CreditInv, SealedInRecv
<1> QED
  BY <1>1, <1>2, <1>3, <1>4 DEF still_live

(***************************************************************************)
(* A peer's identical bytes pass for an echo only within SELF_SEND_TTL of  *)
(* the seal after one of this endpoint's own sends of them                 *)
(* (open_window_at, claim): a credit is a send, its window opens once, and *)
(* only a seal opens it.                                                   *)
(***************************************************************************)
THEOREM SuppressionIsBounded == SelfSpec => []SuppressionBounded
<1>1. CreditInv => SuppressionBounded
  <2> SUFFICES ASSUME CreditInv, NEW f \in SendFamilies, Awaits(f),
                      Claimed(f).verdict # "NoCredit"
               PROVE  \E i \in DOMAIN sends : /\ sends[i].key = NextKey(f)
                                              /\ mono - sends[i].opened <= SELF_SEND_TTL
    BY DEF SuppressionBounded
  <2> DEFINE h == Head(queue[f])
             eligible == Eligible(tracker, f, h.body, h.rx, ClockPair(wall, mono))
  <2>1. PICK i \in eligible : TRUE
    <3>1. CASE eligible # {}
      BY <3>1
    <3>2. CASE eligible = {}
      <4>1. Current(tracker, f, h.body, h.rx, ClockPair(wall, mono)) = {}
        BY <3>2 DEF Current
      <4>2. Claimed(f).verdict = "NoCredit"
        BY <3>2, <4>1 DEF Claimed, claim
      <4> QED
        BY <4>2
    <3> QED
      BY <3>1, <3>2
  <2>2. /\ i \in 1 .. Len(sends) /\ sends[i].key = Key(f, h.body)
        /\ mono - sends[i].opened <= SELF_SEND_TTL
    BY EligibleWasSent
  <2>3. i \in DOMAIN sends
    BY <2>2 DEF CreditInv, SelfShape
  <2> QED
    BY <2>2, <2>3 DEF NextKey
<1>2. EchoInv => SuppressionBounded
  BY <1>1 DEF EchoInv
<1> QED
  BY <1>2, EchoAlways, PTL

(***************************************************************************)
(* Bytes of a superseded generation no longer silence the peer that        *)
(* defends them (supersede, the generation test of claim_by).              *)
(***************************************************************************)
THEOREM SupersededNeverSilences == SelfSpec => []OnlyCurrentGenerationSilences
<1>1. CreditInv => OnlyCurrentGenerationSilences
  <2> SUFFICES ASSUME CreditInv, NEW f \in SendFamilies, Awaits(f),
                      ClassOf(Head(queue[f]).body) = "Assertion",
                      Claimed(f).verdict \in MatchMode
               PROVE  \E i \in DOMAIN sends : /\ sends[i].key = NextKey(f)
                                              /\ sends[i].generation = tracker.generation
    BY DEF OnlyCurrentGenerationSilences
  <2> DEFINE h == Head(queue[f])
             now == ClockPair(wall, mono)
  <2>1. PICK pos : pos \in Current(tracker, f, h.body, h.rx, now)
    BY ReceiveSteps
  <2>2. /\ pos \in Eligible(tracker, f, h.body, h.rx, now)
        /\ entries[pos].generation = tracker.generation \/ entries[pos].class = "Question"
    BY <2>1 DEF Current, entries
  <2>3. /\ pos \in 1 .. Len(sends) /\ sends[pos].key = Key(f, h.body)
        /\ sends[pos].generation = entries[pos].generation
    BY <2>2, EligibleWasSent
  <2>4. entries[pos].class = ClassOf(h.body)
    <3>1. pos \in DOMAIN entries /\ entries[pos].body = h.body
      BY <2>2 DEF Eligible, entries
    <3> QED
      BY <3>1 DEF CreditInv, CreditsHaveSends
  <2>5. sends[pos].generation = tracker.generation
    BY <2>2, <2>3, <2>4
  <2>6. pos \in DOMAIN sends
    BY <2>3 DEF CreditInv, SelfShape
  <2> QED
    BY <2>3, <2>5, <2>6 DEF NextKey
<1>2. EchoInv => OnlyCurrentGenerationSilences
  BY <1>1 DEF EchoInv
<1> QED
  BY <1>2, EchoAlways, PTL

(***************************************************************************)
(* The endpoint never takes its own echo for a peer, whatever stalls       *)
(* between the stamp and the syscall, whatever order the sockets are read  *)
(* in, and across one step of the wall clock (record, seal, claim): an     *)
(* echo inside its window whose credits no cap refused and no other copy   *)
(* took is never answered "NoCredit".                                      *)
(***************************************************************************)
THEOREM OwnEchoIsRecognised == SelfSpec => []OwnEchoRecognised
<1>1. EchoInv => OwnEchoRecognised
  <2> SUFFICES ASSUME EchoInv, NEW f \in SendFamilies, Awaits(f), Own(f),
                      Claimed(f).verdict = "NoCredit",
                      NextKey(f) \notin spoiled, ~Late(f), ~SteppedTwice(f)
               PROVE  FALSE
    BY DEF OwnEchoRecognised
  <2> DEFINE h == Head(queue[f])
  <2>1. CreditInv /\ queue[f] \in Seq(RxType) /\ queue[f] # <<>>
    BY DEF EchoInv, CreditInv, SelfShape, Awaits
  <2>2. h \in RxType /\ h = queue[f][1] /\ 1 \in Nat /\ 1 \in 1 .. Len(queue[f])
    BY <2>1
  <2>3. Eligible(tracker, f, h.body, h.rx, ClockPair(wall, mono)) = {}
    BY <2>1, ReceiveSteps
  <2>4. h.send # 0 /\ still_live(mono, sends[h.send].opened) /\ Key(f, h.body) \notin spoiled
        /\ ~(stepped > h.stepped + 1)
    BY DEF Own, Late, SteppedTwice, NextKey
  <2> HIDE DEF h
  <2>5. EchoHasCredit(f, h)
    BY <2>2, <2>4 DEF EchoInv, EchoesHaveCredits
  <2>6. Owed(f, h)
    <3>1. h.stepped \in Nat /\ stepped \in Nat
      BY <2>1, <2>2 DEF RxType, CreditInv, SelfShape
    <3> QED
      BY <2>4, <3>1 DEF Owed
  <2>7. h.send \in Eligible(tracker, f, h.body, h.rx, ClockPair(wall, mono))
    BY <2>2, <2>5, <2>6, OwnCreditEligible
  <2> QED
    BY <2>3, <2>7
<1> QED
  BY <1>1, EchoAlways, PTL

-----------------------------------------------------------------------------
(* The on-link check.                                                      *)

(***************************************************************************)
(* Powers of two and division, as far as prefixes need them.  A power of   *)
(* two is known to the provers only as the number of subsets of an         *)
(* interval, so what it doubles and multiplies to is counted.              *)
(***************************************************************************)

(* There are as many subsets of 1 .. a as the power says.                  *)
LEMMA PowerType ==
  ASSUME NEW a \in Nat
  PROVE  2^a \in Nat /\ 2^a >= 1
<1>1. IsFiniteSet(1 .. a) /\ Cardinality(1 .. a) = a
  BY FS_Interval
<1>2. IsFiniteSet(SUBSET (1 .. a)) /\ Cardinality(SUBSET (1 .. a)) = 2^a
  BY <1>1, FS_SUBSET
<1>3. 2^a \in Nat
  BY <1>2, FS_CardinalityType
<1>4. SUBSET (1 .. a) # {}
  OBVIOUS
<1>5. 2^a # 0
  BY <1>2, <1>4, FS_EmptySet
<1> QED
  BY <1>3, <1>5

LEMMA PowerStep ==
  ASSUME NEW a \in Nat
  PROVE  2^(a + 1) = 2 * 2^a
<1> DEFINE S == SUBSET (1 .. a)
           T == {s \cup {a + 1} : s \in S}
           f == [s \in S |-> s \cup {a + 1}]
<1>1. IsFiniteSet(1 .. a) /\ Cardinality(1 .. a) = a /\ a + 1 \in Nat
  BY FS_Interval
<1>2. IsFiniteSet(S) /\ Cardinality(S) = 2^a
  BY <1>1, FS_SUBSET
<1>3. Cardinality(SUBSET (1 .. a + 1)) = 2^(a + 1)
  <2>1. IsFiniteSet(1 .. a + 1) /\ Cardinality(1 .. a + 1) = a + 1
    BY <1>1, FS_Interval
  <2> QED
    BY <2>1, FS_SUBSET
<1>4. SUBSET (1 .. a + 1) = S \cup T
  <2>1. ASSUME NEW s \in SUBSET (1 .. a + 1)
        PROVE  s \in S \cup T
    <3>1. CASE a + 1 \in s
      <4>1. s \ {a + 1} \in S
        BY <1>1
      <4>2. s = (s \ {a + 1}) \cup {a + 1}
        BY <3>1
      <4> QED
        BY <4>1, <4>2
    <3>2. CASE a + 1 \notin s
      BY <1>1, <3>2
    <3> QED
      BY <3>1, <3>2
  <2>2. ASSUME NEW s \in S
        PROVE  s \in SUBSET (1 .. a + 1) /\ s \cup {a + 1} \in SUBSET (1 .. a + 1)
    BY <1>1
  <2>3. S \cup T \subseteq SUBSET (1 .. a + 1)
    <3>1. \A t \in T : t \in SUBSET (1 .. a + 1)
      BY <2>2
    <3>2. \A s \in S : s \in SUBSET (1 .. a + 1)
      BY <2>2
    <3> HIDE DEF S, T
    <3> QED
      BY <3>1, <3>2
  <2> HIDE DEF S, T
  <2> QED
    BY <2>1, <2>3
<1>5. S \cap T = {}
  <2>1. \A s \in S : a + 1 \notin s
    BY <1>1
  <2>2. \A t \in T : a + 1 \in t
    OBVIOUS
  <2> QED
    BY <2>1, <2>2
<1>6. f \in Bijection(S, T)
  <2>1. f \in [S -> T] /\ \A t \in T : \E s \in S : f[s] = t
    OBVIOUS
  <2>2. ASSUME NEW r \in S, NEW s \in S, f[r] = f[s]
        PROVE  r = s
    <3>1. a + 1 \notin r /\ a + 1 \notin s
      BY <1>1
    <3>2. r \cup {a + 1} = s \cup {a + 1}
      BY <2>2
    <3> QED
      BY <3>1, <3>2
  <2> HIDE DEF f
  <2> QED
    BY <2>1, <2>2 DEF Bijection, Injection, Surjection, IsInjective
<1>7. IsFiniteSet(T) /\ Cardinality(T) = Cardinality(S)
  BY <1>2, <1>6, FS_Bijection DEF ExistsBijection
<1>8. Cardinality(S \cup T) = Cardinality(S) + Cardinality(T) - Cardinality(S \cap T)
  BY <1>2, <1>7, FS_Union
<1>9. Cardinality(S \cap T) = 0
  BY <1>5, FS_EmptySet
<1>10. 2^a \in Nat
  BY PowerType
<1>11. 2^(a + 1) = 2^a + 2^a
  <2> HIDE DEF S, T
  <2>1. Cardinality(S \cup T) = 2^(a + 1)
    BY <1>3, <1>4
  <2>2. Cardinality(S \cup T) = 2^a + 2^a - 0
    BY <1>2, <1>7, <1>8, <1>9
  <2> QED
    BY <1>10, <2>1, <2>2
<1> QED
  BY <1>10, <1>11

LEMMA PowerSum ==
  ASSUME NEW a \in Nat, NEW b \in Nat
  PROVE  2^(a + b) = 2^a * 2^b
<1> DEFINE bad == {k \in Nat : 2^(a + k) # 2^a * 2^k}
<1>1. bad = {}
  <2> SUFFICES ASSUME bad # {} PROVE FALSE
    OBVIOUS
  <2>1. bad \subseteq Nat /\ (\A k \in Nat : k \notin bad => 2^(a + k) = 2^a * 2^k)
        /\ (\A k \in bad : 2^(a + k) # 2^a * 2^k)
    OBVIOUS
  <2> HIDE DEF bad
  <2>2. PICK k \in bad : \A m \in bad : ~(<<m, k>> \in OpToRel(<, Nat))
    BY <2>1, NatLessThanWellFounded, WFMin
  <2>3. k \in Nat /\ \A m \in bad : ~(m < k)
    BY <2>1, <2>2 DEF OpToRel
  <2>4. 2^a \in Nat
    BY PowerType
  <2>5. CASE k = 0
    <3>1. 2^0 = 1 /\ a + k = a
      BY <2>5
    <3> QED
      <4>1. 2^(a + k) = 2^a /\ 2^k = 1
        BY <2>5, <3>1
      <4>2. 2^a * 1 = 2^a
        BY <2>4
      <4> QED
        BY <2>1, <4>1, <4>2
  <2>6. CASE k # 0
    <3>1. PICK j \in Nat : k = j + 1
      <4>1. k - 1 \in Nat /\ k = (k - 1) + 1
        BY <2>3, <2>6
      <4> QED
        BY <4>1
    <3>2. 2^(a + j) = 2^a * 2^j
      BY <2>1, <2>3, <3>1
    <3>3. 2^k = 2 * 2^j /\ 2^j \in Nat
      BY <3>1, PowerStep, PowerType
    <3>4. 2^(a + k) = 2 * 2^(a + j)
      <4>1. a + j \in Nat /\ a + k = (a + j) + 1
        BY <3>1
      <4> QED
        BY <4>1, PowerStep
    <3>5. ASSUME NEW x \in Nat, NEW y \in Nat
          PROVE  2 * (x * y) = x * (2 * y)
      OBVIOUS
    <3> QED
      BY <2>1, <2>4, <3>2, <3>3, <3>4, <3>5
  <2> QED
    BY <2>5, <2>6
<1> QED
  BY <1>1

LEMMA DivSplits ==
  ASSUME NEW n \in Nat, NEW m \in Nat \ {0}
  PROVE  n \div m \in Nat /\ n % m \in 0 .. m - 1 /\ n = m * (n \div m) + (n % m)
OBVIOUS

(* Quotient and remainder are the only ones.                               *)
LEMMA DivUnique ==
  ASSUME NEW m \in Nat \ {0}, NEW q \in Nat, NEW r \in Nat, NEW p \in Nat, NEW s \in Nat,
         r < m, s < m, m * q + r = m * p + s
  PROVE  q = p /\ r = s
<1>1. ASSUME NEW x \in Nat, NEW y \in Nat, x < y
      PROVE  m * x + m <= m * y
  <2>1. PICK d \in Nat : y = x + 1 + d
    <3>1. y - x - 1 \in Nat
      BY <1>1
    <3> QED
      BY <3>1
  <2>2. m * y = m * x + m + m * d /\ m * d \in Nat /\ m * x \in Nat
    BY <2>1
  <2> QED
    BY <2>2
<1>2. m * q \in Nat /\ m * p \in Nat
  OBVIOUS
<1>3. ~(q < p)
  BY <1>1, <1>2
<1>4. ~(p < q)
  BY <1>1, <1>2
<1>5. q = p
  BY <1>3, <1>4
<1> QED
  BY <1>2, <1>5

LEMMA DigitsUnique ==
  ASSUME NEW m \in Nat \ {0}, NEW q \in Nat, NEW r \in 0 .. m - 1,
         NEW p \in Nat, NEW s \in 0 .. m - 1
  PROVE  m * q + r = m * p + s <=> q = p /\ r = s
<1>1. r \in Nat /\ r < m /\ s \in Nat /\ s < m
  OBVIOUS
<1>2. ASSUME m * q + r = m * p + s
      PROVE  q = p /\ r = s
  BY <1>1, <1>2, DivUnique
<1> QED
  BY <1>2

LEMMA NestedDiv ==
  ASSUME NEW n \in Nat, NEW a \in Nat \ {0}, NEW b \in Nat \ {0}
  PROVE  (n \div a) \div b = n \div (a * b)
<1> DEFINE x == n \div a
           q == x \div b
           s == a * (x % b) + (n % a)
           c == a * b
<1>1. x \in Nat /\ n % a \in 0 .. a - 1 /\ n = a * x + (n % a)
  BY DivSplits
<1>2. q \in Nat /\ x % b \in 0 .. b - 1 /\ x = b * q + (x % b)
  BY <1>1, DivSplits
<1>3. c \in Nat \ {0}
  <2>1. ASSUME NEW u \in Nat, NEW v \in Nat
        PROVE  (u + 1) * (v + 1) = u * v + u + v + 1 /\ u * v \in Nat
    OBVIOUS
  <2>2. a - 1 \in Nat /\ b - 1 \in Nat /\ a = (a - 1) + 1 /\ b = (b - 1) + 1
    OBVIOUS
  <2> QED
    BY <2>1, <2>2
<1>4. PICK y \in Nat, z \in Nat : y = x % b /\ z = n % a /\ y < b /\ z < a
  BY <1>1, <1>2
<1>5. n = c * q + (a * y + z)
  <2>1. n = a * (b * q + y) + z
    BY <1>1, <1>2, <1>4
  <2> HIDE DEF q
  <2> QED
    BY <1>2, <2>1
<1>6. a * y + z \in Nat /\ a * y + z < c
  <2>1. PICK d \in Nat : b = y + 1 + d
    <3>1. b - y - 1 \in Nat
      BY <1>4
    <3> QED
      BY <3>1
  <2>2. c = a * y + a + a * d /\ a * d \in Nat /\ a * y \in Nat
    BY <2>1
  <2> HIDE DEF c
  <2> QED
    BY <1>4, <2>2
<1>7. n \div c \in Nat /\ n % c \in 0 .. c - 1 /\ n = c * (n \div c) + (n % c)
  BY <1>3, DivSplits
<1> HIDE DEF c, q, x
<1>8. q = n \div c
  <2>1. PICK p \in Nat, s1 \in Nat : p = n \div c /\ s1 = n % c /\ s1 < c
    BY <1>3, <1>7
  <2>2. c * q + (a * y + z) = c * p + s1
    BY <1>5, <1>7, <2>1
  <2> QED
    BY <1>2, <1>3, <1>6, <2>1, <2>2, DivUnique
<1> QED
  BY <1>8 DEF c, q, x

(* A sum of a multiple and something divides piecewise.                    *)
LEMMA DivPiecewise ==
  ASSUME NEW c \in Nat \ {0}, NEW g \in Nat, NEW r \in Nat
  PROVE  (c * g + r) \div c = g + (r \div c)
<1> DEFINE n == c * g + r
           k == r \div c
           p == n \div c
<1>1. k \in Nat /\ r % c \in 0 .. c - 1 /\ r = c * k + (r % c)
  BY DivSplits
<1>2. n \in Nat
  BY c * g \in Nat
<1>3. p \in Nat /\ n % c \in 0 .. c - 1 /\ n = c * p + (n % c)
  BY <1>2, DivSplits
<1>4. PICK y \in Nat, z \in Nat : y = r % c /\ z = n % c /\ y < c /\ z < c
  BY <1>1, <1>3
<1>5. c * (g + k) + y = c * p + z
  <2>1. c * (g + k) = c * g + c * k
    BY <1>1
  <2> HIDE DEF k, p
  <2> QED
    BY <1>1, <1>3, <1>4, <2>1
<1> HIDE DEF k, p, n
<1>6. g + k = p
  <2>1. PICK u \in Nat : u = g + k
    BY <1>1
  <2>2. c * u + y = c * p + z
    BY <1>5, <2>1
  <2>3. u = p
    BY <1>3, <1>4, <2>2, DivUnique
  <2> QED
    BY <2>1, <2>3
<1> QED
  BY <1>6 DEF k, p, n

-----------------------------------------------------------------------------
(* Prefixes: the octet-by-octet comparison of prefix_match is that of the  *)
(* leading bits.                                                           *)

Numbers == 0 .. 2^ADDRESS_BITS - 1

(***************************************************************************)
(* What the first j octets of an address say.                              *)
(***************************************************************************)
Leading(n, j) == n \div 2^(OCTET * (OCTETS - j))

LEMMA LeadingStep ==
  ASSUME NEW n \in Nat, NEW j \in Nat, j < OCTETS
  PROVE  /\ octets(n)[j + 1] \in 0 .. 2^OCTET - 1 /\ Leading(n, j) \in Nat
         /\ Leading(n, j + 1) = 2^OCTET * Leading(n, j) + octets(n)[j + 1]
<1> USE OnLinkAssumption
<1> DEFINE e == OCTET * (OCTETS - (j + 1))
           B == 2^OCTET
           x == n \div 2^e
<1>1. e \in Nat /\ e + OCTET = OCTET * (OCTETS - j)
  <2>1. PICK k \in Nat : k = OCTETS - (j + 1)
    OBVIOUS
  <2>2. OCTETS - j = k + 1
    BY <2>1
  <2>3. OCTET * k \in Nat /\ OCTET * (k + 1) = OCTET * k + OCTET
    OBVIOUS
  <2> QED
    BY <2>1, <2>2, <2>3
<1>2. B \in Nat \ {0} /\ 2^e \in Nat \ {0}
  BY <1>1, PowerType
<1>3. 2^(OCTET * (OCTETS - j)) = 2^e * B
  BY <1>1, PowerSum
<1>4. x \in Nat
  BY <1>2, DivSplits
<1>5. Leading(n, j) = x \div B
  <2>1. (n \div 2^e) \div B = n \div (2^e * B)
    BY <1>2, NestedDiv
  <2>2. Leading(n, j) = n \div (2^e * B)
    BY <1>3, Zenon DEF Leading
  <2> QED
    BY <2>1, <2>2, Zenon
<1>6. octets(n)[j + 1] = x % B
  BY DEF octets
<1>7. Leading(n, j + 1) = x
  BY DEF Leading
<1>8. x \div B \in Nat /\ x % B \in 0 .. B - 1 /\ x = B * (x \div B) + (x % B)
  BY <1>2, <1>4, DivSplits
<1> HIDE DEF x, B
<1> QED
  BY <1>5, <1>6, <1>7, <1>8 DEF B

LEMMA NothingLeads ==
  ASSUME NEW n \in Numbers
  PROVE  Leading(n, 0) = 0
<1> USE OnLinkAssumption
<1>1. OCTET * OCTETS \in Nat /\ OCTETS - 0 = OCTETS
  OBVIOUS
<1>2. PICK m \in Nat \ {0} : m = 2^(OCTET * OCTETS)
  BY <1>1, PowerType
<1>3. n \in Nat /\ n < m
  BY <1>2 DEF Numbers, ADDRESS_BITS
<1>4. n \div m \in Nat /\ n % m \in 0 .. m - 1 /\ n = m * (n \div m) + (n % m)
  BY <1>3, DivSplits
<1>5. PICK q \in Nat, r \in Nat : q = n \div m /\ r = n % m /\ r < m
  BY <1>4
<1>6. m * q + r = m * 0 + n
  BY <1>3, <1>4, <1>5
<1>7. q = 0
  BY <1>3, <1>5, <1>6, DivUnique
<1> QED
  BY <1>1, <1>2, <1>5, <1>7 DEF Leading

LEMMA LeadingAgree ==
  ASSUME NEW n \in Numbers, NEW m \in Numbers, NEW k \in 0 .. OCTETS
  PROVE  (\A i \in 1 .. k : octets(n)[i] = octets(m)[i]) <=> Leading(n, k) = Leading(m, k)
<1> USE OnLinkAssumption
<1> DEFINE Same(j) == \A i \in 1 .. j : octets(n)[i] = octets(m)[i]
           bad == {j \in 0 .. OCTETS : ~(Same(j) <=> Leading(n, j) = Leading(m, j))}
<1>1. n \in Nat /\ m \in Nat
  BY DEF Numbers
<1>2. bad = {}
  <2> SUFFICES ASSUME bad # {} PROVE FALSE
    OBVIOUS
  <2>1. /\ bad \subseteq Nat /\ bad \subseteq 0 .. OCTETS
        /\ \A j \in bad : ~(Same(j) <=> Leading(n, j) = Leading(m, j))
        /\ \A j \in 0 .. OCTETS : j \notin bad => (Same(j) <=> Leading(n, j) = Leading(m, j))
    OBVIOUS
  <2> HIDE DEF bad
  <2>2. PICK j \in bad : \A i \in bad : ~(<<i, j>> \in OpToRel(<, Nat))
    BY <2>1, NatLessThanWellFounded, WFMin
  <2>3. j \in Nat /\ j \in 0 .. OCTETS /\ \A i \in bad : ~(i < j)
    BY <2>1, <2>2 DEF OpToRel
  <2>4. CASE j = 0
    BY <2>1, <2>4, NothingLeads
  <2>5. CASE j # 0
    <3>1. PICK i \in Nat : j = i + 1
      <4>1. j - 1 \in Nat /\ j = (j - 1) + 1
        BY <2>3, <2>5
      <4> QED
        BY <4>1
    <3>2. i \in 0 .. OCTETS /\ i < OCTETS /\ i < j
      BY <2>3, <3>1
    <3>3. Same(i) <=> Leading(n, i) = Leading(m, i)
      <4> HIDE DEF Same
      <4> QED
        BY <2>1, <2>3, <3>2
    <3>4. Same(j) <=> Same(i) /\ octets(n)[j] = octets(m)[j]
      <4>1. 1 .. j = 1 .. i \cup {j}
        BY <3>1
      <4> QED
        BY <4>1
    <3>5. PICK B \in Nat \ {0} : B = 2^OCTET
      BY PowerType
    <3>6. PICK q \in Nat, r \in Nat : q = Leading(n, i) /\ r = octets(n)[j] /\ r < B
                                      /\ Leading(n, j) = B * q + r
      <4>1. /\ octets(n)[i + 1] \in 0 .. 2^OCTET - 1 /\ Leading(n, i) \in Nat
            /\ Leading(n, i + 1) = 2^OCTET * Leading(n, i) + octets(n)[i + 1]
        BY <1>1, <3>2, LeadingStep
      <4>2. PICK q \in Nat, r \in 0 .. B - 1 : q = Leading(n, i) /\ r = octets(n)[i + 1]
        BY <3>5, <4>1
      <4>3. r \in Nat /\ r < B
        BY <3>5
      <4> QED
        BY <3>1, <3>5, <4>1, <4>2, <4>3
    <3>7. PICK p \in Nat, s \in Nat : p = Leading(m, i) /\ s = octets(m)[j] /\ s < B
                                      /\ Leading(m, j) = B * p + s
      <4>1. /\ octets(m)[i + 1] \in 0 .. 2^OCTET - 1 /\ Leading(m, i) \in Nat
            /\ Leading(m, i + 1) = 2^OCTET * Leading(m, i) + octets(m)[i + 1]
        BY <1>1, <3>2, LeadingStep
      <4>2. PICK p \in Nat, s \in 0 .. B - 1 : p = Leading(m, i) /\ s = octets(m)[i + 1]
        BY <3>5, <4>1
      <4>3. s \in Nat /\ s < B
        BY <3>5
      <4> QED
        BY <3>1, <3>5, <4>1, <4>2, <4>3
    <3>8. B * q + r = B * p + s <=> q = p /\ r = s
      <4>1. r \in 0 .. B - 1 /\ s \in 0 .. B - 1
        BY <3>6, <3>7
      <4> QED
        BY <4>1, DigitsUnique
    <3>9. Same(j) <=> Leading(n, j) = Leading(m, j)
      <4> HIDE DEF Same
      <4> QED
        BY <3>3, <3>4, <3>6, <3>7, <3>8
    <3> QED
      BY <2>1, <2>2, <3>9
  <2> QED
    BY <2>4, <2>5
<1> QED
  BY <1>2

LEMMA QuotientBelow ==
  ASSUME NEW c \in Nat \ {0}, NEW w \in Nat, NEW r \in Nat, r < c * w
  PROVE  r \div c < w
<1>1. PICK q \in Nat, z \in Nat : q = r \div c /\ r = c * q + z
  BY DivSplits
<1>2. ASSUME q >= w
      PROVE  FALSE
  <2>1. PICK d \in Nat : q = w + d
    <3>1. q - w \in Nat
      BY <1>2
    <3> QED
      BY <3>1
  <2>2. c * q = c * w + c * d /\ c * d \in Nat /\ c * w \in Nat
    BY <2>1
  <2> QED
    BY <1>1, <2>2
<1> QED
  BY <1>1, <1>2

(* Comparing k octets is comparing the sequences cut there.                *)
LEMMA CutsAgree ==
  ASSUME NEW n \in Numbers, NEW m \in Numbers, NEW k \in 0 .. OCTETS
  PROVE  SubSeq(octets(n), 1, k) = SubSeq(octets(m), 1, k)
           <=> \A i \in 1 .. k : octets(n)[i] = octets(m)[i]
<1> USE OnLinkAssumption
<1> DEFINE S == {octets(n)[i] : i \in 1 .. OCTETS} \cup {octets(m)[i] : i \in 1 .. OCTETS}
<1>1. /\ octets(n) \in Seq(S) /\ Len(octets(n)) = OCTETS
      /\ octets(m) \in Seq(S) /\ Len(octets(m)) = OCTETS
  <2>1. /\ octets(n) = [i \in 1 .. OCTETS |-> octets(n)[i]]
        /\ octets(m) = [i \in 1 .. OCTETS |-> octets(m)[i]]
    BY DEF octets
  <2>2. octets(n) \in [1 .. OCTETS -> S] /\ octets(m) \in [1 .. OCTETS -> S]
    BY <2>1
  <2> HIDE DEF S
  <2> QED
    BY <2>2
<1> DEFINE p == SubSeq(octets(n), 1, k)
           q == SubSeq(octets(m), 1, k)
<1> HIDE DEF S
<1>2. 1 \in 1 .. OCTETS + 1 /\ k \in 1 - 1 .. OCTETS /\ k - 1 + 1 = k
  OBVIOUS
<1>3. /\ p \in Seq(S) /\ Len(p) = k
      /\ \A i \in 1 .. k : p[i] = octets(n)[i]
  <2>1. /\ p \in Seq(S) /\ Len(p) = k - 1 + 1
        /\ \A i \in 1 .. k - 1 + 1 : p[i] = octets(n)[1 + i - 1]
    BY <1>1, <1>2, SubSeqProperties
  <2> HIDE DEF p
  <2> QED
    BY <1>2, <2>1
<1>4. /\ q \in Seq(S) /\ Len(q) = k
      /\ \A i \in 1 .. k : q[i] = octets(m)[i]
  <2>1. /\ q \in Seq(S) /\ Len(q) = k - 1 + 1
        /\ \A i \in 1 .. k - 1 + 1 : q[i] = octets(m)[1 + i - 1]
    BY <1>1, <1>2, SubSeqProperties
  <2> HIDE DEF q
  <2> QED
    BY <1>2, <2>1
<1>5. p = q <=> \A i \in 1 .. k : p[i] = q[i]
  <2> HIDE DEF p, q
  <2>1. (\A i \in 1 .. k : p[i] = q[i]) => p = q
    BY <1>3, <1>4, SeqEqual
  <2> QED
    BY <2>1
<1> QED
  <2> HIDE DEF p, q
  <2>1. p = q <=> \A i \in 1 .. k : octets(n)[i] = octets(m)[i]
    BY <1>3, <1>4, <1>5
  <2> QED
    BY <2>1 DEF p, q

(***************************************************************************)
(* prefix_match, which compares whole octets and then a masked one, says   *)
(* that the leading bits agree, for every prefix length.                   *)
(***************************************************************************)
THEOREM OctetsCompareBits ==
  ASSUME NEW n \in Numbers, NEW m \in Numbers, NEW p \in 0 .. ADDRESS_BITS
  PROVE  prefix_match(octets(n), octets(m), p)
           <=> n \div 2^(ADDRESS_BITS - p) = m \div 2^(ADDRESS_BITS - p)
<1> USE OnLinkAssumption
<1> DEFINE full == p \div OCTET
           rem  == p % OCTET
           Cut == SubSeq(octets(n), 1, full) = SubSeq(octets(m), 1, full)
           Next1 == octets(n)[full + 1] \div 2^(OCTET - rem)
                      = octets(m)[full + 1] \div 2^(OCTET - rem)
<1>1. p \in Nat /\ ADDRESS_BITS = OCTET * OCTETS /\ ADDRESS_BITS \in Nat /\ p <= ADDRESS_BITS
  BY DEF ADDRESS_BITS
<1>2. n \in Nat /\ m \in Nat
  BY DEF Numbers
<1>3. full \in Nat /\ rem \in 0 .. OCTET - 1 /\ p = OCTET * full + rem
  BY <1>1, DivSplits
<1>4. prefix_match(octets(n), octets(m), p) <=> Cut /\ (rem # 0 => Next1)
  BY <1>1 DEF prefix_match
<1> HIDE DEF full, rem, Cut, Next1
<1>5. PICK f \in Nat, r \in Nat : f = full /\ r = rem /\ r < OCTET /\ p = OCTET * f + r
  BY <1>3
<1>6. f <= OCTETS /\ (r # 0 => f < OCTETS)
  <2>1. ASSUME NEW d \in Nat, f = OCTETS + d
        PROVE  p = ADDRESS_BITS + OCTET * d + r /\ OCTET * d \in Nat
    <3>1. OCTET * f = OCTET * OCTETS + OCTET * d /\ OCTET * d \in Nat
      BY <2>1
    <3> QED
      BY <1>1, <1>5, <3>1
  <2>2. ASSUME NEW d \in Nat, d # 0
        PROVE  OCTET * d # 0
    <3>1. ASSUME NEW x \in Nat, NEW y \in Nat
          PROVE  (x + 1) * (y + 1) = x * y + x + y + 1 /\ x * y \in Nat
      OBVIOUS
    <3>2. OCTET - 1 \in Nat /\ d - 1 \in Nat /\ OCTET = (OCTET - 1) + 1 /\ d = (d - 1) + 1
      BY <2>2
    <3> QED
      BY <3>1, <3>2
  <2>3. CASE f >= OCTETS
    <3>1. PICK d \in Nat : f = OCTETS + d
      <4>1. f - OCTETS \in Nat /\ f = OCTETS + (f - OCTETS)
        BY <2>3
      <4> QED
        BY <4>1
    <3>2. OCTET * d + r = 0 /\ OCTET * d \in Nat
      BY <1>1, <2>1, <3>1
    <3>3. OCTET * d = 0 /\ r = 0
      BY <3>2
    <3>4. d = 0
      BY <2>2, <3>3
    <3> QED
      BY <3>1, <3>3, <3>4
  <2>4. CASE f < OCTETS
    BY <2>4
  <2> QED
    BY <2>3, <2>4
<1>7. Cut <=> Leading(n, f) = Leading(m, f)
  <2>1. f \in 0 .. OCTETS
    BY <1>6
  <2> QED
    BY <1>5, <2>1, CutsAgree, LeadingAgree DEF Cut
<1>8. CASE r = 0
  <2>1. ADDRESS_BITS - p = OCTET * (OCTETS - f)
    <3>1. OCTET * (OCTETS - f) = OCTET * OCTETS - OCTET * f
      BY <1>6
    <3> QED
      BY <1>1, <1>5, <1>8, <3>1
  <2> QED
    BY <1>4, <1>5, <1>7, <1>8, <2>1 DEF Leading
<1>9. CASE r # 0
  <2>1. PICK v \in Nat : v = OCTET - r /\ v + r = OCTET
    BY <1>5
  <2>2. PICK e \in Nat : e = OCTET * (OCTETS - (f + 1)) /\ ADDRESS_BITS - p = e + v
    <3>1. PICK k \in Nat : k = OCTETS - (f + 1) /\ OCTETS = f + 1 + k
      <4>1. OCTETS - (f + 1) \in Nat
        BY <1>6, <1>9
      <4> QED
        BY <4>1
    <3>2. OCTET * k \in Nat /\ OCTET * OCTETS = OCTET * f + OCTET + OCTET * k
      BY <3>1
    <3> QED
      BY <1>1, <1>5, <2>1, <3>1, <3>2
  <2>3. PICK c \in Nat \ {0}, w \in Nat \ {0}, E \in Nat \ {0} :
          /\ c = 2^v /\ w = 2^r /\ E = 2^e
          /\ 2^OCTET = c * w /\ 2^(ADDRESS_BITS - p) = E * c
    <3>1. 2^v \in Nat \ {0} /\ 2^r \in Nat \ {0} /\ 2^e \in Nat \ {0}
      BY PowerType
    <3>2. 2^(v + r) = 2^v * 2^r /\ 2^(e + v) = 2^e * 2^v
      BY PowerSum
    <3> QED
      BY <2>1, <2>2, <3>1, <3>2
  <2>4. f + 1 \in Nat /\ f < OCTETS
    BY <1>6, <1>9
  <2>5. ASSUME NEW x \in Numbers
        PROVE  \E h \in Nat, o \in Nat :
                 /\ h = Leading(x, f) /\ o = octets(x)[f + 1] \div c /\ o < w
                 /\ x \div 2^(ADDRESS_BITS - p) = w * h + o
    <3>1. x \in Nat
      BY DEF Numbers
    <3>2. PICK h \in Nat, b \in Nat : h = Leading(x, f) /\ b = octets(x)[f + 1] /\ b < c * w
                                      /\ Leading(x, f + 1) = (c * w) * h + b
      <4>1. PICK B \in Nat \ {0} : B = 2^OCTET /\ B = c * w
        BY <2>3, PowerType
      <4>2. octets(x)[f + 1] \in 0 .. B - 1 /\ Leading(x, f) \in Nat
            /\ Leading(x, f + 1) = B * Leading(x, f) + octets(x)[f + 1]
        BY <2>4, <3>1, <4>1, LeadingStep
      <4>3. PICK h \in Nat, b \in Nat : h = Leading(x, f) /\ b = octets(x)[f + 1] /\ b < B
        BY <4>1, <4>2
      <4> QED
        BY <4>1, <4>2, <4>3
    <3>3. x \div 2^(ADDRESS_BITS - p) = Leading(x, f + 1) \div c
      <4>1. (x \div E) \div c = x \div (E * c)
        BY <3>1, NestedDiv
      <4>2. Leading(x, f + 1) = x \div E
        BY <2>2, <2>3 DEF Leading
      <4> QED
        BY <2>3, <4>1, <4>2
    <3>4. PICK g \in Nat : g = w * h
      BY w * h \in Nat
    <3>5. (c * w) * h = c * g
      BY <3>4
    <3>6. (c * g + b) \div c = g + (b \div c)
      BY DivPiecewise
    <3>7. PICK o \in Nat : o = b \div c /\ o < w
      <4>1. b < c * w
        BY <3>2
      <4>2. b \div c \in Nat
        BY DivSplits
      <4>3. b \div c < w
        BY <4>1, QuotientBelow
      <4> QED
        BY <4>2, <4>3
    <3> QED
      BY <3>2, <3>3, <3>4, <3>5, <3>6, <3>7
  <2>6. PICK h \in Nat, o \in Nat :
          /\ h = Leading(n, f) /\ o = octets(n)[f + 1] \div c /\ o < w
          /\ n \div 2^(ADDRESS_BITS - p) = w * h + o
    BY <2>5
  <2>7. PICK g \in Nat, u \in Nat :
          /\ g = Leading(m, f) /\ u = octets(m)[f + 1] \div c /\ u < w
          /\ m \div 2^(ADDRESS_BITS - p) = w * g + u
    BY <2>5
  <2>8. w * h + o = w * g + u <=> h = g /\ o = u
    <3>1. o \in 0 .. w - 1 /\ u \in 0 .. w - 1
      BY <2>6, <2>7
    <3> QED
      BY <3>1, DigitsUnique
  <2>9. Next1 <=> o = u
    BY <1>5, <2>1, <2>3, <2>6, <2>7 DEF Next1
  <2> QED
    BY <1>4, <1>5, <1>7, <1>9, <2>6, <2>7, <2>8, <2>9
<1> QED
  BY <1>8, <1>9

LEMMA SubnetIsPrefix ==
  ASSUME NEW e \in Addresses \X (0 .. ADDRESS_BITS), NEW a \in Addresses
  PROVE  addr_in_subnet(e[1], e[2], a) <=> InPrefix(e, a)
<1>1. e[1] \in Addresses /\ e[2] \in 0 .. ADDRESS_BITS
  OBVIOUS
<1>2. e[1].n \in Numbers /\ a.n \in Numbers
  BY <1>1 DEF Addresses, Numbers
<1> QED
  BY <1>1, <1>2, OctetsCompareBits DEF addr_in_subnet, InPrefix

-----------------------------------------------------------------------------
(* The verdict.                                                            *)

Weighed(d, iface, lo, held) ==
  admits_ingress(d.src, Destination(d), d.delivery, BoundLink(iface, lo, held), Iface(d))

Provenance(d, iface, lo, held) ==
  arrived_on_bound_interface(d.src, BoundLink(iface, lo, held), Iface(d))

OnLocalLink(d, iface, lo, held) ==
  src_on_local_link(d.src, BoundLink(iface, lo, held), Iface(d), Provenance(d, iface, lo, held))

(***************************************************************************)
(* A datagram's evidence is true where there is any.                       *)
(***************************************************************************)
Truthful(d) ==
  /\ d.src.addr \in Addresses /\ d.dst \in Addresses /\ d.link \in Interfaces
  /\ d.src.scope = 0 \/ (LinkLocal(d.src.addr) /\ d.src.scope = d.link)
  /\ d.evidence \in Evidence
  /\ d.delivery = None \/ d.delivery = TrueDelivery(d.dst)

LEMMA DatagramsAreTruthful ==
  ASSUME NEW d \in Datagrams
  PROVE  Truthful(d)
<1>1. PICK p \in Sources \X Destinations, link \in Interfaces, evidence \in Evidence,
           scoped \in BOOLEAN, delivered \in BOOLEAN :
             d = Datagram(p[1], p[2], link, evidence, scoped, delivered)
  BY DEF Datagrams
<1>2. p[1] \in Addresses /\ p[2] \in Addresses
  BY OnLinkAssumption
<1>3. /\ d.src.addr = p[1] /\ d.dst = p[2] /\ d.link = link /\ d.evidence = evidence
      /\ d.src.scope = IF scoped /\ LinkLocal(p[1]) THEN link ELSE 0
      /\ d.delivery = IF delivered THEN TrueDelivery(p[2]) ELSE None
  BY <1>1 DEF Datagram
<1> QED
  BY <1>2, <1>3 DEF Truthful

(* What the witnesses of a datagram's link come to.                        *)
LEMMA LinkEvidence ==
  ASSUME NEW d, Truthful(d)
  PROVE  LET w == ({scope_of(d.src)} \ {0})
                    \cup (IF Iface(d).kind = "Witnessed" THEN {Iface(d).value} ELSE {})
         IN /\ LinkTold(d) => w = {d.link}
            /\ ~LinkTold(d) => w = {}
            /\ Iface(d) = Lost => d.evidence \in {"truncated", "truncated_dst"}
<1>1. d.link \in {1, 2} /\ (d.src.scope = 0 \/ d.src.scope = d.link)
  BY DEF Truthful, Interfaces
<1>2. {scope_of(d.src)} \ {0} = IF d.src.scope # 0 THEN {d.link} ELSE {}
  <2>1. d.src.scope # 0 => d.src.addr.fam = "v6"
    BY DEF Truthful, LinkLocal, addr_in_subnet, LINK_LOCAL_V6_NET, Addr
  <2> QED
    BY <1>1, <2>1 DEF scope_of
<1>3. d.evidence \in {"both", "iface"} => Iface(d) = Witnessed(d.link)
  BY <1>1 DEF Iface, IfaceWitness
<1>4. d.evidence \notin {"both", "iface"} =>
        /\ Iface(d) \in {Lost, Declined, Blind}
        /\ Iface(d) = Lost => d.evidence \in {"truncated", "truncated_dst"}
  BY DEF Iface, IfaceWitness, Lost, Declined, Blind
<1>5. /\ Witnessed(d.link).kind = "Witnessed" /\ Witnessed(d.link).value = d.link
      /\ Lost.kind # "Witnessed" /\ Declined.kind # "Witnessed" /\ Blind.kind # "Witnessed"
  BY DEF Witnessed, Lost, Declined, Blind
<1>6. Witnessed(d.link) # Lost
  BY <1>5
<1> QED
  BY <1>1, <1>2, <1>3, <1>4, <1>5, <1>6 DEF LinkTold

LEMMA ProvenanceSays ==
  ASSUME NEW d, Truthful(d), NEW iface \in {0, 1}, NEW lo \in BOOLEAN, NEW held,
         iface = 0 => ~lo
  PROVE  LET P == Provenance(d, iface, lo, held)
         IN /\ P \in LinkProvenance /\ iface # 0 /\ LinkTold(d) => d.link = iface
            /\ P = "Established" => \/ d.link = iface /\ LinkTold(d)
                                    \/ lo /\ is_loopback(d.src.addr)
            /\ d.link = iface /\ d.evidence \notin {"truncated", "truncated_dst"} =>
                 /\ P \in {"Established", "Unproven"}
                 /\ LinkTold(d) => P = "Established"
<1> DEFINE L == BoundLink(iface, lo, held)
           w == ({scope_of(d.src)} \ {0})
                  \cup (IF Iface(d).kind = "Witnessed" THEN {Iface(d).value} ELSE {})
           P == Provenance(d, iface, lo, held)
<1>1. L.iface = iface /\ L.is_loopback = lo
  BY DEF BoundLink
<1>2. d.link \in {1, 2}
  BY DEF Truthful, Interfaces
<1>3. /\ LinkTold(d) => w = {d.link}
      /\ ~LinkTold(d) => w = {}
      /\ Iface(d) = Lost => d.evidence \in {"truncated", "truncated_dst"}
  BY LinkEvidence
<1>4. P = CASE iface = 0 -> "Unbound"
            [] iface # 0 /\ \E x \in w : x # iface -> "ForeignLink"
            [] iface # 0 /\ w = {iface} -> "Established"
            [] iface # 0 /\ w = {} ->
                 IF lo /\ is_loopback(d.src.addr) THEN "Established"
                 ELSE IF Iface(d) = Lost THEN "LinkWitnessLost" ELSE "Unproven"
  BY <1>1 DEF Provenance, arrived_on_bound_interface
<1> HIDE DEF w, P
<1>5. CASE iface = 0
  <2>1. P = "Unbound"
    BY <1>4, <1>5
  <2> QED
    BY <1>2, <1>5, <2>1 DEF P
<1>6. CASE iface # 0 /\ LinkTold(d) /\ d.link # iface
  <2>1. P = "ForeignLink"
    BY <1>3, <1>4, <1>6
  <2> QED
    BY <1>6, <2>1 DEF P, LinkProvenance
<1>7. CASE iface # 0 /\ LinkTold(d) /\ d.link = iface
  <2>1. P = "Established"
    BY <1>3, <1>4, <1>7
  <2> QED
    BY <1>7, <2>1 DEF P
<1>8. CASE iface # 0 /\ ~LinkTold(d)
  <2>1. P = IF lo /\ is_loopback(d.src.addr) THEN "Established"
            ELSE IF Iface(d) = Lost THEN "LinkWitnessLost" ELSE "Unproven"
    BY <1>3, <1>4, <1>8
  <2> QED
    BY <1>3, <1>8, <2>1 DEF P, LinkProvenance
<1> QED
  BY <1>5, <1>6, <1>7, <1>8

(* The source arm admits exactly the neighbours.                           *)
LEMMA SourceArm ==
  ASSUME NEW d, Truthful(d), NEW iface \in {0, 1}, NEW lo \in BOOLEAN, NEW held,
         iface = 0 => ~lo, held \subseteq Addresses \X (0 .. ADDRESS_BITS)
  PROVE  OnLocalLink(d, iface, lo, held) <=>
           IF is_loopback(d.src.addr)
           THEN lo /\ Provenance(d, iface, lo, held) \in LinkProvenance
           ELSE \/ Provenance(d, iface, lo, held) = "Established" /\ LinkLocal(d.src.addr)
                \/ \E e \in held : InPrefix(e, d.src.addr)
<1> DEFINE L == BoundLink(iface, lo, held)
           P == Provenance(d, iface, lo, held)
<1>1. L.is_loopback = lo /\ L.local_addrs = held
  BY DEF BoundLink
<1>2. d.src.addr \in Addresses
  BY DEF Truthful
<1>3. (\E e \in held : addr_in_subnet(e[1], e[2], d.src.addr))
        <=> \E e \in held : InPrefix(e, d.src.addr)
  BY <1>2, SubnetIsPrefix
<1>4. OnLocalLink(d, iface, lo, held) <=>
        IF is_loopback(d.src.addr)
        THEN L.is_loopback /\ P \in LinkProvenance
        ELSE \/ P = "Established" /\ LinkLocal(d.src.addr)
             \/ \E e \in L.local_addrs : addr_in_subnet(e[1], e[2], d.src.addr)
  BY DEF OnLocalLink, Provenance, src_on_local_link, LinkLocal
<1> HIDE DEF L, P
<1>5. CASE is_loopback(d.src.addr)
  BY <1>1, <1>4, <1>5 DEF P
<1>6. CASE ~is_loopback(d.src.addr)
  BY <1>1, <1>3, <1>4, <1>6 DEF P
<1> QED
  BY <1>5, <1>6

(* When a datagram is read.                                                *)
LEMMA AdmitsWhen ==
  ASSUME NEW d, Truthful(d), NEW iface, NEW lo, NEW held
  PROVE  Weighed(d, iface, lo, held).admit <=>
           /\ Provenance(d, iface, lo, held) \in LinkProvenance
           /\ IF DstTold(d)
              THEN IF is_mdns_group(d.dst)
                   THEN \/ Provenance(d, iface, lo, held) # "Unproven"
                        \/ /\ d.delivery # "Broadcast"
                           /\ d.delivery = "Multicast" \/ OnLocalLink(d, iface, lo, held)
                   ELSE /\ OnLocalLink(d, iface, lo, held)
                        /\ \/ is_bound_address(d.dst, BoundLink(iface, lo, held))
                           \/ /\ held = {}
                              /\ classify_unheld(d.dst, BoundLink(iface, lo, held)) = "DestinationNotHeld"
              ELSE /\ d.evidence # "truncated" /\ d.delivery # "Broadcast"
                   /\ d.delivery = "Multicast" \/ OnLocalLink(d, iface, lo, held)
<1> DEFINE L == BoundLink(iface, lo, held)
           P == Provenance(d, iface, lo, held)
           near == OnLocalLink(d, iface, lo, held)
           D == Destination(d)
           V == Weighed(d, iface, lo, held)
           Arm(a, r) == source_arm(d.src, L, Iface(d), P, a, r)
           W == WitnessedDestination(d.src, d.dst, d.delivery, L, Iface(d), P)
           U == UnwitnessedDestination(d.src, d.delivery, L, Iface(d), P)
           G == unscoped_group_arm(d.src, d.delivery, L, Iface(d), P)
<1>1. \A x : Admit(x).admit = TRUE /\ Refuse(x).admit = FALSE
  BY DEF Admit, Refuse
<1>2. L.local_addrs = held
  BY DEF BoundLink
<1>3. \A a, r : Arm(a, r) = IF near THEN Admit(a) ELSE Refuse(r)
  BY DEF source_arm, OnLocalLink, Provenance
<1>4. DstTold(d) => D.kind = "Witnessed" /\ D.value = d.dst
  <2>1. d.dst # None
    BY OnLinkAssumption DEF Truthful
  <2>2. DstTold(d) => D = Witnessed(d.dst)
    BY <2>1 DEF DstTold, Destination, DestinationWitness
  <2> QED
    BY <2>2 DEF Witnessed
<1>5. ~DstTold(d) => D.kind = IF d.evidence = "truncated" THEN "Lost"
                              ELSE IF d.evidence = "blind" THEN "Blind" ELSE "Declined"
  BY DEF DstTold, Destination, DestinationWitness, Lost, Blind, Declined
<1>6. V = IF P \notin LinkProvenance THEN Refuse(P)
          ELSE CASE D.kind = "Witnessed" ->
                      WitnessedDestination(d.src, D.value, d.delivery, L, Iface(d), P)
                 [] D.kind = "Lost" -> Refuse("DestinationWitnessLost")
                 [] D.kind \in {"Declined", "Blind"} -> U
  BY DEF Weighed, admits_ingress, Provenance
<1>7. G.admit <=> d.delivery # "Broadcast" /\ (d.delivery = "Multicast" \/ near)
  <2>1. G = CASE d.delivery = "Broadcast" -> Refuse("BroadcastDelivery")
              [] d.delivery = "Multicast" -> Admit("UnscopedMdnsGroup")
              [] OTHER -> Arm("UnscopedMdnsGroup", "UnscopedGroupSourceOffLink")
    BY DEF unscoped_group_arm
  <2> HIDE DEF G, Arm, near
  <2> QED
    BY <1>1, <1>3, <2>1
<1>8. U.admit <=> d.delivery # "Broadcast" /\ (d.delivery = "Multicast" \/ near)
  <2>1. U = CASE d.delivery = "Broadcast" -> Refuse("BroadcastDelivery")
              [] d.delivery = "Multicast" -> Admit("BlindMulticastDelivery")
              [] OTHER -> Arm("BlindSourceOnLink", "SourceOffLink")
    BY DEF UnwitnessedDestination
  <2> HIDE DEF U, Arm, near
  <2> QED
    BY <1>1, <1>3, <2>1
<1>9. W.admit <=> IF is_mdns_group(d.dst) THEN P # "Unproven" \/ G.admit
                  ELSE /\ near
                       /\ \/ is_bound_address(d.dst, L)
                          \/ held = {} /\ classify_unheld(d.dst, L) = "DestinationNotHeld"
  <2>1. W = IF is_mdns_group(d.dst)
            THEN IF P = "Unproven" THEN G ELSE Admit("MdnsGroup")
            ELSE IF is_bound_address(d.dst, L) THEN Arm("HeldDestination", "SourceOffLink")
            ELSE IF L.local_addrs = {} /\ classify_unheld(d.dst, L) = "DestinationNotHeld"
            THEN Arm("UnenumeratedDestination", "SourceOffLink")
            ELSE Refuse(classify_unheld(d.dst, L))
    BY DEF WitnessedDestination
  <2> HIDE DEF W, G, Arm, near, P, L
  <2> QED
    BY <1>1, <1>2, <1>3, <2>1
<1> HIDE DEF V, W, U, G, D, P, near, L, Arm
<1>10. CASE P \notin LinkProvenance
  BY <1>1, <1>6, <1>10 DEF V, P
<1>11. CASE P \in LinkProvenance /\ DstTold(d)
  <2>1. V = W
    BY <1>4, <1>6, <1>11 DEF W
  <2> QED
    BY <1>7, <1>9, <1>11, <2>1 DEF V, P, near, L
<1>12. CASE P \in LinkProvenance /\ ~DstTold(d)
  <2>1. CASE d.evidence = "truncated"
    <3>1. D.kind = "Lost"
      BY <1>5, <1>12, <2>1
    <3>2. V = Refuse("DestinationWitnessLost")
      BY <1>6, <1>12, <3>1
    <3> QED
      BY <1>1, <1>12, <2>1, <3>2 DEF V
  <2>2. CASE d.evidence # "truncated"
    <3>1. D.kind = "Blind" \/ D.kind = "Declined"
      BY <1>5, <1>12, <2>2
    <3>2. V = U
      BY <1>6, <1>12, <3>1
    <3> QED
      BY <1>8, <1>12, <2>2, <3>2 DEF V, P, near
  <2> QED
    BY <2>1, <2>2
<1> QED
  BY <1>10, <1>11, <1>12

(* A destination that is nobody's group, broadcast or loopback is unicast. *)
LEMMA Unheld ==
  ASSUME NEW dst, NEW iface, NEW lo \in BOOLEAN, NEW held,
         classify_unheld(dst, BoundLink(iface, lo, held)) = "DestinationNotHeld"
  PROVE  /\ TrueDelivery(dst) = "Unicast"
         /\ is_loopback(dst) => lo
<1> DEFINE L == BoundLink(iface, lo, held)
           K == classify_unheld(dst, L)
<1>1. L.is_loopback = lo
  BY DEF BoundLink
<1>2. K = CASE is_loopback(dst) /\ ~L.is_loopback -> "LoopbackDestinationOffLoopbackBinding"
            [] is_unspecified(dst) -> "UnspecifiedDestination"
            [] is_broadcast(dst) -> "BroadcastAddressed"
            [] is_mapped(dst) -> "Ipv4MappedDestination"
            [] is_multicast(dst) -> "ForeignGroup"
            [] OTHER -> "DestinationNotHeld"
  BY DEF classify_unheld
<1>3. K = "DestinationNotHeld"
  OBVIOUS
<1> HIDE DEF K, L
<1>4. ~(is_loopback(dst) /\ ~L.is_loopback) /\ ~is_broadcast(dst) /\ ~is_multicast(dst)
  <2>1. ASSUME NEW a \in BOOLEAN, NEW b \in BOOLEAN, NEW c \in BOOLEAN, NEW e \in BOOLEAN,
               NEW f \in BOOLEAN,
               (CASE a -> "LoopbackDestinationOffLoopbackBinding"
                  [] b -> "UnspecifiedDestination"
                  [] c -> "BroadcastAddressed"
                  [] e -> "Ipv4MappedDestination"
                  [] f -> "ForeignGroup"
                  [] OTHER -> "DestinationNotHeld") = "DestinationNotHeld"
        PROVE  ~a /\ ~c /\ ~f
    BY <2>1
  <2> QED
    BY <1>2, <1>3, <2>1 DEF is_unspecified, is_loopback, is_broadcast, is_mapped, is_multicast
<1> QED
  BY <1>1, <1>4 DEF TrueDelivery

(* Nothing off-link is admitted.                                           *)
LEMMA AdmittedIsOnLink ==
  ASSUME NEW d, Truthful(d), NEW iface \in {0, 1}, NEW lo \in BOOLEAN, NEW held \in Confs \cup {{}},
         iface = 0 => ~lo, Weighed(d, iface, lo, held).admit
  PROVE  /\ iface # 0 /\ LinkTold(d) => d.link = iface
         /\ DstTold(d) => \/ is_mdns_group(d.dst)
                          \/ lo /\ is_loopback(d.dst)
                          \/ /\ ~is_loopback(d.dst) /\ TrueDelivery(d.dst) = "Unicast"
                             /\ held = {} \/ \E e \in held : e[1] = d.dst
         /\ TrueDelivery(d.dst) # "Multicast" =>
              \/ lo /\ is_loopback(d.src.addr)
              \/ ~is_loopback(d.src.addr) /\ \E e \in held : InPrefix(e, d.src.addr)
              \/ LinkLocal(d.src.addr) /\ d.link = iface /\ LinkTold(d)
<1> DEFINE L == BoundLink(iface, lo, held)
           P == Provenance(d, iface, lo, held)
           near == OnLocalLink(d, iface, lo, held)
<1>1. held \subseteq Addresses \X (0 .. ADDRESS_BITS)
  BY OnLinkAssumption
<1>2. /\ P \in LinkProvenance /\ iface # 0 /\ LinkTold(d) => d.link = iface
      /\ P = "Established" => \/ d.link = iface /\ LinkTold(d)
                              \/ lo /\ is_loopback(d.src.addr)
  BY ProvenanceSays
<1>3. near <=> IF is_loopback(d.src.addr) THEN lo /\ P \in LinkProvenance
               ELSE \/ P = "Established" /\ LinkLocal(d.src.addr)
                    \/ \E e \in held : InPrefix(e, d.src.addr)
  BY <1>1, SourceArm
<1>4. /\ P \in LinkProvenance
      /\ IF DstTold(d)
         THEN IF is_mdns_group(d.dst)
              THEN \/ P # "Unproven"
                   \/ d.delivery # "Broadcast" /\ (d.delivery = "Multicast" \/ near)
              ELSE /\ near
                   /\ \/ is_bound_address(d.dst, L)
                      \/ held = {} /\ classify_unheld(d.dst, L) = "DestinationNotHeld"
         ELSE /\ d.evidence # "truncated" /\ d.delivery # "Broadcast"
              /\ d.delivery = "Multicast" \/ near
  BY AdmitsWhen
<1>5. is_mdns_group(d.dst) => TrueDelivery(d.dst) = "Multicast"
  <2>1. TopAddress \in Int
    <3>1. ADDRESS_BITS \in Nat
      BY OnLinkAssumption DEF ADDRESS_BITS
    <3> QED
      BY <3>1, PowerType DEF TopAddress
  <2>2. is_mdns_group(d.dst) => d.dst.n = TopAddress - 2
    BY DEF is_mdns_group, MDNS_GROUP
  <2> QED
    BY <2>1, <2>2 DEF TrueDelivery, is_multicast, is_broadcast
<1>6. d.delivery = "Multicast" => TrueDelivery(d.dst) = "Multicast"
  BY OnLinkAssumption DEF Truthful
<1>7. is_bound_address(d.dst, L) => \/ lo /\ is_loopback(d.dst)
                                    \/ /\ ~is_loopback(d.dst) /\ TrueDelivery(d.dst) = "Unicast"
                                       /\ \E e \in held : e[1] = d.dst
  <2>1. L.local_addrs = held /\ L.is_loopback = lo
    BY DEF BoundLink
  <2>2. \A e \in held : ~is_multicast(e[1]) /\ ~is_broadcast(e[1])
    BY HeldAddressesAreUnicast
  <2> HIDE DEF L
  <2> QED
    BY <2>1, <2>2 DEF is_bound_address, TrueDelivery
<1>8. classify_unheld(d.dst, L) = "DestinationNotHeld" =>
        TrueDelivery(d.dst) = "Unicast" /\ (is_loopback(d.dst) => lo)
  BY Unheld
<1> HIDE DEF L, P, near
<1>9. DstTold(d) => \/ is_mdns_group(d.dst)
                    \/ lo /\ is_loopback(d.dst)
                    \/ /\ ~is_loopback(d.dst) /\ TrueDelivery(d.dst) = "Unicast"
                       /\ held = {} \/ \E e \in held : e[1] = d.dst
  BY <1>4, <1>7, <1>8
<1>10. TrueDelivery(d.dst) # "Multicast" => near
  BY <1>4, <1>5, <1>6
<1>11. near => \/ lo /\ is_loopback(d.src.addr)
               \/ ~is_loopback(d.src.addr) /\ \E e \in held : InPrefix(e, d.src.addr)
               \/ LinkLocal(d.src.addr) /\ d.link = iface /\ LinkTold(d)
  BY <1>2, <1>3
<1> QED
  BY <1>2, <1>4, <1>9, <1>10, <1>11

(* Nothing on-link is refused.                                             *)
LEMMA OnLinkIsAdmitted ==
  ASSUME NEW d, Truthful(d), NEW iface \in {0, 1}, NEW lo \in BOOLEAN, NEW held \in Confs \cup {{}},
         iface = 0 => ~lo, ~Weighed(d, iface, lo, held).admit,
         d.link = iface, d.evidence \notin {"truncated", "truncated_dst"}
  PROVE  LET there == \/ \E e \in held : InPrefix(e, d.src.addr)
                      \/ LinkLocal(d.src.addr) /\ LinkTold(d)
         IN /\ is_mdns_group(d.dst) => /\ ~(LinkTold(d) /\ DstTold(d)) /\ d.delivery = None
                                       /\ is_loopback(d.src.addr) \/ ~there
            /\ TrueDelivery(d.dst) = "Unicast" /\ ~is_loopback(d.dst) =>
                 \/ is_loopback(d.src.addr)
                 \/ ~there
                 \/ \A e \in held : e[1] # d.dst
<1> DEFINE L == BoundLink(iface, lo, held)
           P == Provenance(d, iface, lo, held)
           near == OnLocalLink(d, iface, lo, held)
           there == \/ \E e \in held : InPrefix(e, d.src.addr)
                    \/ LinkLocal(d.src.addr) /\ LinkTold(d)
<1>1. held \subseteq Addresses \X (0 .. ADDRESS_BITS)
  BY OnLinkAssumption
<1>2. P \in {"Established", "Unproven"} /\ (LinkTold(d) => P = "Established")
  BY ProvenanceSays
<1>3. near <=> IF is_loopback(d.src.addr) THEN lo /\ P \in LinkProvenance
               ELSE \/ P = "Established" /\ LinkLocal(d.src.addr)
                    \/ \E e \in held : InPrefix(e, d.src.addr)
  BY <1>1, SourceArm
<1>4. ~(/\ P \in LinkProvenance
        /\ IF DstTold(d)
           THEN IF is_mdns_group(d.dst)
                THEN \/ P # "Unproven"
                     \/ d.delivery # "Broadcast" /\ (d.delivery = "Multicast" \/ near)
                ELSE /\ near
                     /\ \/ is_bound_address(d.dst, L)
                        \/ held = {} /\ classify_unheld(d.dst, L) = "DestinationNotHeld"
           ELSE /\ d.evidence # "truncated" /\ d.delivery # "Broadcast"
                /\ d.delivery = "Multicast" \/ near)
  BY AdmitsWhen
<1>5. TrueDelivery(d.dst) = "Multicast" => d.delivery = None \/ d.delivery = "Multicast"
  BY DEF Truthful
<1>6. TrueDelivery(d.dst) = "Unicast" => d.delivery # "Broadcast"
  BY OnLinkAssumption DEF Truthful
<1>7. is_mdns_group(d.dst) => TrueDelivery(d.dst) = "Multicast"
  <2>1. TopAddress \in Int
    <3>1. ADDRESS_BITS \in Nat
      BY OnLinkAssumption DEF ADDRESS_BITS
    <3> QED
      BY <3>1, PowerType DEF TopAddress
  <2>2. is_mdns_group(d.dst) => d.dst.n = TopAddress - 2
    BY DEF is_mdns_group, MDNS_GROUP
  <2> QED
    BY <2>1, <2>2 DEF TrueDelivery, is_multicast, is_broadcast
<1>8. ~is_loopback(d.dst) /\ (\E e \in held : e[1] = d.dst) => is_bound_address(d.dst, L)
  BY DEF is_bound_address, BoundLink
<1>9. ~is_loopback(d.src.addr) /\ there => near
  BY <1>2, <1>3
<1>10. P \in LinkProvenance /\ d.evidence # "truncated" /\ None # "Broadcast"
  BY <1>2, OnLinkAssumption DEF LinkProvenance
<1> HIDE DEF L, P, near, there
<1>11. ASSUME is_mdns_group(d.dst)
       PROVE  /\ ~(LinkTold(d) /\ DstTold(d)) /\ d.delivery = None
              /\ is_loopback(d.src.addr) \/ ~there
  <2>1. d.delivery # "Broadcast"
    BY <1>5, <1>7, <1>10, <1>11
  <2>2. ~near /\ d.delivery # "Multicast" /\ (DstTold(d) => P = "Unproven")
    BY <1>4, <1>10, <1>11, <2>1
  <2>3. d.delivery = None
    BY <1>5, <1>7, <1>11, <2>2
  <2> QED
    BY <1>2, <1>9, <2>2, <2>3
<1>12. ASSUME TrueDelivery(d.dst) = "Unicast", ~is_loopback(d.dst)
       PROVE  \/ is_loopback(d.src.addr)
              \/ ~there
              \/ \A e \in held : e[1] # d.dst
  <2>1. ~is_mdns_group(d.dst)
    BY <1>7, <1>12
  <2> QED
    BY <1>4, <1>6, <1>8, <1>9, <1>10, <1>12, <2>1
<1> QED
  BY <1>11, <1>12 DEF there

-----------------------------------------------------------------------------
(* The snapshot a datagram is weighed against.                             *)

SnapshotIsCurrent ==
  binding # 0 /\ lmono - refreshed_at < SUBNET_REFRESH_INTERVAL => subnets \in hist[refreshed_at]

VerdictOfNow ==
  arrival # None =>
    /\ lmono - refreshed_at < SUBNET_REFRESH_INTERVAL /\ arrival.d \in Datagrams
    /\ arrival.verdict = Weighed(arrival.d, binding, loopback, subnets)

LinkInv ==
  /\ lmono \in Instant /\ refreshed_at \in 0 .. lmono
  /\ binding \in {0, 1} /\ loopback \in BOOLEAN /\ (binding = 0 => ~loopback /\ subnets = {})
  /\ conf \in Confs /\ hist \in [Instant -> SUBSET Confs] /\ conf \in hist[lmono]
  /\ SnapshotIsCurrent /\ VerdictOfNow

LEMMA LinkInvHolds == LinkSpec => []LinkInv
<1> USE OnLinkAssumption, ClockAssumption
<1>1. LinkInit => LinkInv
  <2> SUFFICES ASSUME LinkInit PROVE LinkInv
    OBVIOUS
  <2>1. 0 \in Instant
    BY DEF Instant
  <2>2. binding \in {0, 1} /\ loopback \in BOOLEAN /\ (binding = 0 => ~loopback /\ subnets = {})
    BY DEF LinkInit, is_loopback_interface, collect_local_subnets
  <2>3. hist \in [Instant -> SUBSET Confs] /\ hist[0] = {conf} /\ conf \in Confs
    BY <2>1 DEF LinkInit
  <2>4. binding # 0 => subnets = conf
    BY DEF LinkInit, collect_local_subnets
  <2> QED
    BY <2>1, <2>2, <2>3, <2>4 DEF LinkInit, LinkInv, SnapshotIsCurrent, VerdictOfNow
<1>2. LinkInv /\ [LinkNext]_linkVars => LinkInv'
  <2> SUFFICES ASSUME LinkInv, [LinkNext]_linkVars
               PROVE  LinkInv'
    OBVIOUS
  <2>0. /\ lmono \in Nat /\ lmono <= MaxInstant /\ refreshed_at \in Nat /\ refreshed_at <= lmono
        /\ refreshed_at \in Instant
    BY DEF LinkInv, Instant
  <2>1. ASSUME NEW d \in Datagrams, Arrive(d)
        PROVE  LinkInv'
    <3>1. UNCHANGED <<lmono, binding, loopback, conf, hist>> /\ arrival = None
      BY <2>1 DEF Arrive
    <3>2. /\ refreshed_at' \in 0 .. lmono /\ lmono - refreshed_at' < SUBNET_REFRESH_INTERVAL
          /\ binding = 0 => subnets' = {}
          /\ binding # 0 => subnets' \in hist[refreshed_at']
      <4>1. CASE lmono - refreshed_at < SUBNET_REFRESH_INTERVAL
        BY <2>0, <2>1, <4>1 DEF Arrive, refresh_subnets_if_stale, LinkInv, SnapshotIsCurrent
      <4>2. CASE ~(lmono - refreshed_at < SUBNET_REFRESH_INTERVAL)
        <5>1. subnets' = collect_local_subnets(binding, conf) /\ refreshed_at' = lmono
          BY <2>1, <4>2 DEF Arrive, refresh_subnets_if_stale
        <5> QED
          BY <2>0, <5>1 DEF collect_local_subnets, LinkInv
      <4> QED
        BY <4>1, <4>2
    <3>3. arrival' = [d |-> d, verdict |-> Weighed(d, binding, loopback, subnets')]
      BY <2>1 DEF Arrive, Weighed
    <3>4. VerdictOfNow'
      <4>1. arrival'.d = d /\ arrival'.verdict = Weighed(d, binding, loopback, subnets')
        BY <3>3
      <4>2. Weighed(d, binding, loopback, subnets)' = Weighed(d, binding, loopback, subnets')
        BY <3>1 DEF Weighed
      <4> QED
        BY <3>1, <3>2, <4>1 DEF VerdictOfNow
    <3> QED
      BY <3>1, <3>2, <3>4 DEF LinkInv, SnapshotIsCurrent
  <2>2. ASSUME NEW c \in Confs, Renumber(c)
        PROVE  LinkInv'
    <3>1. /\ UNCHANGED <<lmono, binding, loopback, subnets, refreshed_at, arrival>>
          /\ arrival = None /\ conf' = c /\ hist' = [hist EXCEPT ![lmono] = @ \cup {c}]
      BY <2>2 DEF Renumber
    <3>2. hist' \in [Instant -> SUBSET Confs] /\ c \in hist'[lmono]
          /\ \A t \in Instant : hist[t] \subseteq hist'[t]
      BY <3>1 DEF LinkInv
    <3>3. SnapshotIsCurrent'
      BY <2>0, <3>1, <3>2 DEF LinkInv, SnapshotIsCurrent
    <3>4. VerdictOfNow'
      BY <3>1 DEF VerdictOfNow
    <3> QED
      BY <3>1, <3>2, <3>3, <3>4 DEF LinkInv
  <2>3. CASE Handled
    <3>1. UNCHANGED <<lmono, binding, loopback, conf, subnets, refreshed_at, hist>> /\ arrival' = None
      BY <2>3 DEF Handled
    <3> QED
      BY <3>1 DEF LinkInv, SnapshotIsCurrent, VerdictOfNow
  <2>4. CASE LinkTick
    <3>1. /\ UNCHANGED <<binding, loopback, conf, subnets, refreshed_at, arrival>>
          /\ arrival = None /\ lmono' = lmono + 1 /\ lmono < MaxLinkTicks
          /\ hist' = [t \in Instant |-> IF t = lmono' THEN {conf}
                                        ELSE IF lmono' - t < SUBNET_REFRESH_INTERVAL THEN hist[t]
                                        ELSE {}]
      BY <2>4 DEF LinkTick
    <3>2. lmono' \in Instant /\ refreshed_at \in 0 .. lmono' /\ refreshed_at # lmono'
      BY <2>0, <3>1 DEF Instant
    <3>3. hist' \in [Instant -> SUBSET Confs] /\ hist'[lmono'] = {conf}
      BY <3>1, <3>2 DEF LinkInv
    <3>4. SnapshotIsCurrent'
      <4>1. lmono' - refreshed_at < SUBNET_REFRESH_INTERVAL =>
              /\ lmono - refreshed_at < SUBNET_REFRESH_INTERVAL
              /\ hist'[refreshed_at] = hist[refreshed_at]
        BY <2>0, <3>1, <3>2
      <4> QED
        BY <3>1, <4>1 DEF LinkInv, SnapshotIsCurrent
    <3>5. VerdictOfNow'
      BY <3>1 DEF VerdictOfNow
    <3> QED
      BY <3>1, <3>2, <3>3, <3>4, <3>5 DEF LinkInv
  <2>5. CASE UNCHANGED linkVars
    BY <2>5 DEF linkVars, LinkInv, SnapshotIsCurrent, VerdictOfNow, Weighed
  <2> QED
    BY <2>1, <2>2, <2>3, <2>4, <2>5 DEF LinkNext
<1> QED
  BY <1>1, <1>2, PTL DEF LinkSpec

(* What it was weighed against, the interface had within the interval.     *)
LEMMA SnapshotIsRecent ==
  ASSUME LinkInv, arrival # None
  PROVE  /\ subnets \in Recent /\ subnets \in Confs \cup {{}}
         /\ Truthful(arrival.d)
         /\ arrival.verdict = Weighed(arrival.d, binding, loopback, subnets)
<1>1. /\ lmono - refreshed_at < SUBNET_REFRESH_INTERVAL /\ arrival.d \in Datagrams
      /\ arrival.verdict = Weighed(arrival.d, binding, loopback, subnets)
  BY DEF LinkInv, VerdictOfNow
<1>2. refreshed_at \in Instant
  BY ClockAssumption DEF LinkInv, Instant
<1>3. CASE binding = 0
  BY <1>1, <1>3, DatagramsAreTruthful DEF LinkInv, Recent
<1>4. CASE binding # 0
  <2>1. subnets \in hist[refreshed_at] /\ hist[refreshed_at] \subseteq Confs
    BY <1>1, <1>2, <1>4 DEF LinkInv, SnapshotIsCurrent
  <2> QED
    BY <1>1, <1>2, <1>4, <2>1, DatagramsAreTruthful DEF Recent
<1> QED
  BY <1>3, <1>4

(***************************************************************************)
(* admits_ingress lets nothing off-link through, whatever the path could   *)
(* not witness and however often the host was renumbered: no foreign link, *)
(* no destination that is somebody else's, and no source outside every     *)
(* prefix the interface had within SUBNET_REFRESH_INTERVAL.                *)
(***************************************************************************)
THEOREM NothingOffLinkIsRead == LinkSpec => []OnLinkSound
<1>1. LinkInv => OnLinkSound
  <2> SUFFICES ASSUME LinkInv, arrival # None, arrival.verdict.admit
               PROVE  LET d == arrival.d
                      IN /\ binding # 0 /\ LinkTold(d) => d.link = binding
                         /\ DstTold(d) => \/ is_mdns_group(d.dst)
                                          \/ OwnLoopback(d.dst)
                                          \/ /\ ~is_loopback(d.dst) /\ TrueDelivery(d.dst) = "Unicast"
                                             /\ \E c \in Recent : c = {} \/ \E e \in c : e[1] = d.dst
                         /\ TrueDelivery(d.dst) # "Multicast" =>
                              \/ OwnLoopback(d.src.addr)
                              \/ ~is_loopback(d.src.addr)
                                 /\ \E c \in Recent : \E e \in c : InPrefix(e, d.src.addr)
                              \/ LinkLocal(d.src.addr) /\ d.link = binding /\ LinkTold(d)
    BY DEF OnLinkSound
  <2> DEFINE d == arrival.d
  <2>1. /\ subnets \in Recent /\ subnets \in Confs \cup {{}} /\ Truthful(d)
        /\ Weighed(d, binding, loopback, subnets).admit
    BY SnapshotIsRecent
  <2>2. binding \in {0, 1} /\ loopback \in BOOLEAN /\ (binding = 0 => ~loopback)
    BY DEF LinkInv
  <2> HIDE DEF d
  <2>3. /\ binding # 0 /\ LinkTold(d) => d.link = binding
        /\ DstTold(d) => \/ is_mdns_group(d.dst)
                         \/ loopback /\ is_loopback(d.dst)
                         \/ /\ ~is_loopback(d.dst) /\ TrueDelivery(d.dst) = "Unicast"
                            /\ subnets = {} \/ \E e \in subnets : e[1] = d.dst
        /\ TrueDelivery(d.dst) # "Multicast" =>
             \/ loopback /\ is_loopback(d.src.addr)
             \/ ~is_loopback(d.src.addr) /\ \E e \in subnets : InPrefix(e, d.src.addr)
             \/ LinkLocal(d.src.addr) /\ d.link = binding /\ LinkTold(d)
    BY <2>1, <2>2, AdmittedIsOnLink
  <2> QED
    BY <2>1, <2>3 DEF OwnLoopback, d
<1> QED
  BY <1>1, LinkInvHolds, PTL

(***************************************************************************)
(* admits_ingress refuses nothing that the interface's addresses of the    *)
(* last interval, or a link-local source on a witnessed link, show to be   *)
(* on-link, unless its control data was truncated.                         *)
(***************************************************************************)
THEOREM NothingOnLinkIsLost == LinkSpec => []OnLinkComplete
<1>1. LinkInv => OnLinkComplete
  <2> SUFFICES ASSUME LinkInv, arrival # None, arrival.d.link = binding,
                      arrival.d.evidence \notin {"truncated", "truncated_dst"},
                      ~arrival.verdict.admit
               PROVE  LET d == arrival.d
                          near == \/ \A c \in Recent : \E e \in c : InPrefix(e, d.src.addr)
                                  \/ LinkLocal(d.src.addr) /\ LinkTold(d)
                      IN /\ is_mdns_group(d.dst) =>
                              /\ ~(LinkTold(d) /\ DstTold(d)) /\ d.delivery = None
                              /\ is_loopback(d.src.addr) \/ ~near
                         /\ TrueDelivery(d.dst) = "Unicast" /\ ~is_loopback(d.dst) =>
                              \/ is_loopback(d.src.addr)
                              \/ ~near
                              \/ \E c \in Recent : \A e \in c : e[1] # d.dst
    BY DEF OnLinkComplete
  <2> DEFINE d == arrival.d
             near == \/ \A c \in Recent : \E e \in c : InPrefix(e, d.src.addr)
                     \/ LinkLocal(d.src.addr) /\ LinkTold(d)
             there == \/ \E e \in subnets : InPrefix(e, d.src.addr)
                      \/ LinkLocal(d.src.addr) /\ LinkTold(d)
  <2>1. /\ subnets \in Recent /\ subnets \in Confs \cup {{}} /\ Truthful(d)
        /\ ~Weighed(d, binding, loopback, subnets).admit
    BY SnapshotIsRecent
  <2>2. binding \in {0, 1} /\ loopback \in BOOLEAN /\ (binding = 0 => ~loopback)
    BY DEF LinkInv
  <2>3. near => there
    BY <2>1
  <2>4. /\ is_mdns_group(d.dst) => /\ ~(LinkTold(d) /\ DstTold(d)) /\ d.delivery = None
                                   /\ is_loopback(d.src.addr) \/ ~there
        /\ TrueDelivery(d.dst) = "Unicast" /\ ~is_loopback(d.dst) =>
             \/ is_loopback(d.src.addr)
             \/ ~there
             \/ \A e \in subnets : e[1] # d.dst
    <3>1. d.link = binding /\ d.evidence \notin {"truncated", "truncated_dst"}
      OBVIOUS
    <3> HIDE DEF d
    <3> QED
      BY <2>1, <2>2, <3>1, OnLinkIsAdmitted DEF there
  <2> HIDE DEF near, there
  <2>5. /\ is_mdns_group(d.dst) => /\ ~(LinkTold(d) /\ DstTold(d)) /\ d.delivery = None
                                   /\ is_loopback(d.src.addr) \/ ~near
        /\ TrueDelivery(d.dst) = "Unicast" /\ ~is_loopback(d.dst) =>
             \/ is_loopback(d.src.addr)
             \/ ~near
             \/ \E c \in Recent : \A e \in c : e[1] # d.dst
    BY <2>1, <2>3, <2>4
  <2> QED
    BY <2>5 DEF near
<1> QED
  BY <1>1, LinkInvHolds, PTL

=============================================================================
