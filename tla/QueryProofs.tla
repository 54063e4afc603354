----------------------------- MODULE QueryProofs ----------------------------
(***************************************************************************)
(* TLAPS proofs about a query, for every retry budget, back-off, timeout,  *)
(* set of families and socket behaviour, and every order in which peers,   *)
(* the driver and the reader act.                                          *)
(***************************************************************************)
EXTENDS Query, ScheduleProofs, NaturalsInduction, WellFoundedInduction

QueryType ==
  [retry_count : Nat, next_deadline : OptInstant, transmit_pending : BOOLEAN,
   timeout_deadline : OptInstant, streak : Nat, patience : [Families -> FamilyPatience],
   answers : Seq([rdata : Rdata, seq : Nat]), next_seq : Nat, done : BOOLEAN]

(***************************************************************************)
(* There is a query (only for one that is there can a datagram be out).    *)
(***************************************************************************)
Asking == query # None \/ polled # None

(***************************************************************************)
(* The types the arguments need; while a datagram is out the driver pushes *)
(* no updates.                                                             *)
(***************************************************************************)
QShape ==
  /\ qnow \in Instant /\ asked \in Nat /\ polled \in OptInstant
  /\ Asking => query \in QueryType
  /\ step # "loop" => polled = None

(***************************************************************************)
(* Each slot the query counts as spent is one that was heard or asked for. *)
(***************************************************************************)
SlotsWereAsked == Asking => query.retry_count <= asked

(***************************************************************************)
(* What will bring the driver back to the query.                           *)
(***************************************************************************)
Awaited ==
  Asking /\ ~query.done =>
    \/ query.transmit_pending \/ polled # None
    \/ query.next_deadline # None \/ query.timeout_deadline # None
    \/ qnow + MAX_SECS > MaxInstant

QInv == QShape /\ SlotsWereAsked /\ Awaited

-----------------------------------------------------------------------------
(* The operators the steps are built from.                                 *)

(* The next retry is armed no more than MAX_SECS ahead, so that only the   *)
(* end of the clock leaves a query without one.                            *)
LEMMA RetryArmed ==
  ASSUME NEW t \in Instant, NEW n \in Nat
  PROVE  /\ next_deadline(t, n) \in OptInstant
         /\ next_deadline(t, n) # None \/ t + MAX_SECS > MaxInstant
<1> USE QueryAssumption, ClockAssumption
<1> DEFINE k == Sooner(IF n = 0 THEN 0 ELSE n - 1, 6)
<1>1. k \in 0 .. 6
  BY DEF Sooner
<1>2. 2^k \in Nat
  <2>1. 2^0 = 1 /\ 2^1 = 2 /\ 2^2 = 4 /\ 2^3 = 8 /\ 2^4 = 16 /\ 2^5 = 32 /\ 2^6 = 64
    OBVIOUS
  <2>2. k = 0 \/ k = 1 \/ k = 2 \/ k = 3 \/ k = 4 \/ k = 5 \/ k = 6
    BY <1>1
  <2> HIDE DEF k
  <2>3. 2^k \in {1, 2, 4, 8, 16, 32, 64}
    BY <2>1, <2>2, Zenon
  <2> QED
    BY <2>3
<1>3. Backoff(n) \in Nat /\ Backoff(n) <= MAX_SECS
  <2> DEFINE x == INITIAL_SECS * 2^k
  <2>1. x \in Nat
    <3> HIDE DEF k
    <3> QED
      BY <1>2
  <2>2. Backoff(n) = Sooner(x, MAX_SECS)
    BY DEF Backoff
  <2> HIDE DEF x
  <2> QED
    BY <2>1, <2>2 DEF Sooner
<1> QED
  BY <1>3 DEF next_deadline, checked_add, Instant, OptInstant

(* Time is anchored at an instant of the fan-out, or at the report.        *)
LEMMA AnchorIsInstant ==
  ASSUME NEW attempts, polled \in Instant, qnow \in Instant,
         NEW at \in [Families -> polled .. qnow]
  PROVE  QAnchor(attempts, at) \in Instant /\ QAnchor(attempts, at) <= qnow
<1> DEFINE heard == {at[f] : f \in Delivered(attempts)}
<1>1. heard \subseteq polled .. qnow
  BY DEF Delivered
<1>2. CASE heard = {}
  BY <1>2 DEF QAnchor, Instant
<1>3. CASE heard # {}
  <2>1. heard \subseteq Nat
    BY <1>1 DEF Instant
  <2>2. \E x \in heard : \A y \in heard : ~(<<y, x>> \in OpToRel(<, Nat))
    <3> HIDE DEF heard
    <3> QED
      BY <1>3, <2>1, NatLessThanWellFounded, WFMin
  <2>3. \E x \in heard : \A y \in heard : x <= y
    <3> HIDE DEF heard
    <3> QED
      <4>1. PICK x \in heard : \A y \in heard : ~(<<y, x>> \in OpToRel(<, Nat))
        BY <2>2
      <4>2. ASSUME NEW y \in heard
            PROVE  x <= y
        <5>1. x \in Nat /\ y \in Nat
          BY <2>1
        <5>2. ~(y < x)
          BY <4>1, <5>1 DEF OpToRel
        <5> QED
          BY <5>1, <5>2
      <4> QED
        BY <4>2
  <2>4. QAnchor(attempts, at) = CHOOSE x \in heard : \A y \in heard : x <= y
    BY <1>3 DEF QAnchor
  <2>5. QAnchor(attempts, at) \in heard
    <3> HIDE DEF heard
    <3> QED
      BY <2>3, <2>4
  <2>6. QAnchor(attempts, at) \in polled .. qnow
    <3> HIDE DEF heard
    <3> QED
      BY <1>1, <2>5
  <2> QED
    BY <2>6, ClockAssumption DEF Instant
<1> QED
  BY <1>2, <1>3

(* An outcome spends at most one slot, none if nobody heard the question,  *)
(* and arms the next retry.                                                *)
LEMMA Outcome ==
  ASSUME NEW q \in QueryType, NEW attempts, NEW t \in Instant
  PROVE  LET o == note_transmit_outcome(q, attempts, t)
         IN /\ o \in QueryType /\ o.done = q.done
            /\ o.retry_count <= q.retry_count + 1
            /\ Delivered(attempts) = {} => o.retry_count = q.retry_count
            /\ o.next_deadline # None \/ t + MAX_SECS > MaxInstant
<1> DEFINE advance == AdvanceOf(q.patience, attempts)
           charged == [q EXCEPT !.patience = PatienceAfter(q.patience, attempts)]
           o == note_transmit_outcome(q, attempts, t)
<1>1. /\ advance \in {"Failed", "Delivered", "Covered", "Excused", "Partial"}
      /\ advance = "Failed" <=> Delivered(attempts) = {}
  BY FiveVerdicts
<1>2. q.patience \in [Families -> FamilyPatience]
  BY DEF QueryType
<1>3. PatienceAfter(q.patience, attempts) \in [Families -> FamilyPatience]
  BY <1>2, PatienceType
<1>4. /\ charged \in QueryType /\ charged.done = q.done
      /\ charged.retry_count = q.retry_count /\ charged.streak = q.streak
  BY <1>3 DEF QueryType
<1>5. q.retry_count \in Nat /\ q.streak \in Nat
  BY DEF QueryType
<1>6. CASE advance = "Delivered"
  <2> DEFINE d == next_deadline(t, q.retry_count + 1)
             n == q.retry_count + 1
             s == 0
  <2>1. d \in OptInstant /\ (d # None \/ t + MAX_SECS > MaxInstant)
    BY <1>5, RetryArmed
  <2>2. n \in Nat /\ s \in Nat /\ n <= q.retry_count + 1
    BY <1>5
  <2>3. o = [charged EXCEPT !.retry_count = n, !.streak = s, !.next_deadline = d]
    BY <1>4, <1>6 DEF note_transmit_outcome, QueryType
  <2> HIDE DEF charged, d, n, s
  <2>4. o \in QueryType /\ o.retry_count = n /\ o.next_deadline = d /\ o.done = charged.done
    <3>1. charged \in QueryType /\ n \in Nat /\ s \in Nat /\ d \in OptInstant
      BY <1>4, <2>1, <2>2
    <3> HIDE DEF o
    <3> QED
      BY <2>3, <3>1 DEF QueryType
  <2> QED
    BY <1>1, <1>4, <1>5, <1>6, <2>1, <2>2, <2>4 DEF n
<1>7. CASE advance \in {"Covered", "Excused"}
  <2> DEFINE d == next_deadline(t, q.retry_count + 1 + q.streak)
             n == q.retry_count + 1
             s == q.streak + 1
  <2>1. d \in OptInstant /\ (d # None \/ t + MAX_SECS > MaxInstant)
    BY <1>5, RetryArmed
  <2>2. n \in Nat /\ s \in Nat /\ n <= q.retry_count + 1
    BY <1>5
  <2>3. o = [charged EXCEPT !.retry_count = n, !.streak = s, !.next_deadline = d]
    BY <1>4, <1>7 DEF note_transmit_outcome, QueryType
  <2> HIDE DEF charged, d, n, s
  <2>4. o \in QueryType /\ o.retry_count = n /\ o.next_deadline = d /\ o.done = charged.done
    <3>1. charged \in QueryType /\ n \in Nat /\ s \in Nat /\ d \in OptInstant
      BY <1>4, <2>1, <2>2
    <3> HIDE DEF o
    <3> QED
      BY <2>3, <3>1 DEF QueryType
  <2> QED
    BY <1>1, <1>4, <1>5, <1>7, <2>1, <2>2, <2>4 DEF n
<1>8. CASE advance = "Partial"
  <2> DEFINE d == next_deadline(t, q.retry_count + 1 + q.streak)
             n == q.retry_count
             s == q.streak + 1
  <2>1. d \in OptInstant /\ (d # None \/ t + MAX_SECS > MaxInstant)
    BY <1>5, RetryArmed
  <2>2. n \in Nat /\ s \in Nat /\ n <= q.retry_count + 1
    BY <1>5
  <2>3. o = [charged EXCEPT !.retry_count = n, !.streak = s, !.next_deadline = d]
    BY <1>4, <1>8 DEF note_transmit_outcome, QueryType
  <2> HIDE DEF charged, d, n, s
  <2>4. o \in QueryType /\ o.retry_count = n /\ o.next_deadline = d /\ o.done = charged.done
    <3>1. charged \in QueryType /\ n \in Nat /\ s \in Nat /\ d \in OptInstant
      BY <1>4, <2>1, <2>2
    <3> HIDE DEF o
    <3> QED
      BY <2>3, <3>1 DEF QueryType
  <2> QED
    BY <1>1, <1>4, <1>5, <1>8, <2>1, <2>2, <2>4 DEF n
<1>9. CASE advance = "Failed"
  <2> DEFINE d == next_deadline(t, q.retry_count + 1)
  <2>1. d \in OptInstant /\ (d # None \/ t + MAX_SECS > MaxInstant)
    BY <1>5, RetryArmed
  <2>2. o = [charged EXCEPT !.next_deadline = d]
    BY <1>9 DEF note_transmit_outcome
  <2> HIDE DEF charged, d
  <2> QED
    BY <1>1, <1>4, <1>5, <1>9, <2>1, <2>2 DEF QueryType
<1> QED
  BY <1>1, <1>6, <1>7, <1>8, <1>9

(* A query that ends has nothing left to wake it for.                      *)
LEMMA Terminated ==
  ASSUME NEW q \in QueryType
  PROVE  /\ terminate(q) \in QueryType /\ terminate(q).done
         /\ terminate(q).retry_count = q.retry_count
BY DEF terminate, QueryType, OptInstant

(* A timeout ends the query, or has the question asked again, or leaves it *)
(* as it was; it spends nothing.                                           *)
LEMMA TimedOut ==
  ASSUME NEW q \in QueryType, NEW t
  PROVE  LET o == handle_timeout(q, t)
         IN /\ o \in QueryType /\ o.retry_count = q.retry_count
            /\ o = q \/ o.done \/ o.transmit_pending
<1>1. [q EXCEPT !.transmit_pending = TRUE, !.next_deadline = None] \in QueryType
  BY DEF QueryType, OptInstant
<1>2. [q EXCEPT !.transmit_pending = TRUE, !.next_deadline = None].retry_count = q.retry_count
  BY DEF QueryType
<1>3. [q EXCEPT !.transmit_pending = TRUE, !.next_deadline = None].transmit_pending
  BY DEF QueryType
<1> QED
  BY <1>1, <1>2, <1>3, Terminated DEF handle_timeout

(* An answer changes what was collected and nothing else.                  *)
LEMMA Collected ==
  ASSUME NEW q \in QueryType, NEW r \in Rdata, NEW t
  PROVE  LET o == handle_event(q, r, t)
         IN /\ o \in QueryType /\ o.retry_count = q.retry_count /\ o.done = q.done
            /\ o.transmit_pending = q.transmit_pending /\ o.next_deadline = q.next_deadline
            /\ o.timeout_deadline = q.timeout_deadline
<1> DEFINE A == [rdata : Rdata, seq : Nat]
           kept == IF Len(q.answers) >= MaxAnswers THEN Tail(q.answers) ELSE q.answers
           as == Append(kept, [rdata |-> r, seq |-> q.next_seq])
           next == q.next_seq + 1
           grown == [q EXCEPT !.answers = as, !.next_seq = next]
<1>1. q.answers \in Seq(A) /\ q.next_seq \in Nat /\ next \in Nat
  BY DEF QueryType
<1>2. CASE handle_event(q, r, t) = q
  BY <1>2
<1>3. CASE MaxAnswers # 0 /\ handle_event(q, r, t) = grown
  <2>1. kept \in Seq(A)
    <3>1. CASE Len(q.answers) >= MaxAnswers
      <4>1. q.answers # <<>>
        BY <1>1, <1>3, <3>1, QueryAssumption
      <4> QED
        BY <1>1, <3>1, <4>1
    <3> QED
      BY <1>1, <3>1
  <2>2. as \in Seq(A)
    BY <1>1, <2>1
  <2> HIDE DEF as, next
  <2>3. grown \in QueryType
    BY <1>1, <2>2 DEF QueryType
  <2>4. /\ grown.retry_count = q.retry_count /\ grown.done = q.done
        /\ grown.transmit_pending = q.transmit_pending
        /\ grown.next_deadline = q.next_deadline
        /\ grown.timeout_deadline = q.timeout_deadline
    BY DEF QueryType
  <2> HIDE DEF grown
  <2> QED
    BY <1>3, <2>3, <2>4
<1> QED
  BY <1>2, <1>3 DEF handle_event

(* A duplicate question spends one slot and leaves the next one armed.     *)
LEMMA DuplicateNoted ==
  ASSUME NEW q \in QueryType, NEW t \in Instant
  PROVE  LET o == note_duplicate_question(q, t)
         IN /\ o \in QueryType /\ o.retry_count = q.retry_count + 1
            /\ o.done \/ o.next_deadline # None \/ t + MAX_SECS > MaxInstant
<1> DEFINE spent == [q EXCEPT !.transmit_pending = FALSE, !.retry_count = @ + 1, !.streak = 0,
                              !.patience = [f \in Families |-> FreshPatience]]
           d == next_deadline(t, spent.retry_count)
<1>1. FreshPatience \in FamilyPatience
  BY ScheduleAssumption DEF FreshPatience, FamilyPatience
<1>2. spent \in QueryType /\ spent.retry_count = q.retry_count + 1
  <2> DEFINE p == [f \in Families |-> FreshPatience]
             n == q.retry_count + 1
  <2>1. p \in [Families -> FamilyPatience]
    BY <1>1
  <2>2. n \in Nat
    BY DEF QueryType
  <2>3. spent = [q EXCEPT !.transmit_pending = FALSE, !.retry_count = n, !.streak = 0,
                          !.patience = p]
    BY DEF QueryType
  <2> HIDE DEF p, n, spent
  <2>4. spent \in QueryType /\ spent.retry_count = n
    BY <2>1, <2>2, <2>3 DEF QueryType
  <2> QED
    BY <2>4 DEF n
<1>3. spent.retry_count \in Nat
  BY <1>2 DEF QueryType
<1>4. d \in OptInstant /\ (d # None \/ t + MAX_SECS > MaxInstant)
  BY <1>3, RetryArmed
<1>5. note_duplicate_question(q, t) =
        IF spent.retry_count > MAX_RETRIES THEN terminate(spent)
        ELSE [spent EXCEPT !.next_deadline = d]
  BY DEF note_duplicate_question
<1> HIDE DEF spent, d
<1>6. CASE spent.retry_count > MAX_RETRIES
  BY <1>2, <1>5, <1>6, Terminated
<1>7. CASE ~(spent.retry_count > MAX_RETRIES)
  BY <1>2, <1>4, <1>5, <1>7 DEF QueryType
<1> QED
  BY <1>6, <1>7

-----------------------------------------------------------------------------
(* The invariant.                                                          *)

(* A new query has its first question to ask.                              *)
LEMMA QInvInit == QInit => QInv
<1> SUFFICES ASSUME QInit PROVE QInv
  OBVIOUS
<1> USE QueryAssumption, ClockAssumption, ScheduleAssumption
<1>1. PICK t \in Timeouts : query = NewQuery(t)
  BY DEF QInit
<1>2. FreshPatience \in FamilyPatience
  BY DEF FreshPatience, FamilyPatience
<1>3. query.timeout_deadline \in OptInstant
  BY <1>1 DEF NewQuery, checked_add, OptInstant, Instant
<1>4. query \in QueryType
  BY <1>1, <1>2, <1>3 DEF NewQuery, QueryType, OptInstant
<1>5. query.retry_count = 0 /\ query.transmit_pending
  BY <1>1 DEF NewQuery
<1> QED
  BY <1>4, <1>5 DEF QInit, QInv, QShape, Asking, SlotsWereAsked, Awaited, Instant, OptInstant

(* Steps of the reader, of the mailbox and of the doorbell leave a query   *)
(* that is not removed alone.                                              *)
LEMMA Delivery ==
  ASSUME QInv, \/ PushAnswers \/ RingAnswers \/ PushTerminal \/ RingTerminal
               \/ ReaderDrains \/ ReaderWakes \/ ReaderDrops
  PROVE  QInv'
<1>1. UNCHANGED <<qnow, polled, asked>> /\ (query' = query \/ query' = None)
  BY DEF PushAnswers, RingAnswers, PushTerminal, RingTerminal, ReaderDrains, ReaderWakes,
         ReaderDrops, ghosts
<1>2. polled # None => query' = query /\ step' = step
  BY DEF QInv, QShape, Asking, PushAnswers, RingAnswers, PushTerminal, RingTerminal, ReaderDrains,
         ReaderWakes, ReaderDrops, Driving
<1> QED
  BY <1>1, <1>2 DEF QInv, QShape, Asking, SlotsWereAsked, Awaited

(* A confirm spends a slot only when some link heard the question.         *)
LEMMA Confirmed ==
  ASSUME QInv, Confirms
  PROVE  QInv'
<1>1. PICK sockets \in [Families -> Outcomes], at \in [Families -> polled .. qnow] :
        QConfirm(sockets, at)
  BY DEF Confirms
<1> DEFINE attempts == QAttempts(sockets)
           t == QAnchor(attempts, at)
           o == note_transmit_outcome(query, attempts, t)
<1>2. polled \in Instant /\ qnow \in Instant /\ query \in QueryType /\ asked \in Nat
  BY <1>1 DEF QConfirm, QInv, QShape, Asking, OptInstant
<1>3. t \in Instant /\ t <= qnow
  BY <1>2, AnchorIsInstant
<1>4. /\ o \in QueryType /\ o.done = query.done
      /\ o.retry_count <= query.retry_count + 1
      /\ Delivered(attempts) = {} => o.retry_count = query.retry_count
      /\ o.next_deadline # None \/ t + MAX_SECS > MaxInstant
  <2> HIDE DEF attempts, t
  <2> QED
    BY <1>2, <1>3, Outcome
<1>5. /\ polled' = None /\ qnow' = qnow
      /\ asked' = IF Delivered(attempts) # {} THEN asked + 1 ELSE asked
      /\ \/ query' = None
         \/ query' = o /\ step' = step
  BY <1>1 DEF QConfirm, RetireQuery, delivering
<1>6. query.retry_count \in Nat /\ o.retry_count \in Nat
  BY <1>2, <1>4 DEF QueryType
<1>7. query.retry_count <= asked
  BY <1>1 DEF QConfirm, QInv, SlotsWereAsked, Asking
<1> HIDE DEF attempts, t, o
<1>8. QShape'
  BY <1>2, <1>4, <1>5 DEF QShape, Asking, OptInstant
<1>9. CASE query' = None
  BY <1>5, <1>8, <1>9 DEF QInv, SlotsWereAsked, Awaited, Asking
<1>10. CASE query' = o
  <2>1. SlotsWereAsked'
    BY <1>2, <1>4, <1>5, <1>6, <1>7, <1>10 DEF SlotsWereAsked
  <2>2. Awaited'
    BY <1>2, <1>3, <1>4, <1>5, <1>10, QueryAssumption, ClockAssumption DEF Awaited, Instant
  <2> QED
    BY <1>8, <2>1, <2>2 DEF QInv
<1> QED
  BY <1>5, <1>9, <1>10

(* Every step keeps the invariant.                                         *)
LEMMA QInvStep ==
  ASSUME QInv, [QNext]_qVars
  PROVE  QInv'
<1> USE DEF QInv
<1>1. ASSUME NEW r \in Rdata, Answer(r)
      PROVE  QInv'
  <2>1. query \in QueryType /\ query' = handle_event(query, r, qnow) /\ query # None
    BY <1>1 DEF Answer, Driving, QShape, Asking
  <2>2. UNCHANGED <<qnow, polled, step, asked>>
    BY <1>1 DEF Answer, delivering
  <2> QED
    BY <2>1, <2>2, Collected DEF QShape, Asking, SlotsWereAsked, Awaited
<1>2. CASE QTimeout
  <2>1. query \in QueryType /\ query' = handle_timeout(query, qnow) /\ query # None
    BY <1>2 DEF QTimeout, Driving, QShape, Asking
  <2>2. UNCHANGED <<qnow, polled, step, asked>>
    BY <1>2 DEF QTimeout, delivering, ghosts
  <2> QED
    BY <2>1, <2>2, TimedOut DEF QShape, Asking, SlotsWereAsked, Awaited
<1>3. CASE QPoll
  <2>1. query \in QueryType /\ query # None /\ step = "loop" /\ qnow \in Instant
    BY <1>3 DEF QPoll, Pollable, Driving, QShape, Asking
  <2>2. query' \in QueryType /\ query'.retry_count = query.retry_count
    BY <1>3, <2>1 DEF QPoll, QueryType
  <2>3. polled' = qnow /\ qnow # None /\ UNCHANGED <<qnow, step, asked>>
    BY <1>3, <2>1, ClockAssumption DEF QPoll, delivering, ghosts, Instant
  <2> QED
    BY <2>1, <2>2, <2>3 DEF QShape, Asking, SlotsWereAsked, Awaited, OptInstant
<1>4. CASE QPollFails
  <2>1. query' = None /\ polled = None /\ UNCHANGED <<qnow, polled, asked>>
    BY <1>4 DEF QPollFails, RetireQuery, Pollable, Driving
  <2> QED
    BY <2>1 DEF QShape, Asking, SlotsWereAsked, Awaited
<1>5. CASE DuplicateQuestion
  <2>1. /\ query \in QueryType /\ query # None /\ qnow \in Instant /\ asked \in Nat
        /\ query' = note_duplicate_question(query, qnow) /\ asked' = asked + 1
    BY <1>5 DEF DuplicateQuestion, Driving, QShape, Asking
  <2>2. UNCHANGED <<qnow, polled, step>>
    BY <1>5 DEF DuplicateQuestion, delivering
  <2>3. /\ query' \in QueryType /\ query'.retry_count = query.retry_count + 1
        /\ query'.done \/ query'.next_deadline # None \/ qnow + MAX_SECS > MaxInstant
    BY <2>1, DuplicateNoted
  <2>4. query.retry_count \in Nat
    BY <2>1 DEF QueryType
  <2> QED
    BY <2>1, <2>2, <2>3, <2>4 DEF QShape, Asking, SlotsWereAsked, Awaited
<1>6. CASE Confirms
  BY <1>6, Confirmed
<1>7. CASE \/ PushAnswers \/ RingAnswers \/ PushTerminal \/ RingTerminal
           \/ ReaderDrains \/ ReaderWakes \/ ReaderDrops
  BY <1>7, Delivery
<1>8. CASE QTick
  <2>1. qnow \in Instant /\ qnow < MaxInstant /\ qnow' = qnow + 1
    BY <1>8 DEF QTick, QShape, Asking
  <2>2. UNCHANGED <<query, polled, step, asked>>
    BY <1>8 DEF QTick, delivering, ghosts
  <2>3. qnow' \in Instant /\ (qnow + MAX_SECS > MaxInstant => qnow' + MAX_SECS > MaxInstant)
    BY <2>1, QueryAssumption, ClockAssumption DEF Instant
  <2> QED
    BY <2>2, <2>3 DEF QShape, Asking, SlotsWereAsked, Awaited
<1>9. CASE UNCHANGED qVars
  BY <1>9 DEF qVars, QShape, Asking, SlotsWereAsked, Awaited
<1> QED
  BY <1>1, <1>2, <1>3, <1>4, <1>5, <1>6, <1>7, <1>8, <1>9 DEF QNext

(* The query's types, its accounting of slots and its wakeups, always.     *)
THEOREM QueryInvariant == QSpec => []QInv
  BY QInvInit, QInvStep, PTL DEF QSpec

(* Query::note_transmit_outcome and note_duplicate_question: the retry     *)
(* budget is spent on questions some link heard or some peer asked; sends  *)
(* that fail, are gated or half heard never run it out.                    *)
THEOREM BudgetIsHonest == QSpec => []BudgetSpentOnTheWire
<1>1. QInv => BudgetSpentOnTheWire
  <2> SUFFICES ASSUME QInv, query # None, query.retry_count > MAX_RETRIES
               PROVE  asked >= MAX_RETRIES + 1
    BY DEF BudgetSpentOnTheWire
  <2>1. query.retry_count \in Nat /\ asked \in Nat /\ query.retry_count <= asked
    BY DEF QInv, QShape, Asking, SlotsWereAsked, QueryType
  <2> QED
    BY <2>1, QueryAssumption
<1> QED
  BY <1>1, QueryInvariant, PTL

(* Query::poll_timeout: a live query always has something that will bring  *)
(* the driver back to it, unless the clock is about to end.                *)
THEOREM QueriesAreNeverForgotten == QSpec => []QueryNeverForgotten
<1>1. QInv => QueryNeverForgotten
  <2>1. ASSUME NEW q \in QueryType, q.next_deadline # None \/ q.timeout_deadline # None
        PROVE  poll_timeout(q) # None
    BY <2>1 DEF poll_timeout, EarlierOf, Sooner
  <2> QED
    BY <2>1 DEF QInv, QShape, Asking, Awaited, QueryNeverForgotten
<1> QED
  BY <1>1, QueryInvariant, PTL

-----------------------------------------------------------------------------
(* The scan of push_updates and the reader's mailbox.                      *)

AnswerType == [rdata : Rdata, seq : Nat]

Mailbox ==
  [answers : Seq(AnswerType), terminal : BOOLEAN, terminal_delivered : BOOLEAN, dropped : Nat]

Scanned == [mb : Mailbox, delivered : Nat, replaced : Nat]

(* push_answer: an answer adds one to what waits or was dropped, unless it *)
(* takes the place of its older copy.                                      *)
LEMMA PushCounts ==
  ASSUME NEW mb \in Mailbox, NEW a \in AnswerType
  PROVE  LET p == push_answer(mb, a)
         IN /\ p \in Mailbox
            /\ Len(p.answers) + p.dropped + (IF Waiting(mb, a) THEN 1 ELSE 0)
                 = Len(mb.answers) + mb.dropped + 1
<1> DEFINE as == mb.answers
           p == push_answer(mb, a)
           more == mb.dropped + 1
<1>1. as \in Seq(AnswerType) /\ Len(as) \in Nat /\ mb.dropped \in Nat /\ more \in Nat
  BY DEF Mailbox
<1>2. CASE Waiting(mb, a)
  <2> DEFINE bs == [i \in DOMAIN as |-> IF as[i].rdata = a.rdata THEN a ELSE as[i]]
  <2>1. p = [mb EXCEPT !.answers = bs]
    BY <1>2 DEF push_answer
  <2>2. bs \in Seq(AnswerType) /\ Len(bs) = Len(as)
    BY <1>1
  <2> HIDE DEF bs
  <2>3. p \in Mailbox /\ p.answers = bs /\ p.dropped = mb.dropped
    BY <2>1, <2>2 DEF Mailbox
  <2> QED
    BY <1>1, <1>2, <2>2, <2>3
<1>3. CASE ~Waiting(mb, a) /\ Len(as) >= MAX_QUERY_EVENT_BACKLOG
  <2> DEFINE bs == Append(Tail(as), a)
  <2>1. p = [mb EXCEPT !.answers = bs, !.dropped = more]
    BY <1>3 DEF push_answer
  <2>2. bs \in Seq(AnswerType) /\ Len(bs) = Len(as)
    BY <1>1, <1>3, QueryAssumption
  <2> HIDE DEF bs
  <2>3. p \in Mailbox /\ p.answers = bs /\ p.dropped = more
    BY <1>1, <2>1, <2>2 DEF Mailbox
  <2> QED
    BY <1>1, <1>3, <2>2, <2>3
<1>4. CASE ~Waiting(mb, a) /\ ~(Len(as) >= MAX_QUERY_EVENT_BACKLOG)
  <2> DEFINE bs == Append(as, a)
  <2>1. p = [mb EXCEPT !.answers = bs]
    BY <1>4 DEF push_answer
  <2>2. bs \in Seq(AnswerType) /\ Len(bs) = Len(as) + 1
    BY <1>1
  <2> HIDE DEF bs
  <2>3. p \in Mailbox /\ p.answers = bs /\ p.dropped = mb.dropped
    BY <2>1, <2>2 DEF Mailbox
  <2> QED
    BY <1>1, <1>4, <2>2, <2>3
<1> QED
  BY <1>2, <1>3, <1>4

(* What a scan so far has put where.                                       *)
Balance(scan) == Len(scan.mb.answers) + scan.mb.dropped + scan.replaced

(* A turn of the scan delivers an unscanned answer and leaves the rest.    *)
LEMMA TurnCounts ==
  ASSUME NEW scan \in Scanned, NEW a \in AnswerType, last_seq \in Nat
  PROVE  LET o == Turn(scan, a)
         IN /\ o \in Scanned
            /\ Balance(o) - o.delivered = Balance(scan) - scan.delivered
            /\ a.seq < last_seq => o = scan
            /\ a.seq >= last_seq => o.delivered = scan.delivered + 1
<1>1. CASE a.seq < last_seq
  BY <1>1 DEF Turn, AnswerType
<1>2. CASE ~(a.seq < last_seq)
  <2> DEFINE mb == push_answer(scan.mb, a)
             n == scan.delivered + 1
             r == scan.replaced + IF Waiting(scan.mb, a) THEN 1 ELSE 0
             o == Turn(scan, a)
  <2>1. scan.mb \in Mailbox /\ scan.delivered \in Nat /\ scan.replaced \in Nat
    BY DEF Scanned
  <2>2. /\ mb \in Mailbox
        /\ Len(mb.answers) + mb.dropped + (IF Waiting(scan.mb, a) THEN 1 ELSE 0)
             = Len(scan.mb.answers) + scan.mb.dropped + 1
    BY <2>1, PushCounts
  <2>3. o = [mb |-> mb, delivered |-> n, replaced |-> r]
    BY <1>2 DEF Turn
  <2>4. o.mb = mb /\ o.delivered = n /\ o.replaced = r
    BY <2>3
  <2>5. o \in Scanned
    BY <2>1, <2>2, <2>3 DEF Scanned
  <2>6. /\ Len(mb.answers) \in Nat /\ mb.dropped \in Nat
        /\ Len(scan.mb.answers) \in Nat /\ scan.mb.dropped \in Nat
    BY <2>1, <2>2 DEF Mailbox
  <2>7. Balance(o) = Balance(scan) + 1
    <3>1. Balance(o) = Len(mb.answers) + mb.dropped + r
      BY <2>4 DEF Balance
    <3>4. Balance(scan) = Len(scan.mb.answers) + scan.mb.dropped + scan.replaced
      BY DEF Balance
    <3>2. PICK b \in {0, 1} : b = IF Waiting(scan.mb, a) THEN 1 ELSE 0
      OBVIOUS
    <3>3. /\ Len(mb.answers) + mb.dropped + b = Len(scan.mb.answers) + scan.mb.dropped + 1
          /\ r = scan.replaced + b
      BY <2>2, <3>2
    <3>5. ASSUME NEW x \in Nat, NEW y \in Nat, NEW u \in Nat, NEW v \in Nat, NEW w \in Nat,
                 x + y + b = u + v + 1
          PROVE  x + y + (w + b) = u + v + w + 1
      BY <3>2, <3>5
    <3> HIDE DEF mb, o, r
    <3>6. Len(mb.answers) + mb.dropped + (scan.replaced + b)
            = Len(scan.mb.answers) + scan.mb.dropped + scan.replaced + 1
      <4>1. PICK x \in Nat, y \in Nat : x = Len(mb.answers) /\ y = mb.dropped
        BY <2>6
      <4>2. PICK u \in Nat, v \in Nat : u = Len(scan.mb.answers) /\ v = scan.mb.dropped
        BY <2>6
      <4>3. PICK w \in Nat : w = scan.replaced
        BY <2>1
      <4>4. x + y + b = u + v + 1
        BY <3>3, <4>1, <4>2, Zenon
      <4>5. x + y + (w + b) = u + v + w + 1
        BY <3>5, <4>4
      <4> QED
        BY <4>1, <4>2, <4>3, <4>5, Zenon
    <3> QED
      BY <3>1, <3>3, <3>4, <3>6
  <2>8. Balance(scan) \in Nat
    BY <2>1, <2>6 DEF Balance
  <2> QED
    BY <1>2, <2>1, <2>4, <2>5, <2>7, <2>8 DEF AnswerType
<1> QED
  BY <1>1, <1>2

Start(mb) == [mb |-> mb, delivered |-> 0, replaced |-> 0]

(* The scan's loop runs through the collected answers in order.            *)
LEMMA ScanUnfolds ==
  ASSUME NEW q, NEW mb, Len(q.answers) \in Nat
  PROVE  \E f : /\ Scan(q, mb) = f[Len(q.answers)] /\ f[0] = Start(mb)
                /\ \A i \in 1 .. Len(q.answers) : f[i] = Turn(f[i - 1], q.answers[i])
<1> DEFINE n == Len(q.answers)
           Runs(f, k) == f = [i \in 0 .. k |-> IF i = 0 THEN Start(mb)
                                               ELSE Turn(f[i - 1], q.answers[i])]
           stuck == {k \in Nat : ~(\E f : Runs(f, k))}
<1>1. stuck = {}
  <2> SUFFICES ASSUME stuck # {} PROVE FALSE
    OBVIOUS
  <2>1. PICK k \in stuck : \A m \in stuck : ~(<<m, k>> \in OpToRel(<, Nat))
    <3> HIDE DEF stuck
    <3>1. stuck \subseteq Nat
      BY DEF stuck
    <3> QED
      BY <3>1, NatLessThanWellFounded, WFMin
  <2>2. \A m \in stuck : ~(m < k)
    BY <2>1 DEF OpToRel
  <2>3. CASE k = 0
    <3> DEFINE g == [i \in 0 .. 0 |-> Start(mb)]
    <3>1. Runs(g, 0)
      BY 0 .. 0 = {0}
    <3> QED
      BY <2>3, <3>1
  <2>4. CASE k # 0
    <3>7. k \in Nat
      OBVIOUS
    <3>8. k - 1 \in Nat /\ k - 1 < k
      BY <2>4, <3>7
    <3>1. k - 1 \in Nat /\ k - 1 < k /\ k - 1 \notin stuck
      <4> HIDE DEF stuck
      <4> QED
        BY <2>2, <3>8
    <3>2. PICK f : Runs(f, k - 1)
      BY <3>1
    <3> DEFINE g == [i \in 0 .. k |-> IF i = k THEN Turn(f[k - 1], q.answers[k]) ELSE f[i]]
    <3>3. \A i \in 0 .. k - 1 : g[i] = f[i]
      BY <3>1
    <3>4. \A i \in 0 .. k - 1 :
            f[i] = IF i = 0 THEN Start(mb) ELSE Turn(f[i - 1], q.answers[i])
      BY <3>2
    <3>5. ASSUME NEW i \in 0 .. k
          PROVE  g[i] = IF i = 0 THEN Start(mb) ELSE Turn(g[i - 1], q.answers[i])
      <4>1. CASE i = k
        <5>1. g[k - 1] = f[k - 1] /\ g[k] = Turn(f[k - 1], q.answers[k])
          BY <3>1, <3>3
        <5> HIDE DEF g
        <5> QED
          BY <2>4, <4>1, <5>1
      <4>2. CASE i # k /\ i # 0
        <5>1. i \in 0 .. k - 1 /\ i - 1 \in 0 .. k - 1
          BY <4>2
        <5>2. g[i] = f[i] /\ g[i - 1] = f[i - 1]
          BY <3>3, <5>1
        <5>3. f[i] = Turn(f[i - 1], q.answers[i])
          BY <3>4, <4>2, <5>1
        <5> HIDE DEF g
        <5> QED
          BY <4>2, <5>2, <5>3
      <4>3. CASE i = 0
        <5>1. 0 \in 0 .. k - 1
          BY <3>1
        <5>2. g[0] = f[0] /\ f[0] = Start(mb)
          BY <3>3, <3>4, <5>1
        <5> HIDE DEF g
        <5> QED
          BY <4>3, <5>2
      <4> QED
        BY <4>1, <4>2, <4>3
    <3>6. Runs(g, k)
      <4>1. g = [i \in 0 .. k |-> g[i]]
        OBVIOUS
      <4> HIDE DEF g
      <4> QED
        BY <3>5, <4>1
    <3> QED
      BY <3>6
  <2> QED
    BY <2>3, <2>4
<1>2. \E f : Runs(f, n)
  BY <1>1
<1> DEFINE scan == CHOOSE f : Runs(f, n)
<1>3. Runs(scan, n)
  <2> HIDE DEF Runs
  <2> QED
    BY <1>2
<1>4. Scan(q, mb) = scan[n]
  BY DEF Scan, Start
<1>5. scan[0] = Start(mb) /\ \A i \in 1 .. n : scan[i] = Turn(scan[i - 1], q.answers[i])
  <2> HIDE DEF scan
  <2>1. 0 \in 0 .. n /\ \A i \in 1 .. n : i \in 0 .. n /\ i # 0
    OBVIOUS
  <2> QED
    BY <1>3, <2>1
<1> QED
  <2> HIDE DEF scan
  <2> QED
    BY <1>4, <1>5

(***************************************************************************)
(* Collected answers stand in the order in which they were accepted.       *)
(***************************************************************************)
Ordered(q) ==
  \A i \in 1 .. Len(q.answers) :
    /\ q.answers[i].seq < q.next_seq
    /\ \A j \in i + 1 .. Len(q.answers) : q.answers[i].seq < q.answers[j].seq

(* A scan never delivers more answers than were accepted since the last    *)
(* one, so that the subtraction that counts the evicted never saturates.   *)
LEMMA ScanCounts ==
  ASSUME NEW q \in QueryType, Ordered(q), NEW mb \in Mailbox,
         last_seq \in Nat, last_seq <= q.next_seq
  PROVE  LET scan == Scan(q, mb)
         IN /\ scan \in Scanned /\ scan.delivered <= q.next_seq - last_seq
            /\ Balance(scan) = Len(mb.answers) + mb.dropped + scan.delivered
<1> DEFINE n == Len(q.answers)
           as == q.answers
           total == Len(mb.answers) + mb.dropped
           Upto(i) == IF i = 0 THEN 0
                      ELSE IF as[i].seq < last_seq THEN 0 ELSE as[i].seq + 1 - last_seq
<1>1. n \in Nat /\ q.next_seq \in Nat /\ \A i \in 1 .. n : as[i] \in AnswerType /\ as[i].seq \in Nat
  <2>1. as \in Seq(AnswerType) /\ q.next_seq \in Nat
    BY DEF QueryType, AnswerType
  <2>2. n \in Nat /\ \A i \in 1 .. n : as[i] \in AnswerType
    BY <2>1
  <2> QED
    BY <2>1, <2>2 DEF AnswerType
<1>2. PICK f : /\ Scan(q, mb) = f[n] /\ f[0] = Start(mb)
               /\ \A i \in 1 .. n : f[i] = Turn(f[i - 1], as[i])
  BY <1>1, ScanUnfolds
<1>3. total \in Nat /\ Start(mb) \in Scanned /\ Balance(Start(mb)) = total
      /\ Start(mb).delivered = 0
  BY DEF Start, Scanned, Balance, Mailbox
<1> DEFINE Good(i) == /\ f[i] \in Scanned /\ Balance(f[i]) - f[i].delivered = total
                      /\ f[i].delivered <= Upto(i)
           bad == {i \in 0 .. n : ~Good(i)}
<1>4. ASSUME NEW i \in 1 .. n, Good(i - 1)
      PROVE  Good(i)
  <2>1. /\ as[i] \in AnswerType /\ as[i].seq \in Nat /\ f[i] = Turn(f[i - 1], as[i])
        /\ f[i - 1] \in Scanned
    BY <1>1, <1>2, <1>4
  <2>2. /\ f[i] \in Scanned
        /\ Balance(f[i]) - f[i].delivered = Balance(f[i - 1]) - f[i - 1].delivered
        /\ as[i].seq < last_seq => f[i] = f[i - 1]
        /\ as[i].seq >= last_seq => f[i].delivered = f[i - 1].delivered + 1
    BY <2>1, TurnCounts
  <2>3. f[i - 1].delivered \in Nat /\ f[i].delivered \in Nat
    BY <2>1, <2>2 DEF Scanned
  <2>4. i - 1 # 0 => i - 1 \in 1 .. n /\ as[i - 1].seq \in Nat /\ as[i - 1].seq < as[i].seq
    <3> SUFFICES ASSUME i - 1 # 0
                 PROVE  i - 1 \in 1 .. n /\ as[i - 1].seq \in Nat /\ as[i - 1].seq < as[i].seq
      OBVIOUS
    <3>1. i - 1 \in 1 .. n /\ i \in (i - 1) + 1 .. n
      BY <1>1
    <3> QED
      BY <1>1, <3>1 DEF Ordered
  <2>5. f[i].delivered <= Upto(i)
    <3> DEFINE d == f[i - 1].delivered
               e == f[i].delivered
               s == as[i].seq
               r == as[i - 1].seq
    <3>1. d \in Nat /\ e \in Nat /\ s \in Nat /\ last_seq \in Nat
      BY <2>1, <2>3
    <3>2. d <= IF i - 1 = 0 THEN 0 ELSE IF r < last_seq THEN 0 ELSE r + 1 - last_seq
      BY <1>4
    <3>3. i - 1 # 0 => r \in Nat /\ r < s
      BY <2>4
    <3>4. (s < last_seq => e = d) /\ (s >= last_seq => e = d + 1)
      BY <2>2
    <3>5. Upto(i) = IF s < last_seq THEN 0 ELSE s + 1 - last_seq
      OBVIOUS
    <3> HIDE DEF d, e, s, r, Upto
    <3>6. i - 1 = 0 => e <= Upto(i)
      BY <3>1, <3>2, <3>4, <3>5
    <3>7. i - 1 # 0 => e <= Upto(i)
      BY <3>1, <3>2, <3>3, <3>4, <3>5
    <3> QED
      BY <3>6, <3>7 DEF e
  <2> QED
    BY <1>4, <2>2, <2>5
<1>5. Good(0)
  BY <1>2, <1>3
<1>6. bad = {}
  <2> SUFFICES ASSUME bad # {} PROVE FALSE
    OBVIOUS
  <2>1. bad \subseteq Nat /\ \A i \in bad : i \in 0 .. n /\ ~Good(i)
    OBVIOUS
  <2>2. \A i \in 0 .. n : i \notin bad => Good(i)
    OBVIOUS
  <2> HIDE DEF bad, Good
  <2>3. PICK k \in bad : \A m \in bad : ~(<<m, k>> \in OpToRel(<, Nat))
    BY <2>1, NatLessThanWellFounded, WFMin
  <2>4. k \in Nat /\ k \in 0 .. n /\ \A m \in bad : ~(m < k)
    BY <2>1, <2>3 DEF OpToRel
  <2>5. CASE k = 0
    BY <1>5, <2>1, <2>5
  <2>6. CASE k # 0
    <3>1. k \in 1 .. n /\ k - 1 \in 0 .. n /\ k - 1 < k
      BY <1>1, <2>4, <2>6
    <3>2. Good(k - 1)
      BY <2>2, <2>4, <3>1
    <3> QED
      BY <1>4, <2>1, <3>1, <3>2
  <2> QED
    BY <2>5, <2>6
<1>7. Good(n)
  <2>1. n \in 0 .. n
    BY <1>1
  <2> HIDE DEF Good
  <2> QED
    BY <1>6, <2>1
<1>8. Upto(n) <= q.next_seq - last_seq
  <2>1. CASE n = 0
    BY <1>1, <2>1
  <2>2. CASE n # 0
    <3>1. n \in 1 .. n
      BY <1>1, <2>2
    <3>2. as[n].seq \in Nat /\ as[n].seq < q.next_seq
      BY <1>1, <3>1 DEF Ordered
    <3> QED
      BY <1>1, <2>2, <3>2
  <2> QED
    BY <2>1, <2>2
<1> DEFINE scan == Scan(q, mb)
<1>9. /\ scan \in Scanned /\ Balance(scan) - scan.delivered = total
      /\ scan.delivered <= Upto(n) /\ Upto(n) \in Nat
  <2>1. Upto(n) \in Nat
    BY <1>1
  <2> HIDE DEF Upto
  <2> QED
    BY <1>2, <1>7, <2>1
<1>10. Balance(scan) \in Int /\ scan.delivered \in Nat
  <2> HIDE DEF scan
  <2>1. scan.mb \in Mailbox /\ scan.replaced \in Nat /\ scan.delivered \in Nat
    BY <1>9 DEF Scanned
  <2>2. Len(scan.mb.answers) \in Nat /\ scan.mb.dropped \in Nat
    BY <2>1 DEF Mailbox
  <2> QED
    BY <2>1, <2>2 DEF Balance
<1> HIDE DEF scan, total, Upto
<1>11. Balance(scan) = total + scan.delivered
  BY <1>3, <1>9, <1>10
<1>12. scan.delivered <= q.next_seq - last_seq
  BY <1>1, <1>8, <1>9, <1>10
<1> QED
  BY <1>9, <1>11, <1>12 DEF scan, total

-----------------------------------------------------------------------------
(***************************************************************************)
(* An accepted answer is beyond last_seq, or was taken, waits, was counted *)
(* as dropped, or gave its place to a newer copy.                          *)
(***************************************************************************)
Accounts ==
  /\ got \in Nat /\ coalesced \in Nat /\ accepted \in Nat /\ last_seq \in Nat
  /\ mailbox \in Mailbox
  /\ Asking => /\ Ordered(query) /\ accepted = query.next_seq /\ last_seq <= query.next_seq
  /\ ~retired /\ reader # "dropped" =>
       got + Len(mailbox.answers) + mailbox.dropped + coalesced = last_seq

(* What a query is asked, and what becomes of its questions, leaves its    *)
(* answers alone.                                                          *)
AnswersKept(q, o) == o.answers = q.answers /\ o.next_seq = q.next_seq

(* A timeout collects and evicts nothing.                                  *)
LEMMA TimeoutKeepsAnswers ==
  ASSUME NEW q \in QueryType, NEW t
  PROVE  AnswersKept(q, handle_timeout(q, t))
BY DEF handle_timeout, terminate, QueryType, AnswersKept

(* Nor does a peer's copy of the question.                                 *)
LEMMA DuplicateKeepsAnswers ==
  ASSUME NEW q \in QueryType, NEW t
  PROVE  AnswersKept(q, note_duplicate_question(q, t))
<1> DEFINE p == [f \in Families |-> FreshPatience]
           n == q.retry_count + 1
           spent == [q EXCEPT !.transmit_pending = FALSE, !.retry_count = n, !.streak = 0,
                              !.patience = p]
           d == next_deadline(t, spent.retry_count)
           o == note_duplicate_question(q, t)
<1>1. DOMAIN q = DOMAIN spent /\ AnswersKept(q, spent)
  BY DEF QueryType, AnswersKept
<1>2. o = (IF spent.retry_count > MAX_RETRIES THEN terminate(spent)
           ELSE [spent EXCEPT !.next_deadline = d])
  BY DEF note_duplicate_question, QueryType
<1>3. AnswersKept(spent, terminate(spent)) /\ AnswersKept(spent, [spent EXCEPT !.next_deadline = d])
  <2>1. "answers" \in DOMAIN spent /\ "next_seq" \in DOMAIN spent
    BY <1>1 DEF QueryType
  <2> HIDE DEF spent, d
  <2> QED
    BY <2>1 DEF terminate, AnswersKept
<1> HIDE DEF spent, d, p, n, o
<1>4. AnswersKept(spent, o)
  BY <1>2, <1>3
<1> QED
  BY <1>1, <1>4 DEF AnswersKept, o

(* Nor does the outcome of a send.                                         *)
LEMMA OutcomeKeepsAnswers ==
  ASSUME NEW q \in QueryType, NEW attempts, NEW t
  PROVE  AnswersKept(q, note_transmit_outcome(q, attempts, t))
<1> DEFINE advance == AdvanceOf(q.patience, attempts)
           p == PatienceAfter(q.patience, attempts)
           d1 == next_deadline(t, q.retry_count + 1)
           d2 == next_deadline(t, q.retry_count + 1 + q.streak)
           n == q.retry_count + 1
           s == q.streak + 1
           o == note_transmit_outcome(q, attempts, t)
<1>1. advance \in {"Failed", "Delivered", "Covered", "Excused", "Partial"}
  BY FiveVerdicts
<1>2. \/ o = [q EXCEPT !.patience = p, !.retry_count = n, !.streak = 0, !.next_deadline = d1]
      \/ o = [q EXCEPT !.patience = p, !.retry_count = n, !.streak = s, !.next_deadline = d2]
      \/ o = [q EXCEPT !.patience = p, !.streak = s, !.next_deadline = d2]
      \/ o = [q EXCEPT !.patience = p, !.next_deadline = d1]
  <2>1. CASE advance = "Delivered"
    BY <2>1 DEF note_transmit_outcome, QueryType
  <2>2. CASE advance \in {"Covered", "Excused"}
    BY <2>2 DEF note_transmit_outcome, QueryType
  <2>3. CASE advance = "Partial"
    BY <2>3 DEF note_transmit_outcome, QueryType
  <2>4. CASE advance = "Failed"
    BY <2>4 DEF note_transmit_outcome, QueryType
  <2> QED
    BY <1>1, <2>1, <2>2, <2>3, <2>4
<1> HIDE DEF advance, p, d1, d2, n, s, o
<1>3. AnswersKept(q, o)
  BY <1>2 DEF QueryType, AnswersKept
<1> QED
  BY <1>3 DEF o

(* A new answer is the last of those collected, also when the oldest has   *)
(* to go.                                                                  *)
LEMMA CollectedInOrder ==
  ASSUME NEW q \in QueryType, Ordered(q), NEW r \in Rdata, NEW t
  PROVE  LET o == handle_event(q, r, t)
         IN Ordered(o) /\ o.next_seq \in Nat /\ o.next_seq >= q.next_seq
<1> DEFINE a == [rdata |-> r, seq |-> q.next_seq]
           kept == IF Len(q.answers) >= MaxAnswers THEN Tail(q.answers) ELSE q.answers
           as == Append(kept, a)
           next == q.next_seq + 1
           o == handle_event(q, r, t)
<1>1. q.answers \in Seq(AnswerType) /\ q.next_seq \in Nat /\ a \in AnswerType
  BY DEF QueryType, AnswerType
<1>2. CASE o = q
  BY <1>1, <1>2
<1>3. CASE MaxAnswers # 0 /\ o = [q EXCEPT !.answers = as, !.next_seq = next]
  <2>1. o.answers = as /\ o.next_seq = next
    BY <1>3 DEF QueryType
  <2>2. kept \in Seq(AnswerType) /\ \E k \in {0, 1} :
          /\ Len(kept) = Len(q.answers) - k
          /\ \A i \in 1 .. Len(kept) : kept[i] = q.answers[i + k]
    <3>1. CASE Len(q.answers) >= MaxAnswers
      <4>1. q.answers # <<>>
        BY <1>1, <1>3, <3>1, QueryAssumption
      <4>2. /\ kept = Tail(q.answers) /\ kept \in Seq(AnswerType)
            /\ Len(kept) = Len(q.answers) - 1
            /\ \A i \in 1 .. Len(kept) : kept[i] = q.answers[i + 1]
        BY <1>1, <3>1, <4>1
      <4> QED
        BY <4>2
    <3>2. CASE ~(Len(q.answers) >= MaxAnswers)
      BY <1>1, <3>2
    <3> QED
      BY <3>1, <3>2
  <2>3. PICK k \in {0, 1} : /\ Len(kept) = Len(q.answers) - k
                            /\ \A i \in 1 .. Len(kept) : kept[i] = q.answers[i + k]
    BY <2>2
  <2>4. Len(kept) \in Nat /\ Len(q.answers) \in Nat
    BY <1>1, <2>2
  <2>5. ASSUME NEW i \in 1 .. Len(kept)
        PROVE  /\ kept[i].seq \in Nat /\ kept[i].seq < q.next_seq
               /\ \A j \in i + 1 .. Len(kept) : kept[i].seq < kept[j].seq
    <3>1. i + k \in 1 .. Len(q.answers) /\ kept[i] = q.answers[i + k]
      BY <2>3, <2>4
    <3>2. kept[i] \in AnswerType
      BY <2>2
    <3>3. kept[i].seq < q.next_seq
      BY <3>1 DEF Ordered
    <3>4. ASSUME NEW j \in i + 1 .. Len(kept)
          PROVE  kept[i].seq < kept[j].seq
      <4>1. j + k \in (i + k) + 1 .. Len(q.answers) /\ j \in 1 .. Len(kept)
        BY <2>3, <2>4
      <4>2. kept[j] = q.answers[j + k]
        BY <2>3, <4>1
      <4> QED
        BY <3>1, <4>1, <4>2 DEF Ordered
    <3> QED
      BY <3>2, <3>3, <3>4 DEF AnswerType
  <2>6. /\ Len(as) = Len(kept) + 1 /\ as[Len(kept) + 1] = a
        /\ \A i \in 1 .. Len(kept) : as[i] = kept[i]
    BY <1>1, <2>2
  <2>7. ASSUME NEW i \in 1 .. Len(as)
        PROVE  /\ as[i].seq < next
               /\ \A j \in i + 1 .. Len(as) : as[i].seq < as[j].seq
    <3>1. CASE i = Len(kept) + 1
      <4>1. as[i] = a /\ a.seq = q.next_seq /\ i + 1 .. Len(as) = {}
        BY <2>4, <2>6, <3>1
      <4> QED
        BY <1>1, <4>1
    <3>2. CASE i # Len(kept) + 1
      <4>1. i \in 1 .. Len(kept)
        BY <2>4, <2>6, <3>2
      <4>2. /\ as[i] = kept[i] /\ kept[i].seq \in Nat /\ kept[i].seq < q.next_seq
            /\ \A j \in i + 1 .. Len(kept) : kept[i].seq < kept[j].seq
        BY <2>5, <2>6, <4>1
      <4>3. ASSUME NEW j \in i + 1 .. Len(as)
            PROVE  as[i].seq < as[j].seq
        <5>1. CASE j = Len(kept) + 1
          <6>1. as[j].seq = q.next_seq
            BY <2>6, <5>1
          <6> QED
            BY <4>2, <6>1
        <5>2. CASE j # Len(kept) + 1
          <6>1. j \in i + 1 .. Len(kept) /\ j \in 1 .. Len(kept)
            BY <2>4, <2>6, <4>1, <5>2
          <6>2. as[j] = kept[j]
            BY <2>6, <6>1
          <6> QED
            BY <4>2, <6>1, <6>2
        <5> QED
          BY <5>1, <5>2
      <4> HIDE DEF as, kept
      <4>4. as[i].seq < next
        BY <1>1, <4>2
      <4> QED
        BY <4>3, <4>4
    <3> QED
      BY <3>1, <3>2
  <2>8. Ordered(o)
    <3> HIDE DEF as, kept, o, next
    <3> QED
      BY <2>1, <2>7 DEF Ordered
  <2>9. next \in Nat /\ next >= q.next_seq
    BY <1>1
  <2> QED
    BY <2>1, <2>8, <2>9
<1> QED
  BY <1>2, <1>3 DEF handle_event

(* A new query has nothing to account for.                                 *)
LEMMA AccountsInit == QInit => Accounts
<1> SUFFICES ASSUME QInit PROVE Accounts
  OBVIOUS
<1>1. PICK t \in Timeouts : query = NewQuery(t)
  BY DEF QInit
<1>2. query.answers = <<>> /\ query.next_seq = 0
  BY <1>1 DEF NewQuery
<1>3. mailbox \in Mailbox /\ Len(mailbox.answers) = 0 /\ mailbox.dropped = 0
  BY DEF QInit, NewMailbox, Mailbox
<1> QED
  BY <1>2, <1>3 DEF QInit, Accounts, Ordered

(* The terminal has a slot of its own, and takes none from the answers.    *)
LEMMA TerminalApart ==
  ASSUME NEW mb \in Mailbox
  PROVE  /\ set_terminal(mb) \in Mailbox /\ set_terminal(mb).answers = mb.answers
         /\ set_terminal(mb).dropped = mb.dropped
BY DEF set_terminal, Mailbox

(* The scan accounts for everything accepted since the one before it.      *)
LEMMA ScanAccounts ==
  ASSUME QInv, Accounts, PushAnswers
  PROVE  Accounts'
<1>1. query \in QueryType /\ query # None /\ polled = None /\ polled' = polled
  BY DEF PushAnswers, Driving, QInv, QShape, Asking
<1>2. Ordered(query) /\ accepted = query.next_seq /\ last_seq <= query.next_seq
  BY <1>1 DEF Accounts, Asking
<1>3. UNCHANGED <<got, accepted, retired, reader>>
  BY DEF PushAnswers
<1>4. CASE reader = "dropped"
  BY <1>1, <1>3, <1>4 DEF PushAnswers, Accounts, Asking
<1>5. CASE reader # "dropped"
  <2> DEFINE scan == Scan(query, mailbox)
             expected == query.next_seq - last_seq
             lost == IF expected > scan.delivered THEN expected - scan.delivered ELSE 0
             total == scan.mb.dropped + lost
  <2>1. /\ mailbox' = record_dropped(scan.mb, expected, scan.delivered)
        /\ last_seq' = query.next_seq /\ coalesced' = coalesced + scan.replaced
        /\ query' = query
    BY <1>5 DEF PushAnswers
  <2>2. /\ got \in Nat /\ coalesced \in Nat /\ accepted \in Nat /\ last_seq \in Nat
        /\ mailbox \in Mailbox /\ query.next_seq \in Nat
    BY <1>1 DEF Accounts, QueryType
  <2>3. /\ scan \in Scanned /\ scan.delivered <= expected
        /\ Balance(scan) = Len(mailbox.answers) + mailbox.dropped + scan.delivered
    BY <1>1, <1>2, <2>2, ScanCounts
  <2>4. scan.mb \in Mailbox /\ scan.delivered \in Nat /\ scan.replaced \in Nat
    BY <2>3 DEF Scanned
  <2>5. /\ Len(scan.mb.answers) \in Nat /\ scan.mb.dropped \in Nat
        /\ Len(mailbox.answers) \in Nat /\ mailbox.dropped \in Nat
    BY <2>2, <2>4 DEF Mailbox
  <2>6. Len(scan.mb.answers) + scan.mb.dropped + scan.replaced
          = Len(mailbox.answers) + mailbox.dropped + scan.delivered
    BY <2>3 DEF Balance
  <2> HIDE DEF scan
  <2>7. lost \in Nat /\ lost = expected - scan.delivered
    BY <2>2, <2>3, <2>4
  <2>8. total \in Nat
    BY <2>5, <2>7
  <2>9. mailbox' = [scan.mb EXCEPT !.dropped = total]
    BY <2>1, <2>4 DEF record_dropped, Mailbox
  <2>10. mailbox' \in Mailbox /\ mailbox'.answers = scan.mb.answers /\ mailbox'.dropped = total
    <3> HIDE DEF total
    <3> QED
      BY <2>4, <2>8, <2>9 DEF Mailbox
  <2>12. ~retired /\ reader # "dropped" =>
           got + Len(scan.mb.answers) + total + (coalesced + scan.replaced) = query.next_seq
    <3> SUFFICES ASSUME ~retired, reader # "dropped"
                 PROVE  got + Len(scan.mb.answers) + total + (coalesced + scan.replaced)
                          = query.next_seq
      OBVIOUS
    <3>1. got + Len(mailbox.answers) + mailbox.dropped + coalesced = last_seq
      BY DEF Accounts
    <3>2. PICK x \in Nat, y \in Nat, z \in Nat :
            x = Len(scan.mb.answers) /\ y = scan.mb.dropped /\ z = scan.replaced
      BY <2>4, <2>5
    <3>3. PICK u \in Nat, v \in Nat, d \in Nat :
            u = Len(mailbox.answers) /\ v = mailbox.dropped /\ d = scan.delivered
      BY <2>4, <2>5
    <3>4. PICK k \in Nat : k = lost
      BY <2>7
    <3>5. /\ x + y + z = u + v + d /\ k = (query.next_seq - last_seq) - d
          /\ got + u + v + coalesced = last_seq
      <4> HIDE DEF lost
      <4> QED
        BY <2>6, <2>7, <3>1, <3>2, <3>3, <3>4, Zenon
    <3>6. got + x + (y + k) + (coalesced + z) = query.next_seq
      <4>1. PICK n \in Nat, l \in Nat, g \in Nat, c \in Nat :
              n = query.next_seq /\ l = last_seq /\ g = got /\ c = coalesced
        BY <2>2
      <4>2. x + y + z = u + v + d /\ k = (n - l) - d /\ g + u + v + c = l
        BY <3>5, <4>1, Zenon
      <4>3. g + x + (y + k) + (c + z) = n
        BY <4>2
      <4> QED
        BY <4>1, <4>3, Zenon
    <3> QED
      BY <3>2, <3>4, <3>6, Zenon
  <2>13. coalesced + scan.replaced \in Nat
    BY <2>2, <2>4
  <2> HIDE DEF total
  <2>15. Ordered(query')
    BY <1>2, <2>1
  <2>16. Asking' => Ordered(query') /\ accepted' = query'.next_seq /\ last_seq' <= query'.next_seq
    BY <1>2, <1>3, <2>1, <2>2, <2>15
  <2>17. ~retired' /\ reader' # "dropped" =>
           got' + Len(mailbox'.answers) + mailbox'.dropped + coalesced' = last_seq'
    BY <1>3, <2>1, <2>10, <2>12
  <2>18. /\ got' \in Nat /\ coalesced' \in Nat /\ accepted' \in Nat /\ last_seq' \in Nat
         /\ mailbox' \in Mailbox
    BY <1>3, <2>1, <2>2, <2>10, <2>13
  <2> QED
    BY <2>16, <2>17, <2>18 DEF Accounts
<1> QED
  BY <1>4, <1>5

(* Steps that neither scan nor accept.                                     *)
LEMMA OthersAccount ==
  ASSUME Accounts, UNCHANGED <<last_seq, coalesced, accepted>>,
         Asking' => Asking /\ AnswersKept(query, query'),
         retired' \/ retired' = retired,
         \/ reader' = "dropped" /\ mailbox' = mailbox /\ got' = got
         \/ /\ reader' # "dropped" => reader # "dropped"
            /\ mailbox' \in Mailbox /\ got' \in Nat
            /\ got' + Len(mailbox'.answers) + mailbox'.dropped
                  = got + Len(mailbox.answers) + mailbox.dropped
  PROVE  Accounts'
<1>1. Asking' => Ordered(query') /\ accepted' = query'.next_seq /\ last_seq' <= query'.next_seq
  BY DEF Accounts, AnswersKept, Ordered
<1> QED
  BY <1>1 DEF Accounts

(* Every step accounts for the answers it moves.                           *)
LEMMA AccountsStep ==
  ASSUME QInv, Accounts, [QNext]_qVars
  PROVE  Accounts'
<1> USE DEF Asking
<1>0. query # None \/ polled # None => query \in QueryType
  BY DEF QInv, QShape
<1>15. mailbox \in Mailbox /\ got \in Nat
  BY DEF Accounts
<1>1. ASSUME NEW r \in Rdata, Answer(r)
      PROVE  Accounts'
  <2>1. /\ query \in QueryType /\ query' = handle_event(query, r, qnow)
        /\ accepted' = accepted + (query'.next_seq - query.next_seq)
        /\ UNCHANGED <<polled, last_seq, mailbox, reader, got, coalesced, retired>>
    BY <1>0, <1>1 DEF Answer, Driving, delivering
  <2>2. Ordered(query) /\ accepted = query.next_seq /\ last_seq <= query.next_seq
    BY <1>1 DEF Accounts, Answer, Driving
  <2>3. Ordered(query') /\ query'.next_seq \in Nat /\ query'.next_seq >= query.next_seq
    BY <2>1, <2>2, CollectedInOrder
  <2>4. query.next_seq \in Nat /\ last_seq \in Nat
    BY <2>1 DEF QueryType, Accounts
  <2>5. accepted' = query'.next_seq /\ last_seq <= query'.next_seq
    BY <2>1, <2>2, <2>3, <2>4
  <2> QED
    BY <2>1, <2>3, <2>5 DEF Accounts
<1>2. CASE QTimeout
  <2>1. query \in QueryType /\ query' = handle_timeout(query, qnow) /\ Asking
    BY <1>0, <1>2 DEF QTimeout, Driving
  <2>2. UNCHANGED <<last_seq, mailbox, reader, ghosts>>
    BY <1>2 DEF QTimeout, delivering
  <2> QED
    BY <1>15, <2>1, <2>2, TimeoutKeepsAnswers, OthersAccount DEF ghosts
<1>3. CASE QPoll
  <2>1. query \in QueryType /\ query' = [query EXCEPT !.transmit_pending = FALSE] /\ Asking
    BY <1>0, <1>3 DEF QPoll, Pollable, Driving
  <2>2. UNCHANGED <<last_seq, mailbox, reader, ghosts>>
    BY <1>3 DEF QPoll, delivering
  <2>3. AnswersKept(query, query')
    BY <2>1 DEF QueryType, AnswersKept
  <2> QED
    BY <1>15, <2>1, <2>2, <2>3, OthersAccount DEF ghosts
<1>4. CASE QPollFails
  <2>1. /\ ~Asking' /\ retired' /\ mailbox' = set_terminal(mailbox)
        /\ UNCHANGED <<last_seq, reader, got, coalesced, accepted>>
    BY <1>4 DEF QPollFails, RetireQuery, Pollable, Driving
  <2> QED
    BY <1>15, <2>1, TerminalApart, OthersAccount
<1>5. CASE DuplicateQuestion
  <2>1. query \in QueryType /\ query' = note_duplicate_question(query, qnow) /\ Asking
    BY <1>0, <1>5 DEF DuplicateQuestion, Driving
  <2>2. UNCHANGED <<last_seq, mailbox, reader, got, coalesced, accepted, retired>>
    BY <1>5 DEF DuplicateQuestion, delivering
  <2> QED
    BY <1>15, <2>1, <2>2, DuplicateKeepsAnswers, OthersAccount
<1>6. CASE Confirms
  <2>1. PICK sockets \in [Families -> Outcomes], at \in [Families -> polled .. qnow] :
          QConfirm(sockets, at)
    BY <1>6 DEF Confirms
  <2> DEFINE attempts == QAttempts(sockets)
             t == QAnchor(attempts, at)
  <2>2. /\ query \in QueryType /\ Asking /\ polled' = None
        /\ UNCHANGED <<got, coalesced, accepted>>
    BY <1>0, <2>1 DEF QConfirm
  <2>3. CASE undeliverable(attempts)
    <3>1. /\ query' = None /\ retired' /\ mailbox' = set_terminal(mailbox)
          /\ UNCHANGED <<last_seq, reader>>
      BY <2>1, <2>3 DEF QConfirm, RetireQuery
    <3> QED
      BY <1>15, <2>2, <3>1, TerminalApart, OthersAccount
  <2>4. CASE ~undeliverable(attempts)
    <3>1. /\ query' = note_transmit_outcome(query, attempts, t)
          /\ UNCHANGED <<retired, last_seq, mailbox, reader>>
      BY <2>1, <2>4 DEF QConfirm, delivering
    <3> HIDE DEF attempts, t
    <3>2. AnswersKept(query, query')
      BY <2>2, <3>1, OutcomeKeepsAnswers
    <3> QED
      BY <1>15, <2>2, <3>1, <3>2, OthersAccount
  <2> QED
    BY <2>3, <2>4
<1>7. CASE PushAnswers
  BY <1>7, ScanAccounts
<1>8. CASE RingAnswers
  <2>1. UNCHANGED <<query, polled, last_seq, mailbox, reader, ghosts>>
    BY <1>8 DEF RingAnswers
  <2> QED
    BY <1>15, <2>1, OthersAccount DEF ghosts, AnswersKept
<1>9. CASE PushTerminal
  <2>1. /\ UNCHANGED <<query, polled, last_seq, reader, ghosts>>
        /\ mailbox' = set_terminal(mailbox) \/ mailbox' = mailbox
    BY <1>9 DEF PushTerminal
  <2> QED
    BY <1>15, <2>1, TerminalApart, OthersAccount DEF ghosts, AnswersKept
<1>10. CASE RingTerminal
  <2>1. /\ ~Asking' /\ UNCHANGED <<last_seq, mailbox, reader, ghosts>>
    BY <1>10 DEF RingTerminal, QInv, QShape
  <2> QED
    BY <1>15, <2>1, OthersAccount DEF ghosts
<1>11. CASE ReaderDrains
  <2>1. /\ UNCHANGED <<query, polled, last_seq, coalesced, accepted, retired>>
        /\ reader' # "dropped" => reader # "dropped"
    BY <1>11 DEF ReaderDrains
  <2>2. CASE mailbox.answers # <<>> /\ mailbox' = [mailbox EXCEPT !.answers = Tail(@)]
             /\ got' = got + 1
    <3> DEFINE rest == Tail(mailbox.answers)
    <3>1. mailbox.answers \in Seq(AnswerType) /\ mailbox.dropped \in Nat
      BY <1>15 DEF Mailbox
    <3>2. rest \in Seq(AnswerType) /\ Len(rest) = Len(mailbox.answers) - 1
          /\ Len(mailbox.answers) \in Nat
      BY <2>2, <3>1
    <3> HIDE DEF rest
    <3>3. mailbox' \in Mailbox /\ mailbox'.answers = rest /\ mailbox'.dropped = mailbox.dropped
      BY <1>15, <2>2, <3>2 DEF Mailbox, rest
    <3>4. got' + Len(mailbox'.answers) + mailbox'.dropped
            = got + Len(mailbox.answers) + mailbox.dropped
      BY <1>15, <2>2, <3>1, <3>2, <3>3
    <3> QED
      BY <1>15, <2>1, <2>2, <3>3, <3>4, OthersAccount DEF AnswersKept
  <2>3. CASE /\ mailbox' = [mailbox EXCEPT !.terminal = FALSE, !.terminal_delivered = TRUE]
             /\ got' = got
    <3>1. /\ mailbox' \in Mailbox /\ mailbox'.answers = mailbox.answers
          /\ mailbox'.dropped = mailbox.dropped
      BY <1>15, <2>3 DEF Mailbox
    <3> QED
      BY <1>15, <2>1, <2>3, <3>1, OthersAccount DEF AnswersKept
  <2>4. CASE mailbox' = mailbox /\ got' = got
    BY <1>15, <2>1, <2>4, OthersAccount DEF AnswersKept
  <2> QED
    BY <1>11, <2>2, <2>3, <2>4 DEF ReaderDrains
<1>12. CASE ReaderWakes \/ ReaderDrops
  <2>1. /\ UNCHANGED <<query, polled, last_seq, mailbox, ghosts>>
        /\ reader' # "dropped" => reader # "dropped"
    BY <1>12 DEF ReaderWakes, ReaderDrops
  <2> QED
    BY <1>15, <2>1, OthersAccount DEF ghosts, AnswersKept
<1>13. CASE QTick \/ UNCHANGED qVars
  <2>1. UNCHANGED <<query, polled, last_seq, mailbox, reader, ghosts>>
    BY <1>13 DEF QTick, qVars, ghosts, delivering
  <2> QED
    BY <1>15, <2>1, OthersAccount DEF ghosts, AnswersKept
<1> QED
  BY <1>1, <1>2, <1>3, <1>4, <1>5, <1>6, <1>7, <1>8, <1>9, <1>10, <1>11, <1>12, <1>13 DEF QNext

(* push_updates, push_answer and record_dropped: while the query's context *)
(* lives, every answer it ever accepted was taken, waits, was counted as   *)
(* dropped, gave its place to a newer copy of itself, or is yet to be      *)
(* scanned.                                                                *)
THEOREM AnswersAreAccounted == QSpec => []AnswersAccounted
<1>1. QInit => Accounts
  BY AccountsInit
<1>2. QInv /\ Accounts /\ [QNext]_qVars => Accounts'
  BY AccountsStep
<1>3. Accounts => AnswersAccounted
  <2> SUFFICES ASSUME Accounts, ~retired, reader # "dropped"
               PROVE  got + Len(mailbox.answers) + mailbox.dropped + coalesced
                        + (accepted - last_seq) = accepted
    BY DEF AnswersAccounted
  <2>1. /\ got + Len(mailbox.answers) + mailbox.dropped + coalesced = last_seq
        /\ accepted \in Nat /\ last_seq \in Nat
    BY DEF Accounts
  <2> QED
    BY <2>1
<1> QED
  BY <1>1, <1>2, <1>3, QueryInvariant, PTL DEF QSpec

=============================================================================
