-------------------------------- MODULE Query -------------------------------
(***************************************************************************)
(* A one-shot query, end to end: the state machine (mdns-proto/src/query/  *)
(* mod.rs, reached through endpoint/query.rs and receive.rs), the reactor  *)
(* driver's calls into it (hick-reactor/src/driver/mod.rs) and the mailbox *)
(* and doorbell through which a reader on another task drains its answers  *)
(* (hick-reactor/src/query.rs).                                            *)
(*                                                                         *)
(* The driver is one task: between a poll and its confirm it calls nothing *)
(* else.  The reader runs at any time, so depositing into the mailbox and  *)
(* ringing the doorbell are separate steps.  An answer is its rdata key;   *)
(* matching of name, type and class is the router's.                       *)
(***************************************************************************)
EXTENDS Schedule, Sequences

CONSTANTS MAX_RETRIES,              \* 8
          INITIAL_SECS, MAX_SECS,   \* 1 and 60: section 5.2's back-off
          MaxAnswers,               \* the query's max_answers
          MAX_QUERY_EVENT_BACKLOG,  \* 1024
          Timeouts,                 \* QuerySpec::timeout, None for none
          Rdata,                    \* answers peers may give
          Outcomes,                 \* what a socket may do with a datagram
          MaxAccepted               \* model bound on the answers accepted

ASSUME QueryAssumption ==
  /\ MAX_RETRIES \in Nat /\ INITIAL_SECS \in Nat \ {0} /\ MAX_SECS \in Nat
  /\ MaxAnswers \in Nat /\ MAX_QUERY_EVENT_BACKLOG \in Nat \ {0} /\ MaxAccepted \in Nat
  /\ Timeouts \subseteq Nat \cup {None} /\ Outcomes \subseteq Attempt

MIN_QUERY_GAP == INITIAL_SECS

(***************************************************************************)
(* retry::next_deadline: how long after send number `sends` the next one   *)
(* is due, doubling up to MAX_SECS.                                        *)
(***************************************************************************)
Backoff(sends) ==
  Sooner(INITIAL_SECS * 2^Sooner(IF sends = 0 THEN 0 ELSE sends - 1, 6), MAX_SECS)

next_deadline(t, sends) == checked_add(t, Backoff(sends))

-----------------------------------------------------------------------------
VARIABLES
  qnow,
  query,        \* the proto query, or None once it is removed
  polled,       \* when the datagram awaiting its outcome was polled, or None
  qgate,        \* FamilyWireGate: when each family last carried the question
  last_seq,     \* QueryCtx::last_seq: answers already scanned
  step,         \* where the driver is in push_updates
  mailbox,      \* QueryMailbox
  doorbell,     \* tokens in the bounded(1) channel
  reader,       \* "running", "parked", "ended", "dropped"
  asked,        \* ghost: slots spent on questions some link heard, or a peer asked
  got,          \* ghost: answers the reader has taken
  coalesced,    \* ghost: answers replaced by a newer copy of themselves
  accepted,     \* ghost: answers the query ever accepted
  retired       \* ghost: removed by the driver's retirement, without push_updates

qVars == <<qnow, query, polled, qgate, last_seq, step, mailbox, doorbell, reader, asked, got, coalesced, accepted, retired>>

ghosts == <<asked, got, coalesced, accepted, retired>>

delivering == <<last_seq, step, mailbox, doorbell, reader>>

(***************************************************************************)
(* Query::try_new through Endpoint::try_start_query: the first send is due *)
(* at once.  A timeout past the end of the clock is no timeout.            *)
(***************************************************************************)
NewQuery(timeout) ==
  [retry_count |-> 0, next_deadline |-> None, transmit_pending |-> TRUE,
   timeout_deadline |-> IF timeout = None THEN None ELSE checked_add(0, timeout),
   streak |-> 0, patience |-> [f \in Families |-> FreshPatience],
   answers |-> <<>>, next_seq |-> 0, done |-> FALSE]

NewMailbox == [answers |-> <<>>, terminal |-> FALSE, terminal_delivered |-> FALSE, dropped |-> 0]

QInit ==
  /\ qnow = 0 /\ \E t \in Timeouts : query = NewQuery(t)
  /\ polled = None /\ qgate = [f \in Families |-> None]
  /\ last_seq = 0 /\ step = "loop" /\ mailbox = NewMailbox /\ doorbell = 0 /\ reader = "running"
  /\ asked = 0 /\ got = 0 /\ coalesced = 0 /\ accepted = 0 /\ retired = FALSE

(***************************************************************************)
(* The driver is free to call any entry point of the query.                *)
(***************************************************************************)
Driving == query # None /\ step = "loop" /\ polled = None

caller_window_shut(q, t) == q.timeout_deadline # None /\ t >= q.timeout_deadline

-----------------------------------------------------------------------------
(* The state machine.                                                      *)

(***************************************************************************)
(* terminate: the terminal update is the one poll_query will report.       *)
(***************************************************************************)
terminate(q) ==
  IF q.done THEN q
  ELSE [q EXCEPT !.done = TRUE, !.transmit_pending = FALSE, !.next_deadline = None,
                 !.timeout_deadline = None]

(***************************************************************************)
(* handle_event(Answer): refused once the query ended or the caller's      *)
(* window shut; a known rdata is a duplicate; at the cap the oldest goes.  *)
(***************************************************************************)
handle_event(q, rdata, t) ==
  IF \/ q.done \/ caller_window_shut(q, t) \/ MaxAnswers = 0
     \/ \E i \in DOMAIN q.answers : q.answers[i].rdata = rdata
  THEN q
  ELSE [q EXCEPT
          !.answers = Append(IF Len(@) >= MaxAnswers THEN Tail(@) ELSE @,
                             [rdata |-> rdata, seq |-> q.next_seq]),
          !.next_seq = @ + 1]

(***************************************************************************)
(* The endpoint hands every matching record of a response to the query.    *)
(***************************************************************************)
Answer(rdata) ==
  /\ Driving /\ query.next_seq < MaxAccepted
  /\ query' = handle_event(query, rdata, qnow)
  /\ accepted' = accepted + (query'.next_seq - query.next_seq)
  /\ UNCHANGED <<qnow, polled, qgate, delivering, asked, got, coalesced, retired>>

poll_timeout(q) == EarlierOf(q.next_deadline, q.timeout_deadline)

TimeoutIgnoresWindow(q, t) ==
  IF q.done \/ ~Due(q.next_deadline, t) THEN q
  ELSE IF q.retry_count > MAX_RETRIES THEN terminate(q)
  ELSE [q EXCEPT !.transmit_pending = TRUE, !.next_deadline = None]

(***************************************************************************)
(* handle_timeout: the caller's deadline first, then the retry schedule.   *)
(***************************************************************************)
handle_timeout(q, t) ==
  IF q.done THEN q
  ELSE IF caller_window_shut(q, t) THEN terminate(q)
  ELSE IF ~Due(q.next_deadline, t) THEN q
  ELSE IF q.retry_count > MAX_RETRIES THEN terminate(q)
  ELSE [q EXCEPT !.transmit_pending = TRUE, !.next_deadline = None]

QTimeout ==
  /\ Driving /\ Due(poll_timeout(query), qnow)
  /\ query' = handle_timeout(query, qnow)
  /\ UNCHANGED <<qnow, polled, qgate, delivering, ghosts>>

(***************************************************************************)
(* poll_transmit, from drain_query_transmits for a query whose doorbell is *)
(* open: nothing is asked once the caller's window shut.                   *)
(***************************************************************************)
Pollable ==
  /\ Driving /\ reader # "dropped"
  /\ ~query.done /\ query.transmit_pending /\ ~caller_window_shut(query, qnow)

QPoll ==
  /\ Pollable
  /\ query' = [query EXCEPT !.transmit_pending = FALSE]
  /\ polled' = qnow
  /\ UNCHANGED <<qnow, qgate, delivering, ghosts>>

(***************************************************************************)
(* set_terminal; poll_query reports a terminal once.                       *)
(***************************************************************************)
set_terminal(mb) == IF mb.terminal_delivered THEN mb ELSE [mb EXCEPT !.terminal = TRUE]

(***************************************************************************)
(* drain_query_transmits gives the query up: the proto query is retired,   *)
(* the terminal goes to the mailbox, and both sides are removed at the end *)
(* of the pass (nothing else of the driver runs before).                   *)
(***************************************************************************)
RetireQuery ==
  /\ query' = None /\ retired' = TRUE
  /\ mailbox' = set_terminal(mailbox)
  /\ step' = "ring_terminal"
  /\ UNCHANGED <<last_seq, doorbell, reader>>

(***************************************************************************)
(* A question that cannot be encoded retires its query.                    *)
(***************************************************************************)
QPollFails ==
  /\ Pollable
  /\ RetireQuery
  /\ UNCHANGED <<qnow, polled, qgate, asked, got, coalesced, accepted>>

(***************************************************************************)
(* FamilyWireGate::open, asked when the fan-out starts.                    *)
(***************************************************************************)
QGateOpen(f) == qgate[f] = None \/ polled - qgate[f] >= MIN_QUERY_GAP

QAttempts(sockets) ==
  [f \in Families |-> IF sockets[f] # "no_socket" /\ ~QGateOpen(f) THEN "gate_shut"
                      ELSE sockets[f]]

QAnchor(attempts, at) ==
  LET heard == {at[f] : f \in Delivered(attempts)}
  IN IF heard = {} THEN qnow ELSE CHOOSE t \in heard : \A u \in heard : t <= u

EverySendSpendsASlot(q, attempts, t) ==
  [q EXCEPT !.retry_count = @ + 1, !.next_deadline = next_deadline(t, q.retry_count + 1)]

(***************************************************************************)
(* note_transmit_outcome: a slot is spent when every family heard the      *)
(* question or has no claim left to be waited for; a partial hearing       *)
(* climbs the ladder without spending one; a total failure does neither.   *)
(***************************************************************************)
note_transmit_outcome(q, attempts, t) ==
  LET advance == AdvanceOf(q.patience, attempts)
      charged == [q EXCEPT !.patience = PatienceAfter(q.patience, attempts)]
  IN CASE advance = "Delivered" ->
            [charged EXCEPT !.retry_count = @ + 1, !.streak = 0,
                            !.next_deadline = next_deadline(t, q.retry_count + 1)]
       [] advance \in {"Covered", "Excused"} ->
            [charged EXCEPT !.retry_count = @ + 1, !.streak = @ + 1,
                            !.next_deadline = next_deadline(t, q.retry_count + 1 + q.streak)]
       [] advance = "Partial" ->
            [charged EXCEPT !.streak = @ + 1,
                            !.next_deadline = next_deadline(t, q.retry_count + 1 + q.streak)]
       [] advance = "Failed" ->
            [charged EXCEPT !.next_deadline = next_deadline(t, q.retry_count + 1)]

(***************************************************************************)
(* The driver offers the question to each family at an instant since the   *)
(* poll, and reports.  One no transport can ever carry retires the query.  *)
(***************************************************************************)
QConfirm(sockets, at) ==
  LET attempts == QAttempts(sockets)
      t == QAnchor(attempts, at)
      outcome == note_transmit_outcome(query, attempts, t)
  IN /\ polled # None /\ polled' = None
     /\ qgate' = [f \in Families |-> IF f \in Delivered(attempts) THEN at[f] ELSE qgate[f]]
     /\ asked' = IF Delivered(attempts) # {} THEN asked + 1 ELSE asked
     /\ IF undeliverable(attempts) THEN RetireQuery
        ELSE query' = outcome /\ UNCHANGED <<retired, delivering>>
     /\ UNCHANGED <<qnow, got, coalesced, accepted>>

DuplicateNotRearmed(q, t) ==
  [q EXCEPT !.transmit_pending = FALSE, !.retry_count = @ + 1, !.streak = 0, !.next_deadline = None]

(***************************************************************************)
(* note_duplicate_question: a peer asked the question this query was about *)
(* to ask; the slot counts as spent.                                       *)
(***************************************************************************)
note_duplicate_question(q, t) ==
  LET spent == [q EXCEPT !.transmit_pending = FALSE, !.retry_count = @ + 1, !.streak = 0,
                         !.patience = [f \in Families |-> FreshPatience]]
  IN IF spent.retry_count > MAX_RETRIES THEN terminate(spent)
     ELSE [spent EXCEPT !.next_deadline = next_deadline(t, spent.retry_count)]

DuplicateQuestion ==
  /\ Driving /\ ~query.done /\ ~caller_window_shut(query, qnow)
  /\ query.transmit_pending \/ Due(query.next_deadline, qnow)
  /\ query' = note_duplicate_question(query, qnow)
  /\ asked' = asked + 1
  /\ UNCHANGED <<qnow, polled, qgate, delivering, got, coalesced, accepted, retired>>

-----------------------------------------------------------------------------
(* push_updates, and the reader's side.                                    *)

(***************************************************************************)
(* QueryMailbox::push_answer: a newer copy replaces the pending one; at    *)
(* the backlog the oldest is dropped and counted.                          *)
(***************************************************************************)
Waiting(mb, a) == \E i \in DOMAIN mb.answers : mb.answers[i].rdata = a.rdata

push_answer(mb, a) ==
  IF Waiting(mb, a)
  THEN [mb EXCEPT !.answers = [i \in DOMAIN mb.answers |->
                                 IF mb.answers[i].rdata = a.rdata THEN a ELSE mb.answers[i]]]
  ELSE IF Len(mb.answers) >= MAX_QUERY_EVENT_BACKLOG
  THEN [mb EXCEPT !.answers = Append(Tail(@), a), !.dropped = @ + 1]
  ELSE [mb EXCEPT !.answers = Append(@, a)]

TurnForgetsFilter(scan, a) ==
  [mb |-> push_answer(scan.mb, a), delivered |-> scan.delivered + 1, replaced |-> scan.replaced]

(***************************************************************************)
(* One turn of the scan, under the mailbox's lock: an answer not scanned   *)
(* before is delivered.  (replaced is a ghost: how many took the place of  *)
(* a pending copy of themselves.)                                          *)
(***************************************************************************)
Turn(scan, a) ==
  IF a.seq < last_seq THEN scan
  ELSE [mb |-> push_answer(scan.mb, a), delivered |-> scan.delivered + 1,
        replaced |-> scan.replaced + IF Waiting(scan.mb, a) THEN 1 ELSE 0]

(***************************************************************************)
(* The scan of the answers still collected.                                *)
(***************************************************************************)
Scan(q, mb) ==
  LET scan[i \in 0 .. Len(q.answers)] ==
        IF i = 0 THEN [mb |-> mb, delivered |-> 0, replaced |-> 0]
        ELSE Turn(scan[i - 1], q.answers[i])
  IN scan[Len(q.answers)]

(***************************************************************************)
(* record_dropped: those accepted since the last scan that were evicted    *)
(* before this one (a saturating subtraction) are counted.                 *)
(***************************************************************************)
record_dropped(mb, expected, delivered) ==
  [mb EXCEPT !.dropped = @ + IF expected > delivered THEN expected - delivered ELSE 0]

(***************************************************************************)
(* A closed doorbell cancels the query; otherwise new answers go first.    *)
(***************************************************************************)
PushAnswers ==
  /\ Driving
  /\ IF reader = "dropped"
     THEN /\ query' = None /\ step' = "gone"
          /\ UNCHANGED <<last_seq, mailbox, coalesced>>
     ELSE LET scan == Scan(query, mailbox)
          IN /\ query.next_seq > last_seq \/ query.done
             /\ mailbox' = record_dropped(scan.mb, query.next_seq - last_seq, scan.delivered)
             /\ last_seq' = query.next_seq
             /\ step' = IF scan.delivered > 0 THEN "ring_answers" ELSE "push_terminal"
             /\ coalesced' = coalesced + scan.replaced
             /\ UNCHANGED query
  /\ UNCHANGED <<qnow, polled, qgate, doorbell, reader, asked, got, accepted, retired>>

RingAnswers ==
  /\ step = "ring_answers" /\ step' = "push_terminal" /\ doorbell' = 1
  /\ UNCHANGED <<qnow, query, polled, qgate, last_seq, mailbox, reader, ghosts>>

PushTerminal ==
  /\ step = "push_terminal"
  /\ mailbox' = IF query.done THEN set_terminal(mailbox) ELSE mailbox
  /\ step' = IF query.done THEN "ring_terminal" ELSE "loop"
  /\ UNCHANGED <<qnow, query, polled, qgate, last_seq, doorbell, reader, ghosts>>

(***************************************************************************)
(* The doorbell is rung for the terminal, and the query and its context,   *)
(* with the sending half of the doorbell, are removed.                     *)
(***************************************************************************)
RingTerminal ==
  /\ step = "ring_terminal" /\ step' = "gone" /\ doorbell' = 1
  /\ query' = None
  /\ UNCHANGED <<qnow, polled, qgate, last_seq, mailbox, reader, ghosts>>

(***************************************************************************)
(* Query::next: drain, answers before the terminal.                        *)
(***************************************************************************)
ReaderDrains ==
  /\ reader = "running"
  /\ \/ /\ mailbox.answers # <<>>
        /\ mailbox' = [mailbox EXCEPT !.answers = Tail(@)]
        /\ got' = got + 1 /\ UNCHANGED reader
     \/ /\ mailbox.answers = <<>> /\ mailbox.terminal
        /\ mailbox' = [mailbox EXCEPT !.terminal = FALSE, !.terminal_delivered = TRUE]
        /\ reader' = "ended" /\ UNCHANGED got
     \/ /\ mailbox.answers = <<>> /\ ~mailbox.terminal
        /\ reader' = "parked" /\ UNCHANGED <<mailbox, got>>
  /\ UNCHANGED <<qnow, query, polled, qgate, last_seq, step, doorbell, asked, coalesced,
                 accepted, retired>>

(***************************************************************************)
(* A token wakes the reader; a closed and empty channel ends it after one  *)
(* more look at the mailbox.                                               *)
(***************************************************************************)
ReaderWakes ==
  /\ reader = "parked"
  /\ \/ doorbell = 1 /\ doorbell' = 0 /\ reader' = "running"
     \/ /\ doorbell = 0 /\ step = "gone"
        /\ reader' = IF mailbox.answers = <<>> /\ ~mailbox.terminal THEN "ended" ELSE "running"
        /\ UNCHANGED doorbell
  /\ UNCHANGED <<qnow, query, polled, qgate, last_seq, step, mailbox, ghosts>>

(***************************************************************************)
(* The reader drops its handle.                                            *)
(***************************************************************************)
ReaderDrops ==
  /\ reader \in {"running", "parked"} /\ reader' = "dropped"
  /\ UNCHANGED <<qnow, query, polled, qgate, last_seq, step, mailbox, doorbell, ghosts>>

QTick ==
  /\ query # None /\ qnow < MaxInstant /\ qnow' = qnow + 1
  /\ UNCHANGED <<query, polled, qgate, delivering, ghosts>>

Confirms ==
  /\ polled # None
  /\ \E sockets \in [Families -> Outcomes], at \in [Families -> polled .. qnow] :
       QConfirm(sockets, at)

QNext ==
  \/ \E r \in Rdata : Answer(r)
  \/ QTimeout \/ QPoll \/ QPollFails \/ DuplicateQuestion
  \/ Confirms
  \/ PushAnswers \/ RingAnswers \/ PushTerminal \/ RingTerminal
  \/ ReaderDrains \/ ReaderWakes \/ ReaderDrops \/ QTick

QSpec == QInit /\ [][QNext]_qVars

(***************************************************************************)
(* The driver's loop keeps turning (it fires due timers, reports every     *)
(* send within SEND_ATTEMPT_TIMEOUT, and pushes updates each iteration),   *)
(* the clock advances, and a reader that was not dropped keeps reading.    *)
(***************************************************************************)
QFairSpec ==
  /\ QSpec
  /\ WF_qVars(QTick) /\ WF_qVars(QTimeout) /\ WF_qVars(QPoll) /\ WF_qVars(Confirms)
  /\ WF_qVars(PushAnswers) /\ WF_qVars(RingAnswers) /\ WF_qVars(PushTerminal)
  /\ WF_qVars(RingTerminal) /\ WF_qVars(ReaderDrains) /\ WF_qVars(ReaderWakes)

-----------------------------------------------------------------------------
(***************************************************************************)
(* A live query is never forgotten: it has a send due, a datagram out, or  *)
(* a deadline the driver will be woken at, whichever mixture of failures,  *)
(* partial hearings and suppressed duplicates it went through.  Only a     *)
(* back-off past the end of the clock may leave it with none.              *)
(***************************************************************************)
QueryNeverForgotten ==
  query # None /\ ~query.done =>
    \/ query.transmit_pending \/ polled # None \/ poll_timeout(query) # None
    \/ qnow + MAX_SECS > MaxInstant

(***************************************************************************)
(* The retry budget is spent on the wire: a query that gave up by itself   *)
(* had MAX_RETRIES + 1 of its questions heard by some link, or asked for   *)
(* it by a peer.  Failed sends never run it out.                           *)
(***************************************************************************)
BudgetSpentOnTheWire ==
  query # None /\ query.retry_count > MAX_RETRIES => asked >= MAX_RETRIES + 1

(***************************************************************************)
(* Every answer the query accepted is accounted for while its context      *)
(* lives: taken by the reader, waiting, counted dropped, replaced by its   *)
(* own newer copy, or not scanned yet.                                     *)
(***************************************************************************)
AnswersAccounted ==
  ~retired /\ reader # "dropped" =>
    got + Len(mailbox.answers) + mailbox.dropped + coalesced + (accepted - last_seq) = accepted

(***************************************************************************)
(* The query.rs:106 claim: "every loss path is observable through one      *)
(* number".  Once the driver has removed the query, what the reader took   *)
(* or can still take, plus what was coalesced and what dropped_answers     *)
(* reports, is all that was accepted.                                      *)
(***************************************************************************)
EveryLossObservable ==
  step = "gone" /\ reader # "dropped" =>
    got + Len(mailbox.answers) + mailbox.dropped + coalesced = accepted

(***************************************************************************)
(* A query given a timeout ends, and its reader, if it keeps reading, is   *)
(* told so or finds the stream closed: no order of pushing, ringing,       *)
(* draining and parking strands it.                                        *)
(***************************************************************************)
ReaderIsReleased ==
  query # None /\ query.timeout_deadline # None ~> reader \in {"ended", "dropped"}

=============================================================================
