------------------------------ MODULE Service -------------------------------
(***************************************************************************)
(* One registered service of mdns-proto (service/mod.rs): RFC 6762 section *)
(* 8 probing, announcing and refreshing, the conflicts that interrupt      *)
(* them, and the single commit token between `poll_transmit` and           *)
(* `note_transmit_outcome`, together with the two things it is driven by:  *)
(* the endpoint's conflict-flood limit and a driver that owns the sockets. *)
(*                                                                         *)
(* Names are suffix numbers: 0 is the name without a "-N" suffix, N is the *)
(* name ending in "-N".  Records are kinds: the PTRs, the SRV and TXT the  *)
(* instance name owns, the NSEC, the host's addresses.  What is left of a  *)
(* response after known-answer suppression is any of ResponseSets.         *)
(***************************************************************************)
EXTENDS Schedule, Flood, Sequences

CONSTANTS ProbeFirst, ReAnnounce,          \* the service's configuration
          CONFLICT_REPROBE_MIN_INTERVAL,   \* 1 s
          MAX_LEGACY_RESPONSES,
          ResponseWaits,                   \* response jitter (20..120, 400..500 ms)
          Kinds,                           \* record kinds the service publishes
          ResponseSets,                    \* what a response may end up containing
          InitialSuffix,                   \* the registered name
          LastSuffix,                      \* the last suffix that fits a DNS label
          Taken,                           \* suffixes the endpoint's other names hold
          Questions,                       \* kinds of question the network asks
          PeerEvents,                      \* kinds of conflict the network raises
          MaxPeerEvents,                   \* model bound on their number
          QuietFrom,                       \* the instant they stop at
          SocketOutcomes,                  \* what a fan-out may meet at the sockets
          MaxSendDelay,                    \* ticks between poll and confirm
          StrictDriver,                    \* confirm before anything else
          Prompt                           \* drain what is due before time passes

AllKinds == {"ptr", "srv", "nsec", "host"}

AllQuestions == {"mdns", "meta", "legacy", "legacy_meta"}

AllPeerEvents == {"owner", "relinquished", "proposal", "host", "sibling"}

ASSUME ServiceAssumption ==
  /\ ProbeFirst \in BOOLEAN /\ ReAnnounce \in BOOLEAN
  /\ StrictDriver \in BOOLEAN /\ Prompt \in BOOLEAN
  /\ CONFLICT_REPROBE_MIN_INTERVAL \in Nat
  /\ MAX_LEGACY_RESPONSES \in Nat
  /\ ResponseWaits \subseteq Nat
  /\ Kinds \subseteq AllKinds
  /\ ResponseSets \subseteq SUBSET Kinds
  /\ InitialSuffix \in Nat /\ LastSuffix \in Nat
  /\ Taken \subseteq Nat /\ IsFiniteSet(Taken) /\ InitialSuffix \notin Taken
  /\ Questions \subseteq AllQuestions
  /\ PeerEvents \subseteq AllPeerEvents
  /\ MaxPeerEvents \in Nat /\ QuietFrom \in Nat /\ MaxSendDelay \in Nat
  /\ SocketOutcomes \subseteq [Families -> Attempt]
  /\ {"instance", "host", "sibling"} \subseteq Owners

VARIABLES
  now,
  state, phase,              \* ServiceState and the count it carries
  lifecycle_deadline, response_deadline, meta_response_deadline,
  pending,                   \* pending_transmits, left packed, two slots
  pending_legacy,
  token,                     \* awaiting_confirm
  probe_on_wire,             \* this generation's first probe reached a link
  probe_defeated, tiebreak_lost,
  generation_advertised,
  goodbye,                   \* <<kind, family>> a goodbye must retract
  fully_announced,
  streak,                    \* partial_announce_streak
  patience, last_delivered,  \* per family
  last_conflict_reprobe, sequence_started_at,
  name, rename_attempt,
  updates,                   \* pending_updates
  retire_producer,           \* what the last TransmitConfirm told the driver
  withdrawing,               \* the route is being withdrawn
  flood, flood_eligibility,  \* the endpoint's limit; this datagram's memo
  gate,                      \* FamilyWireGate: last gated acceptance per family
  peer_events,               \* how many there have been
  wire,                      \* history: <<owner, kind, family>> peers may hold
  handed_off,                \* <<owner, kind, family>> given to the withdrawal engine
  heard, excused             \* history: probes heard per family, families given up on

clocks  == <<lifecycle_deadline, response_deadline, meta_response_deadline>>
queues  == <<pending, pending_legacy, token>>
verdict == <<probe_on_wire, probe_defeated, tiebreak_lost, generation_advertised>>
claims  == <<goodbye, fully_announced, handed_off>>
pacing  == <<streak, patience, last_delivered>>
naming  == <<name, rename_attempt>>
limit   == <<flood, flood_eligibility>>
history == <<wire, heard, excused>>

vars == <<now, state, phase, clocks, queues, verdict, claims, pacing,
          last_conflict_reprobe, sequence_started_at, naming, updates,
          retire_producer, withdrawing, limit, gate, peer_events, history>>

-----------------------------------------------------------------------------
(* State predicates.                                                       *)

NoToken == [kind |-> "None", records |-> {}, old |-> FALSE, name |-> 0, since |-> 0]

NewToken(kind, records) ==
  [kind |-> kind, records |-> records, old |-> FALSE, name |-> name, since |-> now]

(***************************************************************************)
(* conflict_classified_unresolved                                          *)
(***************************************************************************)
Classified == probe_defeated \/ tiebreak_lost

Startup == state \in {"Init", "Probing"}

PreauthoritativeInFlight ==
  Startup \/ (state = "Announcing" /\ phase = 0 /\ ~generation_advertised)

is_preauthoritative ==
  \/ Startup
  \/ /\ state = "Announcing" /\ phase = 0
     /\ ~generation_advertised
     /\ token = NoToken

startup_parked ==
  /\ lifecycle_deadline = None
  /\ pending = <<>>
  /\ token = NoToken
  /\ ~probe_on_wire
  /\ Startup

(***************************************************************************)
(* poll_timeout; a wakeup owed at once is one at `now`.                    *)
(***************************************************************************)
poll_timeout ==
  IF pending_legacy # <<>> \/ Classified \/ startup_parked THEN now
  ELSE EarlierOf(lifecycle_deadline, EarlierOf(response_deadline, meta_response_deadline))

Pollable ==
  /\ token = NoToken /\ ~withdrawing
  /\ \/ Due(meta_response_deadline, now)
     \/ ~Classified /\ (pending # <<>> \/ pending_legacy # <<>>)

(***************************************************************************)
(* The datagram being received has been handled to its end.                *)
(***************************************************************************)
Quiet == flood_eligibility = "none" /\ flood.accepted = {}

(***************************************************************************)
(* The endpoint and the driver leave a withdrawing service alone, and a    *)
(* driver that keeps the contract confirms a datagram before anything else.*)
(***************************************************************************)
Serviceable ==
  /\ ~withdrawing
  /\ ~retire_producer
  /\ StrictDriver => token = NoToken

-----------------------------------------------------------------------------
(* The conflict-flood floor.                                               *)

backoff_floor(f, started) ==
  LET epoch == latch_epoch(f, now)
  IN checked_add(IF epoch # None /\ epoch > started THEN epoch ELSE started,
                 CONFLICT_BACKOFF_MIN_WAIT)

apply_backoff_floor(f, started, deadline) ==
  LET floor == backoff_floor(f, started)
  IN IF ~in_force(f, now) THEN deadline
     ELSE IF floor = None THEN None
     ELSE IF deadline = None THEN floor ELSE Later(deadline, floor)

-----------------------------------------------------------------------------
(***************************************************************************)
(* try_new, and the endpoint's empty flood.                                *)
(***************************************************************************)
Init ==
  /\ now = 0
  /\ state = IF ProbeFirst THEN "Init" ELSE "Announcing"
  /\ phase = 0
  /\ lifecycle_deadline \in IF ProbeFirst THEN probe_deadlines(0, 0)
                            ELSE {announce_deadline(0, 0)}
  /\ response_deadline = None /\ meta_response_deadline = None
  /\ pending = <<>> /\ pending_legacy = <<>> /\ token = NoToken
  /\ probe_on_wire = FALSE /\ probe_defeated = FALSE
  /\ tiebreak_lost = FALSE /\ generation_advertised = FALSE
  /\ goodbye = {} /\ fully_announced = FALSE /\ handed_off = {}
  /\ streak = 0
  /\ patience = [f \in Families |-> FreshPatience]
  /\ last_delivered = [f \in Families |-> None]
  /\ last_conflict_reprobe = None
  /\ sequence_started_at = 0
  /\ name = InitialSuffix /\ rename_attempt = 0
  /\ updates = {}
  /\ retire_producer = FALSE /\ withdrawing = FALSE
  /\ flood = NewFlood /\ flood_eligibility = "none"
  /\ gate = [f \in Families |-> None]
  /\ peer_events = 0
  /\ wire = {}
  /\ heard = [f \in Families |-> IF ProbeFirst THEN 0 ELSE 3]
  /\ excused = {}

-----------------------------------------------------------------------------
(* A generation of probing ends and the next begins.                       *)

(***************************************************************************)
(* stale_live_commit_token: a datagram already handed out no longer moves  *)
(* the lifecycle, but what it puts on the wire is still ours to retract,   *)
(* under the old name when the service has moved off it.                   *)
(***************************************************************************)
stale_live_commit_token(renamed) ==
  token' = [kind |-> CASE token.kind = "Probe" -> "StaleProbe"
                       [] token.kind = "Announcement" -> "StaleAnnouncement"
                       [] token.kind = "Response" -> "StaleResponse"
                       [] OTHER -> token.kind,
            old |-> token.old \/ (renamed /\ token.records # {}),
            records |-> token.records, name |-> token.name, since |-> token.since]

clear_response_cycle_state ==
  /\ pending_legacy' = <<>>
  /\ meta_response_deadline' = None

ForgetProbes ==
  /\ heard' = [f \in Families |-> 0]
  /\ excused' = {}

RestartKeepsQueue(base, renamed, f) ==
  /\ stale_live_commit_token(renamed)
  /\ state' = "Init" /\ phase' = 0
  /\ probe_on_wire' = FALSE
  /\ probe_defeated' = FALSE /\ tiebreak_lost' = FALSE
  /\ generation_advertised' = FALSE
  /\ pending' = pending
  /\ response_deadline' = None
  /\ patience' = [g \in Families |-> FreshPatience]
  /\ clear_response_cycle_state
  /\ sequence_started_at' = now
  /\ lifecycle_deadline' = apply_backoff_floor(f, now, base)
  /\ ForgetProbes

restart_probe_cycle(base, renamed, f) ==
  /\ stale_live_commit_token(renamed)
  /\ state' = "Init" /\ phase' = 0
  /\ probe_on_wire' = FALSE
  /\ probe_defeated' = FALSE /\ tiebreak_lost' = FALSE
  /\ generation_advertised' = FALSE
  /\ pending' = <<>>
  /\ response_deadline' = None
  /\ patience' = [g \in Families |-> FreshPatience]
  /\ clear_response_cycle_state
  /\ sequence_started_at' = now
  /\ lifecycle_deadline' = apply_backoff_floor(f, now, base)
  /\ ForgetProbes

InstanceKinds == AllKinds \ {"host"}

Owner(kind, n) == IF kind = "host" THEN 0 ELSE n

(***************************************************************************)
(* Goodbyes for the instance's records of the name being left.             *)
(***************************************************************************)
RenameHandoff == {<<name, g[1], g[2]>> : g \in {h \in goodbye : h[1] \in InstanceKinds}}

ResetInstance == {g \in goodbye : g[1] = "host"}

(***************************************************************************)
(* The rename loop: at most one attempt more than there are names taken.   *)
(***************************************************************************)
Candidates == {a \in rename_attempt + 1 .. rename_attempt + 1 + Cardinality(Taken) :
                 a \notin Taken \/ a > LastSuffix}

Chosen == CHOOSE a \in Candidates : \A b \in Candidates : a <= b

-----------------------------------------------------------------------------
(* handle_timeout                                                          *)

(***************************************************************************)
(* A lost simultaneous-probe tiebreak: wait a second, probe the same name. *)
(***************************************************************************)
DeferAfterTiebreak ==
  /\ tiebreak_lost /\ ~probe_defeated
  /\ restart_probe_cycle(checked_add(now, TIEBREAK_DEFER_WAIT), FALSE, flood)
  /\ UNCHANGED <<claims, streak, last_delivered, naming, updates>>

(***************************************************************************)
(* Another host owns the name: hand the goodbyes for it over and move on   *)
(* to the next free suffix.                                                *)
(***************************************************************************)
Rename ==
  /\ probe_defeated
  /\ Chosen <= LastSuffix
  /\ \E base \in probe_deadlines(now, 0) : restart_probe_cycle(base, TRUE, flood)
  /\ handed_off' = handed_off \cup RenameHandoff
  /\ rename_attempt' = Chosen
  /\ name' = Chosen
  /\ updates' = updates \cup {"Renamed"}
  /\ goodbye' = ResetInstance
  /\ fully_announced' = FALSE
  /\ streak' = 0
  /\ last_delivered' = [f \in Families |-> None]

(***************************************************************************)
(* No suffix fits: the service is terminally in conflict.                  *)
(***************************************************************************)
GiveUpName ==
  /\ probe_defeated
  /\ Chosen > LastSuffix
  /\ handed_off' = handed_off \cup RenameHandoff
  /\ rename_attempt' = Chosen
  /\ probe_defeated' = FALSE /\ tiebreak_lost' = FALSE
  /\ stale_live_commit_token(TRUE)
  /\ state' = "Conflicting" /\ phase' = 0
  /\ updates' = updates \cup {"Conflict"}
  /\ lifecycle_deadline' = None
  /\ pending' = <<>>
  /\ response_deadline' = None
  /\ goodbye' = ResetInstance
  /\ fully_announced' = FALSE
  /\ streak' = 0
  /\ clear_response_cycle_state
  /\ UNCHANGED <<name, probe_on_wire, generation_advertised, patience, last_delivered,
                 sequence_started_at, heard, excused>>

(***************************************************************************)
(* push_pending: a full queue drops the entry.                             *)
(***************************************************************************)
push_pending(q, kind) == IF Len(q) < 2 THEN Append(q, kind) ELSE q

push_lifecycle_pending(q, kind) == IF token = NoToken THEN push_pending(q, kind) ELSE q

(***************************************************************************)
(* The lifecycle deadline handle_timeout decides with: a parked startup is *)
(* re-armed, and a first probe waits out the flood.                        *)
(***************************************************************************)
DeadlinesToFire ==
  IF startup_parked
  THEN {apply_backoff_floor(flood, sequence_started_at, base) : base \in probe_deadlines(now, 0)}
  ELSE {lifecycle_deadline}

FloorFirstProbe(deadline) ==
  LET floor == backoff_floor(flood, sequence_started_at)
  IN IF ~probe_on_wire /\ Startup /\ Due(deadline, now) /\ in_force(flood, now)
       THEN IF floor = None \/ floor > now THEN floor ELSE deadline
     ELSE deadline

(***************************************************************************)
(* A response whose delay is over queues behind the lifecycle transmit.    *)
(***************************************************************************)
ThenResponse(q) == IF Due(response_deadline, now) THEN push_pending(q, "Response") ELSE q

(***************************************************************************)
(* The lifecycle deadline is due: what each state does about it.           *)
(***************************************************************************)
FireLifecycle ==
  \/ /\ state = "Init"
     /\ state' = "Probing" /\ phase' = 0
     /\ lifecycle_deadline' \in probe_deadlines(now, 0)
     /\ pending' = ThenResponse(pending)
  \/ /\ state = "Probing" /\ phase >= 3
     /\ state' = "Announcing" /\ phase' = 0
     /\ lifecycle_deadline' = announce_deadline(now, 0)
     /\ pending' = ThenResponse(pending)
  \/ /\ state = "Probing" /\ phase < 3
     /\ pending' = ThenResponse(push_lifecycle_pending(pending, "Probe"))
     /\ lifecycle_deadline' \in probe_deadlines(now, phase)
     /\ UNCHANGED <<state, phase>>
  \/ /\ state = "Announcing"
     /\ pending' = ThenResponse(push_lifecycle_pending(pending, "Announcement"))
     /\ lifecycle_deadline' = announce_deadline(now, 1)
     /\ UNCHANGED <<state, phase>>
  \/ /\ state = "Established"
     /\ pending' = ThenResponse(push_lifecycle_pending(pending, "Announcement"))
     /\ lifecycle_deadline' = re_announce_deadline(now)
     /\ UNCHANGED <<state, phase>>

FireTimers ==
  /\ ~Classified
  /\ response_deadline' = IF Due(response_deadline, now) THEN None ELSE response_deadline
  /\ \E d \in DeadlinesToFire :
       \/ /\ Due(FloorFirstProbe(d), now)
          /\ FireLifecycle
       \/ /\ ~Due(FloorFirstProbe(d), now)
          /\ lifecycle_deadline' = FloorFirstProbe(d)
          /\ pending' = ThenResponse(pending)
          /\ UNCHANGED <<state, phase>>
  /\ UNCHANGED <<meta_response_deadline, pending_legacy, token, verdict, claims, pacing,
                 sequence_started_at, naming, updates, heard, excused>>

HandleTimeout ==
  /\ Serviceable /\ Quiet
  /\ Prompt => ~Pollable
  /\ DeferAfterTiebreak \/ Rename \/ GiveUpName \/ FireTimers
  /\ UNCHANGED <<now, last_conflict_reprobe, retire_producer, withdrawing, limit, gate,
                 peer_events, wire>>

-----------------------------------------------------------------------------
(* poll_transmit                                                           *)

NeverHeld == FALSE

(***************************************************************************)
(* defer_first_probe_under_flood, run before every poll: the head of the   *)
(* queue is dropped when it is a first probe whose flood floor is ahead.   *)
(***************************************************************************)
FirstProbeHeld ==
  LET floor == backoff_floor(flood, sequence_started_at)
  IN /\ pending # <<>> /\ Head(pending) = "Probe"
     /\ ~probe_on_wire
     /\ in_force(flood, now)
     /\ floor = None \/ floor > now

Queue == IF FirstProbeHeld THEN Tail(pending) ELSE pending

DeferFirstProbe ==
  LET floor == backoff_floor(flood, sequence_started_at)
  IN lifecycle_deadline' = IF FirstProbeHeld /\ floor # None THEN floor ELSE lifecycle_deadline

(***************************************************************************)
(* EmittedRecords::is_empty does not look at the NSEC.                     *)
(***************************************************************************)
IsEmpty(records) == records \subseteq {"nsec"}

EmitMeta ==
  /\ Due(meta_response_deadline, now)
  /\ meta_response_deadline' = None
  /\ token' = NewToken("Meta", {})
  /\ pending' = Queue
  /\ UNCHANGED pending_legacy

(***************************************************************************)
(* A due meta response the querier already knows is dropped, and the poll  *)
(* goes on to the other queues.                                            *)
(***************************************************************************)
MetaDropped ==
  meta_response_deadline' = IF Due(meta_response_deadline, now) THEN None
                            ELSE meta_response_deadline

EmitLegacy ==
  /\ MetaDropped
  /\ pending_legacy # <<>> /\ ~Classified
  /\ pending_legacy' = Tail(pending_legacy)
  /\ \/ Head(pending_legacy) = "legacy_meta" /\ token' = NewToken("Meta", {})
     \/ /\ Head(pending_legacy) = "legacy"
        /\ \E records \in ResponseSets :
             token' = NewToken("Response", records \ {"nsec"})
  /\ pending' = Queue

(***************************************************************************)
(* The head of the queue, unless its generation is under adjudication.     *)
(***************************************************************************)
EmitPending ==
  /\ MetaDropped
  /\ pending_legacy = <<>> /\ ~Classified
  /\ Queue # <<>>
  /\ pending' = Tail(Queue)
  /\ \/ Head(Queue) = "Probe" /\ token' = NewToken("Probe", {})
     \/ /\ Head(Queue) = "Announcement"
        /\ \E records \in {Kinds, Kinds \ {"nsec"}} : token' = NewToken("Announcement", records)
     \/ /\ Head(Queue) = "Response"
        /\ \E records \in ResponseSets \cup {{}} :
             token' = IF IsEmpty(records) THEN NoToken ELSE NewToken("Response", records)
  /\ UNCHANGED pending_legacy

EmitNothing ==
  /\ MetaDropped
  /\ Classified \/ (pending_legacy = <<>> /\ Queue = <<>>)
  /\ pending' = Queue
  /\ UNCHANGED <<pending_legacy, token>>

PollTransmit ==
  /\ Serviceable /\ Quiet
  /\ token = NoToken
  /\ DeferFirstProbe
  /\ EmitMeta \/ EmitLegacy \/ EmitPending \/ EmitNothing
  /\ UNCHANGED <<now, state, phase, response_deadline, verdict, claims, pacing,
                 last_conflict_reprobe, sequence_started_at, naming, updates,
                 retire_producer, withdrawing, limit, gate, peer_events, history>>

-----------------------------------------------------------------------------
(* note_transmit_outcome                                                   *)

(***************************************************************************)
(* AwaitingConfirm::min_family_gap                                         *)
(***************************************************************************)
min_family_gap == CASE token.kind = "Probe" -> PROBE_INTERVAL
                    [] token.kind = "Announcement" -> ANNOUNCE_INTERVAL
                    [] OTHER -> 0

(***************************************************************************)
(* FamilyWireGate::open, asked at the instant the family is offered the    *)
(* datagram; a family without a socket is not asked.                       *)
(***************************************************************************)
GateOpen(f, at) == min_family_gap = 0 \/ gate[f] = None \/ at - gate[f] >= min_family_gap

AttemptsAt(sockets, offered) ==
  [f \in Families |-> IF sockets[f] # "no_socket" /\ ~GateOpen(f, offered[f])
                      THEN "gate_shut" ELSE sockets[f]]

(***************************************************************************)
(* FamilyAttempt::anchor: the earliest acceptance, else the time of report.*)
(***************************************************************************)
Anchor(attempts, offered) ==
  LET accepted == {offered[f] : f \in Delivered(attempts)}
  IN IF accepted = {} THEN now ELSE CHOOSE t \in accepted : \A u \in accepted : t <= u

Exposed(records, attempts) == records \X Delivered(attempts)

AnnounceAtOnce(t, advance) == announce_deadline(t, 0)

(***************************************************************************)
(* A round of probing: three that advance, then the settling window.       *)
(***************************************************************************)
SettledAnnounce(t, advance) ==
  LET base == IF advance # "Delivered" /\ streak > 0 THEN partial_announce_deadline(t, streak)
              ELSE announce_deadline(t, 0)
      settled == checked_add(t, PROBE_INTERVAL)
  IN IF settled = None THEN base
     ELSE IF base = None THEN settled ELSE Later(base, settled)

ConfirmProbe(t, attempts) ==
  LET advance == AdvanceOf(patience, attempts)
  IN /\ token.kind = "Probe"
     /\ probe_on_wire' = (probe_on_wire \/ Delivered(attempts) # {})
     /\ \/ /\ state = "Probing" /\ ~Advances(advance)
           /\ patience' = PatienceAfter(patience, attempts)
           /\ lifecycle_deadline' = probe_retry_deadline(t)
           /\ UNCHANGED <<phase, streak>>
        \/ /\ state = "Probing" /\ Advances(advance) /\ phase >= 2
           /\ patience' = PatienceAfter(patience, attempts)
           /\ phase' = 3
           /\ streak' = IF advance = "Delivered" THEN 0 ELSE streak
           /\ lifecycle_deadline' = SettledAnnounce(t, advance)
        \/ /\ state = "Probing" /\ Advances(advance) /\ phase < 2
           /\ patience' = PatienceAfter(patience, attempts)
           /\ phase' = phase + 1
           /\ lifecycle_deadline' \in probe_deadlines(t, phase + 1)
           /\ UNCHANGED streak
        \/ /\ state # "Probing"
           /\ UNCHANGED <<patience, phase, streak, lifecycle_deadline>>
     /\ heard' = [f \in Families |-> IF f \in Delivered(attempts) /\ heard[f] < 3
                                     THEN heard[f] + 1 ELSE heard[f]]
     /\ excused' = excused \cup Unobligated(attempts)
                     \cup {f \in Missed(attempts) : Advances(advance) /\ ~patience[f].covered}
     /\ UNCHANGED <<state, generation_advertised, goodbye, fully_announced, handed_off,
                    last_delivered, updates>>

(***************************************************************************)
(* classify_announcement: when each family was last refreshed.  A family   *)
(* that missed is dated from its first miss.                               *)
(***************************************************************************)
LastDelivered(t, attempts) ==
  [f \in Families |-> IF f \in Unobligated(attempts) THEN None
                      ELSE IF f \in Delivered(attempts) \/ last_delivered[f] = None THEN t
                      ELSE last_delivered[f]]

(***************************************************************************)
(* arm_announcement, from the state the confirm has led to.                *)
(***************************************************************************)
arm_announcement(t, st, advance, rung, armed, delivered, pat) ==
  LET onLadder == advance = "Partial" \/ (advance \in {"Covered", "Excused"} /\ rung > 0)
      base == IF st = "Established" THEN re_announce_deadline(t)
              ELSE IF onLadder THEN partial_announce_deadline(t, rung) ELSE armed
  IN IF st = "Established" /\ ~ReAnnounce THEN None
     ELSE IF st \notin {"Established", "Announcing"} THEN armed
     ELSE compose_announce_deadline(t, base, stalest_refresh_due(delivered, pat))

AnnouncementHeard(t, attempts, advance) ==
  LET st  == IF state = "Announcing" /\ phase >= 1 /\ Advances(advance) THEN "Established"
             ELSE state
      armed == IF state = "Announcing" /\ phase = 0 /\ Advances(advance)
               THEN announce_deadline(t, 1) ELSE lifecycle_deadline
      rung  == IF advance = "Delivered" THEN 0 ELSE streak
  IN /\ state' = st
     /\ phase' = IF st = "Established" THEN 0
                 ELSE IF state = "Announcing" /\ Advances(advance) THEN phase + 1 ELSE phase
     /\ updates' = IF st # state THEN updates \cup {"Established"} ELSE updates
     /\ fully_announced' = (fully_announced \/ advance = "Delivered")
     /\ streak' = IF advance = "Delivered" THEN 0 ELSE NextRung(streak)
     /\ lifecycle_deadline' = arm_announcement(t, st, advance, rung, armed,
                                LastDelivered(t, attempts), PatienceAfter(patience, attempts))
     /\ goodbye' = goodbye \cup Exposed(token.records, attempts)
     /\ generation_advertised' = (generation_advertised \/ "srv" \in token.records)

AnnouncementFailed(t) ==
  /\ lifecycle_deadline' = IF state \in {"Announcing", "Established"}
                           THEN announce_deadline(t, 1) ELSE lifecycle_deadline
  /\ UNCHANGED <<state, phase, updates, fully_announced, streak, goodbye, generation_advertised>>

ConfirmAnnouncement(t, attempts) ==
  LET advance == AdvanceOf(patience, attempts)
  IN /\ token.kind = "Announcement"
     /\ patience' = PatienceAfter(patience, attempts)
     /\ last_delivered' = LastDelivered(t, attempts)
     /\ \/ advance = "Failed" /\ AnnouncementFailed(t)
        \/ advance # "Failed" /\ AnnouncementHeard(t, attempts, advance)
     /\ UNCHANGED <<probe_on_wire, handed_off, heard, excused>>

ConfirmResponse(attempts) ==
  /\ token.kind = "Response"
  /\ goodbye' = goodbye \cup Exposed(token.records, attempts)
  /\ generation_advertised' =
       (generation_advertised \/ (Delivered(attempts) # {} /\ "srv" \in token.records))
  /\ UNCHANGED <<state, phase, lifecycle_deadline, probe_on_wire, fully_announced, handed_off,
                 pacing, updates, heard, excused>>

StaleConfirmForgotten(attempts) ==
  /\ token.kind \in {"StaleProbe", "StaleAnnouncement", "StaleResponse", "Meta"}
  /\ UNCHANGED <<state, phase, lifecycle_deadline, probe_on_wire, generation_advertised, goodbye,
                 fully_announced, handed_off, pacing, heard, excused, updates>>

(***************************************************************************)
(* A datagram of an abandoned generation: its records are owed a goodbye,  *)
(* under the name it was encoded with.                                     *)
(***************************************************************************)
ConfirmStale(attempts) ==
  LET instance == token.records \ {"host"}
      exposed  == Exposed(token.records, attempts)
      hosts    == {g \in exposed : g[1] = "host"}
  IN /\ token.kind \in {"StaleProbe", "StaleAnnouncement", "StaleResponse", "Meta"}
     /\ goodbye' = goodbye \cup IF token.old THEN hosts ELSE exposed
     /\ handed_off' = IF token.old /\ ~IsEmpty(instance)
                      THEN handed_off \cup {<<token.name, g[1], g[2]>> : g \in exposed \ hosts}
                      ELSE handed_off
     /\ UNCHANGED <<state, phase, lifecycle_deadline, probe_on_wire, generation_advertised,
                    fully_announced, pacing, heard, excused, updates>>

(***************************************************************************)
(* The driver offers the datagram to each family at an instant since the   *)
(* poll, and reports.  `undeliverable` on a datagram that would be sent    *)
(* again tells it to retire the service.                                   *)
(***************************************************************************)
Sustained == token.kind \in {"Probe", "Announcement", "StaleProbe", "StaleAnnouncement"}

Confirm(sockets, offered) ==
  LET attempts == AttemptsAt(sockets, offered)
      t == Anchor(attempts, offered)
  IN /\ ~withdrawing /\ Quiet
     /\ token # NoToken
     /\ token' = NoToken
     /\ \/ ConfirmProbe(t, attempts)
        \/ ConfirmAnnouncement(t, attempts)
        \/ ConfirmResponse(attempts)
        \/ ConfirmStale(attempts)
     /\ retire_producer' = (Sustained /\ undeliverable(attempts))
     /\ gate' = [f \in Families |-> IF f \in Delivered(attempts) /\ min_family_gap > 0
                                    THEN now ELSE gate[f]]
     /\ wire' = wire \cup {<<Owner(e[1], token.name), e[1], e[2]>> :
                             e \in token.records \X Delivered(attempts)}
     /\ UNCHANGED <<now, response_deadline, meta_response_deadline, pending, pending_legacy,
                    probe_defeated, tiebreak_lost, last_conflict_reprobe, sequence_started_at,
                    naming, withdrawing, limit, peer_events>>

-----------------------------------------------------------------------------
(* handle_event: what a received datagram says about the service's names.  *)
(* A record identical to ours, of a type we do not publish there, or that  *)
(* will not decode changes nothing and is not an event here.               *)

PeerEvent(kind) ==
  /\ kind \in PeerEvents
  /\ peer_events < MaxPeerEvents /\ now < QuietFrom
  /\ peer_events' = peer_events + 1
  /\ Serviceable

(***************************************************************************)
(* flood_eligible: decided by the first event of a datagram, for all.      *)
(***************************************************************************)
flood_eligible ==
  IF flood_eligibility = "none" THEN (IF probe_on_wire THEN "yes" ELSE "no")
  ELSE flood_eligibility

AcceptIfEligible(owner) ==
  flood' = IF flood_eligible = "yes" THEN accept(flood, now, FALSE, owner) ELSE flood

(***************************************************************************)
(* A conflicting response for the name before it is ours: an existing      *)
(* owner defeats the probe; rdata this endpoint itself relinquished a      *)
(* moment ago only defers it.  Nothing counts before the first probe.      *)
(***************************************************************************)
handle_preauthoritative_conflict(relinquished) ==
  /\ is_preauthoritative
  /\ AcceptIfEligible("instance")
  /\ tiebreak_lost' = (tiebreak_lost \/ (probe_on_wire /\ relinquished))
  /\ probe_defeated' = (probe_defeated \/ (probe_on_wire /\ ~relinquished))
  /\ IF probe_on_wire THEN ForgetProbes ELSE UNCHANGED <<heard, excused>>
  /\ UNCHANGED <<state, phase, clocks, queues, probe_on_wire, generation_advertised, patience,
                 last_conflict_reprobe, sequence_started_at>>

(***************************************************************************)
(* Section 9: a conflict over a claimed name reverts to probing it, at     *)
(* most once per CONFLICT_REPROBE_MIN_INTERVAL.                            *)
(***************************************************************************)
RecentlyReprobed ==
  /\ last_conflict_reprobe # None
  /\ now - last_conflict_reprobe < CONFLICT_REPROBE_MIN_INTERVAL

RevertToProbing ==
  /\ ~is_preauthoritative
  /\ state \in {"Announcing", "Established"}
  /\ flood' = accept(flood, now, FALSE, "instance")
  /\ \/ /\ RecentlyReprobed
        /\ UNCHANGED <<state, phase, clocks, queues, verdict, patience, heard, excused,
                       last_conflict_reprobe, sequence_started_at>>
     \/ /\ ~RecentlyReprobed
        /\ last_conflict_reprobe' = now
        /\ \E base \in probe_deadlines(now, 0) : restart_probe_cycle(base, FALSE, flood')

ProbeConflict(relinquished) ==
  /\ PeerEvent(IF relinquished THEN "relinquished" ELSE "owner")
  /\ flood_eligibility' = flood_eligible
  /\ handle_preauthoritative_conflict(relinquished) \/ RevertToProbing
  /\ UNCHANGED <<now, claims, streak, last_delivered, naming, updates, retire_producer,
                 withdrawing, gate, wire>>

(***************************************************************************)
(* A simultaneous probe whose proposal sorts above ours (section 8.2).     *)
(***************************************************************************)
LoseTiebreak ==
  /\ PeerEvent("proposal")
  /\ is_preauthoritative
  /\ flood_eligibility' = flood_eligible
  /\ flood' = accept(flood, now, FALSE, "instance")
  /\ tiebreak_lost' = TRUE
  /\ ForgetProbes
  /\ UNCHANGED <<now, state, phase, clocks, queues, probe_on_wire, probe_defeated,
                 generation_advertised, claims, pacing, last_conflict_reprobe,
                 sequence_started_at, naming, updates, retire_producer, withdrawing, gate, wire>>

(***************************************************************************)
(* A peer answers for our host name with other addresses.                  *)
(***************************************************************************)
HostConflict ==
  /\ PeerEvent("host")
  /\ flood_eligibility' = flood_eligible
  /\ AcceptIfEligible("host")
  /\ updates' = updates \cup {"HostConflict"}
  /\ UNCHANGED <<now, state, phase, clocks, queues, verdict, claims, pacing,
                 last_conflict_reprobe, sequence_started_at, naming, retire_producer,
                 withdrawing, gate, history>>

(***************************************************************************)
(* A conflict of another service of the endpoint: the limit is host-wide.  *)
(***************************************************************************)
SiblingConflict ==
  /\ PeerEvent("sibling")
  /\ flood' = accept(flood, now, FALSE, "sibling")
  /\ UNCHANGED <<now, state, phase, clocks, queues, verdict, claims, pacing,
                 last_conflict_reprobe, sequence_started_at, naming, updates,
                 retire_producer, withdrawing, flood_eligibility, gate, history>>

(***************************************************************************)
(* Endpoint::handle is done with the datagram; the next has a new id.      *)
(***************************************************************************)
EndOfDatagram ==
  /\ ~Quiet
  /\ flood_eligibility' = "none"
  /\ flood' = [flood EXCEPT !.accepted = {}]
  /\ UNCHANGED <<now, state, phase, clocks, queues, verdict, claims, pacing,
                 last_conflict_reprobe, sequence_started_at, naming, updates,
                 retire_producer, withdrawing, gate, peer_events, history>>

(***************************************************************************)
(* A question: answered after a jitter with an earlier deadline kept, or   *)
(* at once to a legacy querier while there is room.                        *)
(***************************************************************************)
Question(kind) ==
  /\ kind \in Questions
  /\ Serviceable /\ Quiet
  /\ state \in {"Announcing", "Established"}
  /\ \/ /\ kind = "mdns"
        /\ \E w \in ResponseWaits :
             response_deadline' = EarlierOf(response_deadline, checked_add(now, w))
        /\ UNCHANGED <<meta_response_deadline, pending_legacy>>
     \/ /\ kind = "meta"
        /\ \E w \in ResponseWaits :
             meta_response_deadline' = EarlierOf(meta_response_deadline, checked_add(now, w))
        /\ UNCHANGED <<response_deadline, pending_legacy>>
     \/ /\ kind \in {"legacy", "legacy_meta"}
        /\ Len(pending_legacy) < MAX_LEGACY_RESPONSES
        /\ pending_legacy' = Append(pending_legacy, kind)
        /\ UNCHANGED <<response_deadline, meta_response_deadline>>
  /\ UNCHANGED <<now, state, phase, lifecycle_deadline, pending, token, verdict, claims, pacing,
                 last_conflict_reprobe, sequence_started_at, naming, updates, retire_producer,
                 withdrawing, limit, gate, peer_events, history>>

-----------------------------------------------------------------------------
(* Withdrawal and updates.                                                 *)

(***************************************************************************)
(* unregister_service: snapshot what is owed a goodbye, then quiesce.      *)
(***************************************************************************)
Withdraw ==
  /\ withdrawing' = TRUE
  /\ handed_off' = handed_off \cup {<<Owner(g[1], name), g[1], g[2]>> : g \in goodbye}
  /\ pending' = <<>>
  /\ lifecycle_deadline' = None /\ response_deadline' = None
  /\ clear_response_cycle_state
  /\ UNCHANGED <<now, state, phase, token, verdict, goodbye, fully_announced, pacing,
                 last_conflict_reprobe, sequence_started_at, naming, retire_producer, limit,
                 gate, peer_events, history>>

Unregister ==
  /\ ~withdrawing /\ Quiet
  /\ token = NoToken
  /\ Withdraw
  /\ UNCHANGED updates

(***************************************************************************)
(* The driver hands an update to the application; a conflict it cannot     *)
(* outlive retires the service.                                            *)
(***************************************************************************)
PollUpdate(u) ==
  /\ Serviceable /\ Quiet
  /\ token = NoToken
  /\ u \in updates
  /\ updates' = updates \ {u}
  /\ \/ u \in {"Conflict", "HostConflict"} /\ Withdraw
     \/ /\ u \notin {"Conflict", "HostConflict"}
        /\ UNCHANGED <<now, state, phase, clocks, queues, verdict, claims, pacing,
                       last_conflict_reprobe, sequence_started_at, naming, retire_producer,
                       withdrawing, limit, gate, peer_events, history>>

(***************************************************************************)
(* Time passes, until the service is withdrawn; a prompt driver lets none  *)
(* pass while something is due.                                            *)
(***************************************************************************)
Tick ==
  /\ now < MaxInstant
  /\ Quiet /\ ~withdrawing
  /\ token # NoToken => now - token.since < MaxSendDelay
  /\ Prompt => token # NoToken \/ (~Pollable /\ ~Due(poll_timeout, now) /\ updates = {})
  /\ now' = now + 1
  /\ UNCHANGED <<state, phase, clocks, queues, verdict, claims, pacing, last_conflict_reprobe,
                 sequence_started_at, naming, updates, retire_producer, withdrawing, limit,
                 gate, peer_events, history>>

Offers == [Families -> token.since .. now]

Next ==
  \/ HandleTimeout
  \/ PollTransmit
  \/ \E sockets \in SocketOutcomes : \E offered \in Offers : Confirm(sockets, offered)
  \/ \E relinquished \in BOOLEAN : ProbeConflict(relinquished)
  \/ LoseTiebreak
  \/ HostConflict
  \/ SiblingConflict
  \/ EndOfDatagram
  \/ \E kind \in AllQuestions : Question(kind)
  \/ Unregister
  \/ \E u \in {"Established", "Renamed", "Conflict", "HostConflict"} : PollUpdate(u)
  \/ Tick

Spec == Init /\ [][Next]_vars

(***************************************************************************)
(* A driver's loop keeps calling, and time passes.                         *)
(***************************************************************************)
FairSpec ==
  /\ Spec
  /\ WF_vars(HandleTimeout)
  /\ WF_vars(PollTransmit)
  /\ WF_vars(\E sockets \in SocketOutcomes : \E offered \in Offers : Confirm(sockets, offered))
  /\ WF_vars(EndOfDatagram)
  /\ WF_vars(\E u \in {"Established", "Renamed", "Conflict", "HostConflict"} : PollUpdate(u))
  /\ WF_vars(Tick)

-----------------------------------------------------------------------------
(* Properties.                                                             *)

States == {"Init", "Probing", "Announcing", "Established", "Conflicting"}

TokenKinds == {"None", "Probe", "Announcement", "Response", "Meta", "StaleProbe",
               "StaleAnnouncement", "StaleResponse"}

Claiming == token = NoToken /\ token'.kind \in {"Announcement", "Response"}

(* `poll_transmit` hands out no datagram that claims the name until every  *)
(* family has heard three probes of this generation, except one given up   *)
(* on after MAX_PARTIAL_ROUNDS misses or without a socket; and none at all *)
(* between a conflict and the new probing it causes.                       *)
ClaimsWaitForProbes ==
  [][Claiming => \A f \in Families : heard[f] = 3 \/ f \in excused]_vars

(* Announcing begins only when the section 8.1 settling window has passed  *)
(* since the last probe on every family, retries and leftovers included,   *)
(* wherever the clock can express that window.                             *)
SettlingWindow ==
  [][(state = "Probing" /\ state' = "Announcing") =>
        LET probed == {f \in Families : gate[f] # None}
        IN (\A f \in probed : gate[f] + PROBE_INTERVAL <= MaxInstant)
             => \A f \in probed : now - gate[f] >= PROBE_INTERVAL]_vars

Retractable ==
  handed_off \cup {<<Owner(g[1], name), g[1], g[2]>> : g \in goodbye}

(* What a goodbye will retract is what peers may hold, record by record    *)
(* and family by family, through renames, conflicts and datagrams that are *)
(* confirmed late: nothing is left behind and nothing else is flushed.     *)
(* (An NSEC is handed over with the rest; the withdrawal engine keeps its  *)
(* identity to recognise echoes and sends no goodbye for it.)              *)
GoodbyesAreExact == wire = Retractable

(* The longest wait the service arms from its present state; a startup     *)
(* that has sent no probe is called again whatever the clock can express.  *)
LongestWait ==
  IF Startup THEN (IF probe_on_wire THEN PROBE_INTERVAL ELSE 0) ELSE RefreshWait

(* A service that still has something to do is always due to be called:    *)
(* it has a wakeup, a queued datagram or one in flight, through deferred   *)
(* probes, dropped queue entries, failed sends and reverts.  The           *)
(* exceptions are a finished service and a clock that cannot express the   *)
(* next wait.                                                              *)
NoLostWakeup ==
  (/\ ~withdrawing
   /\ state # "Conflicting" /\ ~(state = "Established" /\ ~ReAnnounce)
   /\ now + LongestWait <= MaxInstant)
  => poll_timeout # None \/ pending # <<>> \/ token # NoToken

(* Once announced, no family in good standing waits for its refresh past   *)
(* 80% of its TTL: the deadline covers the stalest one, or is at most one  *)
(* announcement interval away.                                             *)
RefreshNotLate ==
  (/\ state \in {"Announcing", "Established"} /\ ~withdrawing
   /\ lifecycle_deadline # None /\ pending = <<>> /\ token = NoToken)
  => \A f \in Families :
       (last_delivered[f] # None /\ ~patience[f].stalled)
         => lifecycle_deadline <= Later(last_delivered[f] + RefreshWait, now + ANNOUNCE_INTERVAL)

(* A conflict decides the fate of a name (`probe_defeated`, a lost         *)
(* tiebreak) only while no datagram of this generation has claimed it: a   *)
(* claimed name is defended or probed again, never simply renamed.         *)
DefeatOnlyBeforeClaim == Classified => ~generation_advertised

(* Section 8.1's flood limit at the wire: while it is in force, the first  *)
(* probe of a generation is handed out no sooner than                      *)
(* CONFLICT_BACKOFF_MIN_WAIT after the sequence and the burst began.       *)
FloodFloorHeld ==
  [][(token = NoToken /\ token'.kind = "Probe" /\ ~probe_on_wire /\ in_force(flood, now)) =>
        /\ now >= sequence_started_at + CONFLICT_BACKOFF_MIN_WAIT
        /\ now >= latch_epoch(flood, now) + CONFLICT_BACKOFF_MIN_WAIT]_vars

(* With one family that carries what it is given and peers that fall       *)
(* silent, startup ends: the service is established for good, or withdrawn *)
(* because no name was left; a flaky family, a partial round, a lost       *)
(* tiebreak or a flood in force cannot hold it back for ever.              *)
Settles == <>[](state = "Established" \/ withdrawing)

(* A rename moves the service off the name another host owns.              *)
RenameMovesOff ==
  [][(updates' # updates /\ "Renamed" \in updates') => name' # name]_vars

=============================================================================
