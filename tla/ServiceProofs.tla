--------------------------- MODULE ServiceProofs ----------------------------
(***************************************************************************)
(* TLAPS proofs about a service's startup, its goodbyes and its deadlines, *)
(* for every number of families, every socket behaviour and interleaving   *)
(* of peers. A theorem that needs the driver to confirm before anything    *)
(* else, or to poll promptly, says so.                                     *)
(***************************************************************************)
EXTENDS Service, ScheduleProofs, SequenceTheorems, TLAPS

Transmits == {"Probe", "Announcement", "Response"}

ClaimKinds == {"Announcement", "Response"}

(***************************************************************************)
(* The part of the state's types that the arguments below need.            *)
(***************************************************************************)
Shape ==
  /\ state \in States /\ phase \in 0 .. 3
  /\ heard \in [Families -> 0 .. 3] /\ excused \subseteq Families
  /\ patience \in [Families -> FamilyPatience]
  /\ pending \in Seq(Transmits)
  /\ pending_legacy \in Seq({"legacy", "legacy_meta"})
  /\ token.kind \in TokenKinds /\ token.records \subseteq Kinds
  /\ probe_on_wire \in BOOLEAN /\ probe_defeated \in BOOLEAN
  /\ tiebreak_lost \in BOOLEAN /\ generation_advertised \in BOOLEAN
  /\ goodbye \subseteq Kinds \X Families

(***************************************************************************)
(* Nothing queued, delayed or in flight claims the name.                   *)
(***************************************************************************)
NoClaimQueued ==
  /\ pending \in Seq({"Probe"})
  /\ pending_legacy = <<>>
  /\ response_deadline = None
  /\ token.kind \notin ClaimKinds

(***************************************************************************)
(* A generation that has not finished probing claims nothing, and one      *)
(* under adjudication has claimed nothing and is claiming nothing.         *)
(***************************************************************************)
UnclaimedUntilProbed ==
  /\ state \notin {"Announcing", "Established"} => NoClaimQueued
  /\ Startup => ~generation_advertised
  /\ Classified => ~generation_advertised /\ token.kind \notin ClaimKinds

(***************************************************************************)
(* A datagram of the previous generation still in flight keeps this one    *)
(* from probing, so the name is never lost to a defeat under it.           *)
(***************************************************************************)
DefeatMeetsNoRecords ==
  /\ token.kind \in {"None", "Probe", "Meta", "StaleProbe"} => token.records = {}
  /\ Startup /\ probe_on_wire => token.records = {}
  /\ probe_defeated => token.records = {}
  /\ token.old = FALSE

(***************************************************************************)
(* Every family not given up on has heard one probe per phase, and one     *)
(* more when it is ahead of the families the phase still waits for.        *)
(***************************************************************************)
ProbesHeard(f) ==
  heard[f] = 3 \/ heard[f] >= phase + (IF patience[f].covered THEN 1 ELSE 0)

ProbedInOrder ==
  /\ state = "Init" => \A f \in Families : ~patience[f].covered
  /\ ~Classified /\ state = "Probing" => \A f \in Families : f \in excused \/ ProbesHeard(f)
  /\ ~Classified /\ state \in {"Announcing", "Established"}
       => \A f \in Families : heard[f] = 3 \/ f \in excused

(***************************************************************************)
(* Records in flight are the present name's.                               *)
(***************************************************************************)
InFlightUnderName == token.records # {} => token.name = name

-----------------------------------------------------------------------------
(* The operators the steps are built from.                                 *)

(* Queueing keeps a queue of S a queue of S, whether or not there is room. *)
LEMMA PushType ==
  ASSUME NEW S, NEW q \in Seq(S), NEW k \in S
  PROVE  push_pending(q, k) \in Seq(S) /\ push_lifecycle_pending(q, k) \in Seq(S)
BY DEF push_pending, push_lifecycle_pending

(* Dropping a held first probe leaves a queue of what was queued.          *)
LEMMA QueueType ==
  ASSUME NEW S, pending \in Seq(S)
  PROVE  /\ Queue \in Seq(S)
         /\ Queue # <<>> => Head(Queue) \in S /\ Tail(Queue) \in Seq(S)
<1>1. Queue \in Seq(S)
  BY DEF Queue, FirstProbeHeld
<1> QED
  BY <1>1

(* Host-name and sibling conflicts, the end of a datagram and the clock    *)
(* leave the startup, the queues and the goodbyes alone.                   *)
LEMMA Bystanders ==
  ASSUME HostConflict \/ SiblingConflict \/ EndOfDatagram \/ Tick \/ UNCHANGED vars
  PROVE  /\ UNCHANGED <<state, phase, response_deadline, pending, pending_legacy, token>>
         /\ UNCHANGED <<probe_on_wire, probe_defeated, tiebreak_lost, generation_advertised>>
         /\ UNCHANGED <<patience, goodbye, handed_off, name, wire, heard, excused>>
BY DEF HostConflict, SiblingConflict, EndOfDatagram, Tick, vars, clocks, queues, verdict, claims,
       pacing, naming, history

(* A new generation begins with nothing queued and nothing remembered.     *)
LEMMA RestartShape ==
  ASSUME Shape, NEW base, NEW renamed \in BOOLEAN, NEW f,
         restart_probe_cycle(base, renamed, f)
  PROVE  /\ state' = "Init" /\ phase' \in 0 .. 3
         /\ heard' \in [Families -> 0 .. 3] /\ excused' \subseteq Families
         /\ patience' \in [Families -> FamilyPatience]
         /\ pending' \in Seq(Transmits)
         /\ pending_legacy' \in Seq({"legacy", "legacy_meta"})
         /\ token'.kind \in TokenKinds /\ token'.records \subseteq Kinds
         /\ probe_on_wire' \in BOOLEAN /\ probe_defeated' \in BOOLEAN
         /\ tiebreak_lost' \in BOOLEAN /\ generation_advertised' \in BOOLEAN
<1>1. token'.kind \in TokenKinds /\ token'.records \subseteq Kinds
  BY DEF restart_probe_cycle, stale_live_commit_token, Shape, TokenKinds
<1>2. pending' \in Seq(Transmits) /\ pending_legacy' \in Seq({"legacy", "legacy_meta"})
  BY DEF restart_probe_cycle, clear_response_cycle_state
<1>3. FreshPatience \in FamilyPatience
  BY ScheduleAssumption DEF FreshPatience, FamilyPatience
<1>4. /\ heard' \in [Families -> 0 .. 3] /\ excused' \subseteq Families
      /\ patience' \in [Families -> FamilyPatience]
  BY <1>3 DEF restart_probe_cycle, ForgetProbes
<1>5. /\ probe_on_wire' \in BOOLEAN /\ probe_defeated' \in BOOLEAN
      /\ tiebreak_lost' \in BOOLEAN /\ generation_advertised' \in BOOLEAN
  BY Zenon DEF restart_probe_cycle
<1>6. state' = "Init" /\ phase' \in 0 .. 3
  BY DEF restart_probe_cycle
<1> QED
  BY <1>1, <1>2, <1>4, <1>5, <1>6

(* What `handle_timeout` does keeps the state in its shape.                *)
LEMMA TimeoutShape ==
  ASSUME Shape, HandleTimeout
  PROVE  Shape'
<1>1. CASE DeferAfterTiebreak
  BY <1>1, RestartShape DEF DeferAfterTiebreak, Shape, claims, States
<1>2. CASE Rename
  <2>1. goodbye' \subseteq Kinds \X Families
    BY <1>2 DEF Rename, ResetInstance, Shape
  <2> QED
    BY <1>2, <2>1, RestartShape DEF Rename, Shape, States
<1>3. CASE GiveUpName
  <2>1. goodbye' \subseteq Kinds \X Families
    BY <1>3 DEF GiveUpName, ResetInstance, Shape
  <2>2. token'.kind \in TokenKinds /\ token'.records \subseteq Kinds
    BY <1>3 DEF GiveUpName, stale_live_commit_token, Shape, TokenKinds
  <2>3. pending' \in Seq(Transmits) /\ pending_legacy' \in Seq({"legacy", "legacy_meta"})
    BY <1>3 DEF GiveUpName, clear_response_cycle_state
  <2>4. /\ probe_on_wire' \in BOOLEAN /\ probe_defeated' \in BOOLEAN
        /\ tiebreak_lost' \in BOOLEAN /\ generation_advertised' \in BOOLEAN
    BY <1>3, Zenon DEF GiveUpName, Shape
  <2>5. state' \in States /\ phase' \in 0 .. 3
    BY <1>3 DEF GiveUpName, States
  <2> QED
    BY <1>3, <2>1, <2>2, <2>3, <2>4, <2>5 DEF GiveUpName, Shape
<1>4. CASE FireTimers
  <2>1. \A q \in Seq(Transmits) : ThenResponse(q) \in Seq(Transmits)
    BY PushType DEF ThenResponse, Transmits
  <2>2. \A k \in Transmits : push_lifecycle_pending(pending, k) \in Seq(Transmits)
    BY PushType DEF Shape
  <2>3. pending' \in Seq(Transmits) /\ state' \in States /\ phase' \in 0 .. 3
    BY <1>4, <2>1, <2>2 DEF FireTimers, FireLifecycle, Shape, States, Transmits
  <2> QED
    BY <1>4, <2>3 DEF FireTimers, Shape, verdict, claims, pacing
<1> QED
  BY <1>1, <1>2, <1>3, <1>4 DEF HandleTimeout

(* What `poll_transmit` does keeps the state in its shape.                 *)
LEMMA PollShape ==
  ASSUME Shape, PollTransmit
  PROVE  Shape'
<1> USE ServiceAssumption
<1>1. /\ Queue \in Seq(Transmits)
      /\ Queue # <<>> => Tail(Queue) \in Seq(Transmits)
  BY QueueType DEF Shape
<1>2. pending' \in Seq(Transmits)
  BY <1>1 DEF PollTransmit, EmitMeta, EmitLegacy, EmitPending, EmitNothing
<1>3. pending_legacy' \in Seq({"legacy", "legacy_meta"})
  BY DEF PollTransmit, EmitMeta, EmitLegacy, EmitPending, EmitNothing, Shape
<1>4. token'.kind \in TokenKinds /\ token'.records \subseteq Kinds
  BY DEF PollTransmit, EmitMeta, EmitLegacy, EmitPending, EmitNothing, Shape, NewToken, NoToken,
         TokenKinds
<1> QED
  BY <1>2, <1>3, <1>4 DEF PollTransmit, Shape, verdict, claims, pacing, history

(* What `note_transmit_outcome` does keeps the state in its shape.         *)
LEMMA ConfirmShape ==
  ASSUME Shape, NEW sockets, NEW offered, Confirm(sockets, offered)
  PROVE  Shape'
<1> DEFINE attempts == AttemptsAt(sockets, offered)
           t == Anchor(attempts, offered)
           advance == AdvanceOf(patience, attempts)
<1>1. /\ token' = NoToken
      /\ UNCHANGED <<pending, pending_legacy, probe_defeated, tiebreak_lost>>
      /\ \/ ConfirmProbe(t, attempts) \/ ConfirmAnnouncement(t, attempts)
         \/ ConfirmResponse(attempts) \/ ConfirmStale(attempts)
  BY DEF Confirm
<1>2. token'.kind \in TokenKinds /\ token'.records \subseteq Kinds
  BY <1>1 DEF NoToken, TokenKinds
<1>3. PatienceAfter(patience, attempts) \in [Families -> FamilyPatience]
  BY PatienceType DEF Shape
<1>4. \A S : S \subseteq Kinds => Exposed(S, attempts) \subseteq Kinds \X Families
  BY DEF Exposed, Delivered
<1>5. token.records \subseteq Kinds
  BY DEF Shape
<1>6. CASE ConfirmProbe(t, attempts)
  <2>1. heard' \in [Families -> 0 .. 3]
    BY <1>6 DEF ConfirmProbe, Shape
  <2>2. excused' \subseteq Families
    BY <1>6 DEF ConfirmProbe, Shape, Unobligated, Missed
  <2>3. phase' \in 0 .. 3 /\ patience' \in [Families -> FamilyPatience]
    BY <1>6, <1>3 DEF ConfirmProbe, Shape
  <2>4. probe_on_wire' \in BOOLEAN
    BY <1>6, Zenon DEF ConfirmProbe, Shape
  <2> QED
    BY <1>1, <1>2, <1>6, <2>1, <2>2, <2>3, <2>4 DEF ConfirmProbe, Shape
<1>7. CASE ConfirmAnnouncement(t, attempts)
  <2>1. UNCHANGED <<probe_on_wire, heard, excused>> /\ patience' \in [Families -> FamilyPatience]
    BY <1>7, <1>3 DEF ConfirmAnnouncement
  <2>2. CASE AnnouncementFailed(t)
    BY <1>1, <1>2, <2>1, <2>2 DEF AnnouncementFailed, Shape
  <2>3. CASE AnnouncementHeard(t, attempts, advance)
    <3>1. generation_advertised' \in BOOLEAN
      BY <2>3, Zenon DEF AnnouncementHeard
    <3>2. goodbye' \subseteq Kinds \X Families
      BY <2>3, <1>4, <1>5 DEF AnnouncementHeard, Shape
    <3>3. state' \in States /\ phase' \in 0 .. 3
      BY <2>3 DEF AnnouncementHeard, Shape, States
    <3> QED
      BY <1>1, <1>2, <2>1, <3>1, <3>2, <3>3 DEF Shape
  <2> QED
    BY <1>7, <2>2, <2>3 DEF ConfirmAnnouncement
<1>8. CASE ConfirmResponse(attempts)
  <2>1. generation_advertised' \in BOOLEAN
    BY <1>8, Zenon DEF ConfirmResponse
  <2>2. goodbye' \subseteq Kinds \X Families
    BY <1>8, <1>4, <1>5 DEF ConfirmResponse, Shape
  <2> QED
    BY <1>1, <1>2, <1>8, <2>1, <2>2 DEF ConfirmResponse, Shape, pacing
<1>9. CASE ConfirmStale(attempts)
  <2>1. goodbye' \subseteq Kinds \X Families
    BY <1>9, <1>4, <1>5 DEF ConfirmStale, Shape
  <2> QED
    BY <1>1, <1>2, <1>9, <2>1 DEF ConfirmStale, Shape, pacing
<1> QED
  BY <1>1, <1>6, <1>7, <1>8, <1>9

(* What a conflict does keeps the state in its shape.                      *)
LEMMA ConflictShape ==
  ASSUME Shape, NEW relinquished \in BOOLEAN, ProbeConflict(relinquished)
  PROVE  Shape'
<1>1. CASE handle_preauthoritative_conflict(relinquished)
  <2>1. tiebreak_lost' \in BOOLEAN /\ probe_defeated' \in BOOLEAN
    BY <1>1, Zenon DEF handle_preauthoritative_conflict
  <2>2. heard' \in [Families -> 0 .. 3] /\ excused' \subseteq Families
    BY <1>1 DEF handle_preauthoritative_conflict, ForgetProbes, Shape
  <2> QED
    BY <1>1, <2>1, <2>2
    DEF ProbeConflict, handle_preauthoritative_conflict, Shape, queues, claims
<1>2. CASE RevertToProbing
  <2>1. goodbye' = goodbye
    BY DEF ProbeConflict, claims
  <2>2. CASE RecentlyReprobed
    BY <1>2, <2>1, <2>2 DEF RevertToProbing, Shape, queues, verdict
  <2>3. CASE ~RecentlyReprobed
    <3>1. PICK base : restart_probe_cycle(base, FALSE, flood')
      BY <1>2, <2>3 DEF RevertToProbing
    <3> QED
      BY <2>1, <3>1, RestartShape DEF Shape, States
  <2> QED
    BY <2>2, <2>3
<1> QED
  BY <1>1, <1>2 DEF ProbeConflict

(* What the other steps read is left alone by them.                        *)
LEMMA ShapeStep ==
  ASSUME Shape, [Next]_vars
  PROVE  Shape'
<1>1. CASE LoseTiebreak
  <2>1. tiebreak_lost' \in BOOLEAN
    BY <1>1 DEF LoseTiebreak
  <2>2. heard' \in [Families -> 0 .. 3] /\ excused' \subseteq Families
    BY <1>1 DEF LoseTiebreak, ForgetProbes
  <2> QED
    BY <1>1, <2>1, <2>2 DEF LoseTiebreak, Shape, queues, claims, pacing
<1>2. CASE HostConflict \/ SiblingConflict \/ EndOfDatagram \/ Tick \/ UNCHANGED vars
  BY <1>2, Bystanders DEF Shape
<1>3. CASE \E kind \in AllQuestions : Question(kind)
  <2>1. pending_legacy' \in Seq({"legacy", "legacy_meta"})
    BY <1>3 DEF Question, Shape
  <2> QED
    BY <1>3, <2>1 DEF Question, verdict, claims, pacing, history, Shape
<1>4. CASE Withdraw
  <2>1. pending' \in Seq(Transmits) /\ pending_legacy' \in Seq({"legacy", "legacy_meta"})
    BY <1>4 DEF Withdraw, clear_response_cycle_state
  <2> QED
    BY <1>4, <2>1 DEF Withdraw, verdict, pacing, history, Shape
<1>5. CASE \E u \in {"Established", "Renamed", "Conflict", "HostConflict"} : PollUpdate(u)
  <2>1. PICK u : PollUpdate(u)
    BY <1>5
  <2> QED
    BY <1>4, <2>1 DEF PollUpdate, queues, verdict, claims, pacing, history, Shape
<1> QED
  BY <1>1, <1>2, <1>3, <1>4, <1>5, TimeoutShape, PollShape, ConfirmShape, ConflictShape
  DEF Next, Unregister

(* The types the arguments need are an invariant of every service.         *)
THEOREM ShapeInvariant == Spec => []Shape
<1>1. Init => Shape
  <2> SUFFICES ASSUME Init PROVE Shape
    OBVIOUS
  <2>1. FreshPatience \in FamilyPatience
    BY ScheduleAssumption DEF FreshPatience, FamilyPatience
  <2>2. /\ probe_on_wire \in BOOLEAN /\ probe_defeated \in BOOLEAN
        /\ tiebreak_lost \in BOOLEAN /\ generation_advertised \in BOOLEAN
    BY Zenon DEF Init
  <2>3. token.kind \in TokenKinds /\ token.records \subseteq Kinds
    BY DEF Init, NoToken, TokenKinds
  <2>4. pending \in Seq(Transmits) /\ pending_legacy \in Seq({"legacy", "legacy_meta"})
    BY DEF Init
  <2>5. state \in States /\ phase \in 0 .. 3 /\ goodbye \subseteq Kinds \X Families
    BY DEF Init, States
  <2>6. /\ heard \in [Families -> 0 .. 3] /\ excused \subseteq Families
        /\ patience \in [Families -> FamilyPatience]
    BY <2>1 DEF Init
  <2> QED
    BY <2>2, <2>3, <2>4, <2>5, <2>6 DEF Shape
<1>2. Shape /\ [Next]_vars => Shape'
  BY ShapeStep
<1> QED
  BY <1>1, <1>2, PTL DEF Spec

-----------------------------------------------------------------------------
(* A generation that has not finished probing claims nothing.              *)

LEMMA RestartUnclaimed ==
  ASSUME Shape, NEW base, NEW renamed, NEW f, restart_probe_cycle(base, renamed, f)
  PROVE  UnclaimedUntilProbed'
<1>1. token'.kind \notin ClaimKinds
  BY DEF restart_probe_cycle, stale_live_commit_token, ClaimKinds, Shape, TokenKinds
<1>2. /\ pending' \in Seq({"Probe"}) /\ pending_legacy' = <<>> /\ response_deadline' = None
      /\ ~generation_advertised' /\ ~Classified'
  BY DEF restart_probe_cycle, clear_response_cycle_state, Classified
<1> QED
  BY <1>1, <1>2 DEF UnclaimedUntilProbed, NoClaimQueued

(* handle_timeout queues a claim in Announcing and Established only.       *)
LEMMA TimeoutUnclaimed ==
  ASSUME Shape, UnclaimedUntilProbed, HandleTimeout
  PROVE  UnclaimedUntilProbed'
<1>1. CASE DeferAfterTiebreak
  BY <1>1, RestartUnclaimed DEF DeferAfterTiebreak
<1>2. CASE Rename
  BY <1>2, RestartUnclaimed DEF Rename
<1>3. CASE GiveUpName
  <2>1. token'.kind \notin ClaimKinds
    BY <1>3 DEF GiveUpName, stale_live_commit_token, ClaimKinds, Shape, TokenKinds
  <2>2. pending' \in Seq({"Probe"}) /\ pending_legacy' = <<>> /\ response_deadline' = None
    BY <1>3 DEF GiveUpName, clear_response_cycle_state
  <2>3. ~Classified' /\ ~Startup'
    BY <1>3 DEF GiveUpName, Classified, Startup
  <2> QED
    BY <2>1, <2>2, <2>3 DEF UnclaimedUntilProbed, NoClaimQueued
<1>4. CASE FireTimers
  <2>1. ~Classified' /\ UNCHANGED <<pending_legacy, token, generation_advertised>>
    BY <1>4 DEF FireTimers, verdict, Classified
  <2>2. CASE state \in {"Announcing", "Established"}
    BY <1>4, <2>1, <2>2
    DEF FireTimers, FireLifecycle, UnclaimedUntilProbed, Startup
  <2>3. CASE state \notin {"Announcing", "Established"}
    <3>1. NoClaimQueued
      BY <2>3 DEF UnclaimedUntilProbed
    <3>2. response_deadline' = None /\ \A q : ThenResponse(q) = q
      BY <1>4, <3>1 DEF FireTimers, NoClaimQueued, ThenResponse, Due
    <3>3. push_lifecycle_pending(pending, "Probe") \in Seq({"Probe"})
      BY <3>1, PushType DEF NoClaimQueued
    <3>4. pending' \in Seq({"Probe"})
      BY <1>4, <2>3, <3>1, <3>2, <3>3 DEF FireTimers, FireLifecycle, NoClaimQueued
    <3>5. NoClaimQueued'
      BY <2>1, <3>1, <3>2, <3>4 DEF NoClaimQueued
    <3>6. Startup' => Startup
      BY <1>4, <2>3 DEF FireTimers, FireLifecycle, Startup
    <3> QED
      BY <2>1, <3>5, <3>6 DEF UnclaimedUntilProbed
  <2> QED
    BY <2>2, <2>3
<1> QED
  BY <1>1, <1>2, <1>3, <1>4 DEF HandleTimeout

(* The wire commit boundary: outside Announcing and Established, and under *)
(* adjudication, `poll_transmit` hands out probes and meta responses only. *)
LEMMA PollUnclaimed ==
  ASSUME Shape, UnclaimedUntilProbed, PollTransmit
  PROVE  UnclaimedUntilProbed'
<1>1. UNCHANGED <<state, response_deadline, probe_defeated, tiebreak_lost, generation_advertised>>
  BY DEF PollTransmit, verdict
<1>2. CASE state \notin {"Announcing", "Established"}
  <2>1. NoClaimQueued
    BY <1>2 DEF UnclaimedUntilProbed
  <2>2. /\ Queue \in Seq({"Probe"})
        /\ Queue # <<>> => Head(Queue) = "Probe" /\ Tail(Queue) \in Seq({"Probe"})
    BY <2>1, QueueType DEF NoClaimQueued
  <2>3. pending' \in Seq({"Probe"}) /\ pending_legacy' = <<>>
    BY <2>1, <2>2
    DEF PollTransmit, EmitMeta, EmitLegacy, EmitPending, EmitNothing, NoClaimQueued
  <2>4. token'.kind \notin ClaimKinds
    BY <2>1, <2>2
    DEF PollTransmit, EmitMeta, EmitLegacy, EmitPending, EmitNothing, NoClaimQueued, NewToken,
        NoToken, ClaimKinds
  <2>5. NoClaimQueued'
    BY <1>1, <2>1, <2>3, <2>4 DEF NoClaimQueued
  <2> QED
    BY <1>1, <2>4, <2>5 DEF UnclaimedUntilProbed, Startup, Classified
<1>3. CASE state \in {"Announcing", "Established"}
  <2>1. Classified => token'.kind \notin ClaimKinds
    BY DEF PollTransmit, EmitMeta, EmitLegacy, EmitPending, EmitNothing, NewToken, NoToken,
           ClaimKinds
  <2> QED
    BY <1>1, <1>3, <2>1 DEF UnclaimedUntilProbed, Startup, Classified
<1> QED
  BY <1>2, <1>3

(* A confirm of a claim finds the service announcing and not adjudicated.  *)
LEMMA ConfirmUnclaimed ==
  ASSUME Shape, UnclaimedUntilProbed, NEW sockets, NEW offered, Confirm(sockets, offered)
  PROVE  UnclaimedUntilProbed'
<1> DEFINE attempts == AttemptsAt(sockets, offered)
           t == Anchor(attempts, offered)
           advance == AdvanceOf(patience, attempts)
<1>1. /\ token' = NoToken
      /\ UNCHANGED <<response_deadline, pending, pending_legacy, probe_defeated, tiebreak_lost>>
      /\ \/ ConfirmProbe(t, attempts) \/ ConfirmAnnouncement(t, attempts)
         \/ ConfirmResponse(attempts) \/ ConfirmStale(attempts)
  BY DEF Confirm
<1>2. token'.kind \notin ClaimKinds
  BY <1>1 DEF NoToken, ClaimKinds
<1>3. CASE UNCHANGED <<state, generation_advertised>>
  BY <1>1, <1>2, <1>3 DEF UnclaimedUntilProbed, NoClaimQueued, Startup, Classified
<1>4. CASE token.kind \in ClaimKinds
  <2>1. state \in {"Announcing", "Established"} /\ ~Classified
    BY <1>4 DEF UnclaimedUntilProbed, NoClaimQueued
  <2>2. state' \in {"Announcing", "Established"}
    BY <1>1, <1>4, <2>1
    DEF ConfirmProbe, ConfirmAnnouncement, AnnouncementFailed, AnnouncementHeard,
        ConfirmResponse, ConfirmStale
  <2> QED
    BY <1>1, <2>1, <2>2 DEF UnclaimedUntilProbed, Startup, Classified
<1> QED
  BY <1>1, <1>3, <1>4 DEF ConfirmProbe, ConfirmAnnouncement, ConfirmResponse, ConfirmStale, ClaimKinds

(* A conflict is adjudicated before the claim, or starts a new generation. *)
LEMMA ConflictUnclaimed ==
  ASSUME Shape, UnclaimedUntilProbed, NEW relinquished, ProbeConflict(relinquished)
  PROVE  UnclaimedUntilProbed'
<1>1. CASE handle_preauthoritative_conflict(relinquished)
  <2>1. UNCHANGED <<state, response_deadline, pending, pending_legacy, token,
                    generation_advertised>>
    BY <1>1 DEF handle_preauthoritative_conflict, clocks, queues
  <2>2. ~generation_advertised /\ token.kind \notin ClaimKinds
    BY <1>1 DEF handle_preauthoritative_conflict, is_preauthoritative, UnclaimedUntilProbed,
                NoClaimQueued, Startup, NoToken, ClaimKinds
  <2> QED
    BY <2>1, <2>2 DEF UnclaimedUntilProbed, NoClaimQueued, Startup
<1>2. CASE RevertToProbing
  <2>1. CASE RecentlyReprobed
    BY <1>2, <2>1 DEF RevertToProbing, clocks, queues, verdict, UnclaimedUntilProbed,
                      NoClaimQueued, Startup, Classified
  <2>2. CASE ~RecentlyReprobed
    BY <1>2, <2>2, RestartUnclaimed DEF RevertToProbing
  <2> QED
    BY <2>1, <2>2
<1> QED
  BY <1>1, <1>2 DEF ProbeConflict

(* No step claims the name of a generation that has not finished probing.  *)
LEMMA UnclaimedStep ==
  ASSUME Shape, UnclaimedUntilProbed, [Next]_vars
  PROVE  UnclaimedUntilProbed'
<1>1. CASE LoseTiebreak
  <2>1. UNCHANGED <<state, response_deadline, pending, pending_legacy, token,
                    generation_advertised>>
    BY <1>1 DEF LoseTiebreak, clocks, queues
  <2>2. ~generation_advertised /\ token.kind \notin ClaimKinds
    BY <1>1 DEF LoseTiebreak, is_preauthoritative, UnclaimedUntilProbed, NoClaimQueued, Startup,
                NoToken, ClaimKinds
  <2> QED
    BY <2>1, <2>2 DEF UnclaimedUntilProbed, NoClaimQueued, Startup
<1>2. CASE HostConflict \/ SiblingConflict \/ EndOfDatagram \/ Tick \/ UNCHANGED vars
  BY <1>2, Bystanders DEF UnclaimedUntilProbed, NoClaimQueued, Startup, Classified
<1>3. CASE \E kind \in AllQuestions : Question(kind)
  BY <1>3 DEF Question, verdict, UnclaimedUntilProbed, Startup, Classified
<1>4. CASE Withdraw
  <2>1. pending' \in Seq({"Probe"}) /\ pending_legacy' = <<>> /\ response_deadline' = None
    BY <1>4 DEF Withdraw, clear_response_cycle_state
  <2> QED
    BY <1>4, <2>1 DEF Withdraw, verdict, UnclaimedUntilProbed, NoClaimQueued, Startup, Classified
<1>5. CASE \E u \in {"Established", "Renamed", "Conflict", "HostConflict"} : PollUpdate(u)
  <2>1. PICK u : PollUpdate(u)
    BY <1>5
  <2> QED
    BY <1>4, <2>1 DEF PollUpdate, clocks, queues, verdict, UnclaimedUntilProbed, NoClaimQueued,
                      Startup, Classified
<1> QED
  BY <1>1, <1>2, <1>3, <1>4, <1>5, TimeoutUnclaimed, PollUnclaimed, ConfirmUnclaimed,
     ConflictUnclaimed
  DEF Next, Unregister

(* No generation claims its name before it has finished probing, and none  *)
(* is adjudicated after it has.                                            *)
THEOREM UnclaimedInvariant == Spec => []UnclaimedUntilProbed
<1>1. Init => UnclaimedUntilProbed
  <2> SUFFICES ASSUME Init PROVE UnclaimedUntilProbed
    OBVIOUS
  <2>1. ~Classified /\ ~generation_advertised
    BY DEF Init, Classified
  <2>2. pending \in Seq({"Probe"}) /\ pending_legacy = <<>> /\ response_deadline = None
    BY DEF Init
  <2>3. token.kind \notin ClaimKinds
    BY DEF Init, NoToken, ClaimKinds
  <2> QED
    BY <2>1, <2>2, <2>3 DEF UnclaimedUntilProbed, NoClaimQueued
<1>2. Shape /\ UnclaimedUntilProbed /\ [Next]_vars => UnclaimedUntilProbed'
  BY UnclaimedStep
<1> QED
  BY <1>1, <1>2, ShapeInvariant, PTL DEF Spec

(* A conflict decides the fate of a name only while the generation has not *)
(* claimed it, for every interleaving of peers, timers and confirms.       *)
THEOREM DefeatsPrecedeClaims == Spec => []DefeatOnlyBeforeClaim
<1>1. UnclaimedUntilProbed => DefeatOnlyBeforeClaim
  BY DEF UnclaimedUntilProbed, DefeatOnlyBeforeClaim
<1> QED
  BY <1>1, UnclaimedInvariant, PTL

-----------------------------------------------------------------------------
(* A name is never lost to a defeat with its records in flight.            *)

LEMMA RestartMeetsNoRecords ==
  ASSUME Shape, DefeatMeetsNoRecords, NEW base, NEW renamed \in BOOLEAN, NEW f,
         restart_probe_cycle(base, renamed, f), renamed => token.records = {}
  PROVE  DefeatMeetsNoRecords'
<1>1. token'.records = token.records
  BY DEF restart_probe_cycle, stale_live_commit_token
<1>2. token'.old = FALSE
  <2>1. (token.old \/ (renamed /\ token.records # {})) = FALSE
    BY Zenon DEF DefeatMeetsNoRecords
  <2> QED
    BY <2>1 DEF restart_probe_cycle, stale_live_commit_token
<1>3. token'.kind \in {"None", "Probe", "Meta", "StaleProbe"}
        => token.kind \in {"None", "Probe", "Meta", "StaleProbe"}
  BY DEF restart_probe_cycle, stale_live_commit_token, Shape, TokenKinds
<1>4. ~probe_on_wire' /\ ~probe_defeated'
  BY DEF restart_probe_cycle
<1> QED
  BY <1>1, <1>2, <1>3, <1>4 DEF DefeatMeetsNoRecords

(* handle_timeout moves off a name with no record of it in flight.         *)
LEMMA TimeoutMeetsNoRecords ==
  ASSUME Shape, UnclaimedUntilProbed, DefeatMeetsNoRecords, HandleTimeout
  PROVE  DefeatMeetsNoRecords'
<1>1. CASE DeferAfterTiebreak
  BY <1>1, RestartMeetsNoRecords DEF DeferAfterTiebreak
<1>2. CASE Rename
  <2>1. token.records = {}
    BY <1>2 DEF Rename, DefeatMeetsNoRecords
  <2> QED
    BY <1>2, <2>1, RestartMeetsNoRecords DEF Rename
<1>3. CASE GiveUpName
  <2>1. token'.records = {}
    BY <1>3 DEF GiveUpName, DefeatMeetsNoRecords, stale_live_commit_token
  <2>2. (token.old \/ (TRUE /\ token.records # {})) = FALSE
    BY <1>3, Zenon DEF GiveUpName, DefeatMeetsNoRecords
  <2>3. token'.old = FALSE
    BY <1>3, <2>2 DEF GiveUpName, stale_live_commit_token
  <2> QED
    BY <2>1, <2>3 DEF DefeatMeetsNoRecords
<1>4. CASE FireTimers
  BY <1>4 DEF FireTimers, FireLifecycle, verdict, DefeatMeetsNoRecords, Startup
<1> QED
  BY <1>1, <1>2, <1>3, <1>4 DEF HandleTimeout

(* poll_transmit puts records in flight outside startup only.              *)
LEMMA PollMeetsNoRecords ==
  ASSUME Shape, UnclaimedUntilProbed, DefeatMeetsNoRecords, PollTransmit
  PROVE  DefeatMeetsNoRecords'
<1>1. UNCHANGED <<state, probe_on_wire, probe_defeated>>
  BY DEF PollTransmit, verdict
<1>2. token'.kind \in ClaimKinds \/ token'.records = {}
  BY DEF PollTransmit, EmitMeta, EmitLegacy, EmitPending, EmitNothing, NewToken, NoToken,
         ClaimKinds
<1>3. token'.old = FALSE
  BY DEF PollTransmit, EmitMeta, EmitLegacy, EmitPending, EmitNothing, NewToken, NoToken
<1>4. UnclaimedUntilProbed'
  BY PollUnclaimed
<1> QED
  BY <1>1, <1>2, <1>3, <1>4
  DEF DefeatMeetsNoRecords, UnclaimedUntilProbed, NoClaimQueued, Startup, Classified, ClaimKinds

(* No step brings a defeat and records in flight together.                 *)
LEMMA RecordsStep ==
  ASSUME Shape, UnclaimedUntilProbed, DefeatMeetsNoRecords, [Next]_vars
  PROVE  DefeatMeetsNoRecords'
<1>1. ASSUME NEW sockets, NEW offered, Confirm(sockets, offered)
      PROVE  DefeatMeetsNoRecords'
  BY <1>1 DEF Confirm, NoToken, DefeatMeetsNoRecords
<1>2. ASSUME NEW relinquished, ProbeConflict(relinquished)
      PROVE  DefeatMeetsNoRecords'
  <2>1. CASE handle_preauthoritative_conflict(relinquished)
    <3>1. probe_on_wire => token.records = {}
      BY <2>1 DEF handle_preauthoritative_conflict, is_preauthoritative, DefeatMeetsNoRecords,
                  NoToken
    <3>2. probe_defeated' => probe_defeated \/ probe_on_wire
      BY <2>1, Zenon DEF handle_preauthoritative_conflict
    <3> QED
      BY <2>1, <3>1, <3>2
      DEF handle_preauthoritative_conflict, queues, DefeatMeetsNoRecords, Startup
  <2>2. CASE RevertToProbing
    <3>1. CASE RecentlyReprobed
      BY <2>2, <3>1 DEF RevertToProbing, queues, verdict, DefeatMeetsNoRecords, Startup
    <3>2. CASE ~RecentlyReprobed
      BY <2>2, <3>2, RestartMeetsNoRecords DEF RevertToProbing
    <3> QED
      BY <3>1, <3>2
  <2> QED
    BY <1>2, <2>1, <2>2 DEF ProbeConflict
<1>3. CASE LoseTiebreak
  BY <1>3 DEF LoseTiebreak, queues, DefeatMeetsNoRecords, Startup
<1>4. CASE HostConflict \/ SiblingConflict \/ EndOfDatagram \/ Tick \/ UNCHANGED vars
  BY <1>4, Bystanders DEF DefeatMeetsNoRecords, Startup
<1>5. CASE \E kind \in AllQuestions : Question(kind)
  BY <1>5 DEF Question, verdict, DefeatMeetsNoRecords, Startup
<1>6. CASE Withdraw
  BY <1>6 DEF Withdraw, verdict, DefeatMeetsNoRecords, Startup
<1>7. CASE \E u \in {"Established", "Renamed", "Conflict", "HostConflict"} : PollUpdate(u)
  <2>1. PICK u : PollUpdate(u)
    BY <1>7
  <2>2. Withdraw \/ UNCHANGED <<state, token, probe_on_wire, probe_defeated>>
    BY <2>1 DEF PollUpdate, queues, verdict
  <2>3. CASE UNCHANGED <<state, token, probe_on_wire, probe_defeated>>
    BY <2>3 DEF DefeatMeetsNoRecords, Startup
  <2> QED
    BY <1>6, <2>2, <2>3
<1> QED
  BY <1>1, <1>2, <1>3, <1>4, <1>5, <1>6, <1>7, TimeoutMeetsNoRecords, PollMeetsNoRecords
  DEF Next, Unregister

(* A datagram the previous generation left in flight holds no records by   *)
(* the time a defeat can move the service to another name.                 *)
THEOREM NoRecordsAtDefeat == Spec => []DefeatMeetsNoRecords
<1>1. Init => DefeatMeetsNoRecords
  BY DEF Init, DefeatMeetsNoRecords, NoToken
<1>2. Shape /\ UnclaimedUntilProbed /\ DefeatMeetsNoRecords /\ [Next]_vars
        => DefeatMeetsNoRecords'
  BY RecordsStep
<1> QED
  BY <1>1, <1>2, ShapeInvariant, UnclaimedInvariant, PTL DEF Spec

-----------------------------------------------------------------------------
(* Every family hears three probes or is given up on.                      *)

(* classify_advance marks a family as ahead of the others only when this   *)
(* round reached it or an earlier one of the same phase did.               *)
LEMMA CoveredOnlyIfHeard ==
  ASSUME NEW p \in [Families -> FamilyPatience], NEW attempts, NEW f \in Families
  PROVE  /\ Advances(AdvanceOf(p, attempts)) => ~PatienceAfter(p, attempts)[f].covered
         /\ (~Advances(AdvanceOf(p, attempts)) /\ PatienceAfter(p, attempts)[f].covered)
              => p[f].covered \/ f \notin Missed(attempts)
<1>1. AdvanceOf(p, attempts) \in {"Failed", "Delivered", "Covered", "Excused", "Partial"}
  BY DEF AdvanceOf
<1>2. CASE Advances(AdvanceOf(p, attempts))
  BY <1>2 DEF Advances, PatienceAfter
<1>3. CASE AdvanceOf(p, attempts) = "Failed"
  BY <1>3 DEF Advances, PatienceAfter, FreshPatience
<1>4. CASE AdvanceOf(p, attempts) = "Partial"
  <2>1. p[f] \in FamilyPatience
    OBVIOUS
  <2>2. PatienceAfter(p, attempts)[f] = Charged(p[f], f \notin Missed(attempts))
    BY <1>4 DEF PatienceAfter
  <2> QED
    BY <1>4, <2>1, <2>2 DEF Advances, Charged, FamilyPatience
<1> QED
  BY <1>1, <1>2, <1>3, <1>4 DEF Advances

(* A confirmed probe moves every family it does not excuse along with the  *)
(* phase: the family heard it, or had already heard one more.              *)
LEMMA ProbeConfirmed ==
  ASSUME Shape, ProbedInOrder, ~Classified, NEW t, NEW attempts, ConfirmProbe(t, attempts),
         state = "Probing", NEW f \in Families, f \notin excused'
  PROVE  ProbesHeard(f)'
<1> DEFINE advance == AdvanceOf(patience, attempts)
<1>1. f \notin excused /\ ProbesHeard(f)
  BY DEF ConfirmProbe, ProbedInOrder
<1>2. /\ phase \in 0 .. 3 /\ heard[f] \in 0 .. 3 /\ heard \in [Families -> 0 .. 3]
      /\ patience \in [Families -> FamilyPatience] /\ patience[f].covered \in BOOLEAN
  BY DEF Shape, FamilyPatience
<1>3. /\ patience' = PatienceAfter(patience, attempts)
      /\ \/ ~Advances(advance) /\ phase' = phase
         \/ Advances(advance) /\ phase' = IF phase >= 2 THEN 3 ELSE phase + 1
  BY <1>2 DEF ConfirmProbe
<1>4. heard'[f] = IF f \in Delivered(attempts) /\ heard[f] < 3 THEN heard[f] + 1 ELSE heard[f]
  BY DEF ConfirmProbe
<1>5. f \in Delivered(attempts) \/ f \in Missed(attempts)
  BY DEF ConfirmProbe, Delivered, Unobligated, Missed
<1>6. f \in Missed(attempts) => f \notin Delivered(attempts) /\ (Advances(advance) => patience[f].covered)
  BY DEF ConfirmProbe, Missed
<1>7. CASE Advances(advance)
  <2>1. ~patience'[f].covered
    BY <1>2, <1>3, <1>7, CoveredOnlyIfHeard
  <2> QED
    BY <1>1, <1>2, <1>3, <1>4, <1>5, <1>6, <1>7, <2>1 DEF ProbesHeard
<1>8. CASE ~Advances(advance)
  <2>1. patience'[f].covered => patience[f].covered \/ f \notin Missed(attempts)
    BY <1>2, <1>3, <1>8, CoveredOnlyIfHeard
  <2> QED
    BY <1>1, <1>2, <1>3, <1>4, <1>5, <1>6, <1>8, <2>1 DEF ProbesHeard
<1> QED
  BY <1>7, <1>8

(* A new generation starts counting probes from nothing.                   *)
LEMMA RestartProbes ==
  ASSUME NEW base, NEW renamed, NEW f, restart_probe_cycle(base, renamed, f)
  PROVE  ProbedInOrder'
BY DEF restart_probe_cycle, ProbedInOrder, FreshPatience

(* handle_timeout starts announcing only after the third phase.            *)
LEMMA TimeoutProbed ==
  ASSUME Shape, ProbedInOrder, HandleTimeout
  PROVE  ProbedInOrder'
<1>1. CASE DeferAfterTiebreak
  BY <1>1, RestartProbes DEF DeferAfterTiebreak
<1>2. CASE Rename
  BY <1>2, RestartProbes DEF Rename
<1>3. CASE GiveUpName
  BY <1>3 DEF GiveUpName, ProbedInOrder
<1>4. CASE FireTimers
  <2>1. ~Classified /\ UNCHANGED <<patience, heard, excused>>
    BY <1>4 DEF FireTimers, pacing
  <2>2. CASE UNCHANGED <<state, phase>>
    BY <2>1, <2>2 DEF ProbedInOrder, ProbesHeard
  <2>3. CASE state = "Init" /\ state' = "Probing" /\ phase' = 0
    BY <2>1, <2>3 DEF ProbedInOrder, ProbesHeard, Shape
  <2>4. CASE state = "Probing" /\ phase >= 3 /\ state' = "Announcing"
    <3>1. ASSUME NEW f \in Families
          PROVE  heard[f] = 3 \/ f \in excused
      <4>1. heard[f] \in 0 .. 3 /\ phase \in 0 .. 3
        BY DEF Shape
      <4>2. f \in excused \/ ProbesHeard(f)
        BY <2>1, <2>4 DEF ProbedInOrder
      <4> QED
        BY <2>4, <4>1, <4>2 DEF ProbesHeard
    <3> QED
      BY <2>1, <2>4, <3>1 DEF ProbedInOrder
  <2> QED
    BY <1>4, <2>2, <2>3, <2>4 DEF FireTimers, FireLifecycle
<1> QED
  BY <1>1, <1>2, <1>3, <1>4 DEF HandleTimeout

(* A confirm never loses count of the probes a family has heard.           *)
LEMMA ConfirmProbed ==
  ASSUME Shape, UnclaimedUntilProbed, ProbedInOrder, NEW sockets, NEW offered,
         Confirm(sockets, offered)
  PROVE  ProbedInOrder'
<1> DEFINE attempts == AttemptsAt(sockets, offered)
           t == Anchor(attempts, offered)
           advance == AdvanceOf(patience, attempts)
<1>1. /\ UNCHANGED <<probe_defeated, tiebreak_lost>>
      /\ \/ ConfirmProbe(t, attempts) \/ ConfirmAnnouncement(t, attempts)
         \/ ConfirmResponse(attempts) \/ ConfirmStale(attempts)
  BY DEF Confirm
<1>2. CASE ConfirmProbe(t, attempts)
  <2>1. CASE state = "Probing"
    <3>1. state' = "Probing"
      BY <1>2, <2>1 DEF ConfirmProbe
    <3> QED
      BY <1>1, <1>2, <2>1, <3>1, ProbeConfirmed DEF ProbedInOrder, Classified
  <2>2. CASE state # "Probing"
    <3>1. UNCHANGED <<state, patience>> /\ excused \subseteq excused'
      BY <1>2, <2>2 DEF ConfirmProbe
    <3>2. \A f \in Families : heard[f] = 3 => heard'[f] = 3
      BY <1>2 DEF ConfirmProbe
    <3> QED
      BY <1>1, <2>2, <3>1, <3>2 DEF ProbedInOrder, Classified
  <2> QED
    BY <2>1, <2>2
<1>3. CASE ConfirmAnnouncement(t, attempts)
  <2>1. state \in {"Announcing", "Established"} /\ ~Classified
    BY <1>3 DEF ConfirmAnnouncement, UnclaimedUntilProbed, NoClaimQueued, ClaimKinds
  <2>2. state' \in {"Announcing", "Established"} /\ UNCHANGED <<heard, excused>>
    BY <1>3, <2>1 DEF ConfirmAnnouncement, AnnouncementFailed, AnnouncementHeard
  <2> QED
    BY <1>1, <2>1, <2>2 DEF ProbedInOrder, Classified
<1>4. CASE UNCHANGED <<state, phase, patience, heard, excused>>
  BY <1>1, <1>4 DEF ProbedInOrder, ProbesHeard, Classified
<1> QED
  BY <1>1, <1>2, <1>3, <1>4 DEF ConfirmResponse, ConfirmStale, pacing

(* No step lets a family fall behind the phase of probing.                 *)
LEMMA ProbedStep ==
  ASSUME Shape, UnclaimedUntilProbed, ProbedInOrder, [Next]_vars
  PROVE  ProbedInOrder'
<1>1. ASSUME NEW relinquished, ProbeConflict(relinquished)
      PROVE  ProbedInOrder'
  <2>1. CASE handle_preauthoritative_conflict(relinquished)
    <3>1. UNCHANGED <<state, phase, patience>>
      BY <2>1 DEF handle_preauthoritative_conflict
    <3>2. CASE probe_on_wire
      <4>1. Classified'
        <5>1. tiebreak_lost' \/ probe_defeated'
          BY <2>1, <3>2, Zenon DEF handle_preauthoritative_conflict
        <5> QED
          BY <5>1 DEF Classified
      <4> QED
        BY <3>1, <4>1 DEF ProbedInOrder
    <3>3. CASE ~probe_on_wire
      <4>1. Classified => Classified'
        <5>1. (tiebreak_lost => tiebreak_lost') /\ (probe_defeated => probe_defeated')
          BY <2>1, Zenon DEF handle_preauthoritative_conflict
        <5> QED
          BY <5>1 DEF Classified
      <4>2. UNCHANGED <<heard, excused>>
        BY <2>1, <3>3 DEF handle_preauthoritative_conflict
      <4> QED
        BY <3>1, <4>1, <4>2 DEF ProbedInOrder, ProbesHeard
    <3> QED
      BY <3>2, <3>3
  <2>2. CASE RevertToProbing
    <3>1. CASE RecentlyReprobed
      BY <2>2, <3>1 DEF RevertToProbing, verdict, ProbedInOrder, ProbesHeard, Classified
    <3>2. CASE ~RecentlyReprobed
      BY <2>2, <3>2, RestartProbes DEF RevertToProbing
    <3> QED
      BY <3>1, <3>2
  <2> QED
    BY <1>1, <2>1, <2>2 DEF ProbeConflict
<1>2. CASE LoseTiebreak
  <2>1. Classified' /\ UNCHANGED <<state, patience>>
    BY <1>2 DEF LoseTiebreak, Classified, pacing
  <2> QED
    BY <2>1 DEF ProbedInOrder
<1>3. CASE UNCHANGED <<state, phase, patience, heard, excused, probe_defeated, tiebreak_lost>>
  BY <1>3 DEF ProbedInOrder, ProbesHeard, Classified
<1>4. CASE HostConflict \/ SiblingConflict \/ EndOfDatagram \/ Tick \/ UNCHANGED vars
  BY <1>3, <1>4, Bystanders
<1>5. CASE PollTransmit
  BY <1>3, <1>5 DEF PollTransmit, verdict, pacing, history
<1>6. CASE \E kind \in AllQuestions : Question(kind)
  BY <1>3, <1>6 DEF Question, verdict, pacing, history
<1>7. CASE Withdraw
  BY <1>3, <1>7 DEF Withdraw, verdict, pacing, history
<1>8. CASE \E u \in {"Established", "Renamed", "Conflict", "HostConflict"} : PollUpdate(u)
  BY <1>3, <1>7, <1>8 DEF PollUpdate, verdict, pacing, history
<1> QED
  BY <1>1, <1>2, <1>4, <1>5, <1>6, <1>7, <1>8, TimeoutProbed, ConfirmProbed
  DEF Next, Unregister

(* Every family not given up on hears one probe per phase, through partial *)
(* rounds, retries, deferrals and restarts.                                *)
THEOREM ProbedInvariant == Spec => []ProbedInOrder
<1>1. Init => ProbedInOrder
  BY DEF Init, ProbedInOrder, FreshPatience
<1>2. Shape /\ UnclaimedUntilProbed /\ ProbedInOrder /\ [Next]_vars => ProbedInOrder'
  BY ProbedStep
<1> QED
  BY <1>1, <1>2, ShapeInvariant, UnclaimedInvariant, PTL DEF Spec

(* Only `poll_transmit` hands a datagram out.                              *)
LEMMA OnlyPollHandsOut ==
  ASSUME [Next]_vars, token = NoToken, token'.kind # "None"
  PROVE  PollTransmit
<1>1. token.kind = "None"
  BY DEF NoToken
<1>2. token' # token
  BY <1>1
<1>3. \A renamed : ~stale_live_commit_token(renamed)
  BY <1>1 DEF stale_live_commit_token
<1>4. ~HandleTimeout
  BY <1>2, <1>3 DEF HandleTimeout, DeferAfterTiebreak, Rename, GiveUpName, FireTimers,
                    restart_probe_cycle
<1>5. ~\E relinquished : ProbeConflict(relinquished)
  BY <1>2, <1>3 DEF ProbeConflict, handle_preauthoritative_conflict, RevertToProbing, queues,
                    restart_probe_cycle
<1>6. ~\E sockets, offered : Confirm(sockets, offered)
  BY DEF Confirm
<1>7. ~LoseTiebreak
  BY <1>2 DEF LoseTiebreak, queues
<1>8. ~Withdraw /\ ~\E kind : Question(kind)
  BY <1>2 DEF Withdraw, Question
<1>9. ~\E u : PollUpdate(u)
  BY <1>2, <1>8 DEF PollUpdate, queues
<1>10. ~(HostConflict \/ SiblingConflict \/ EndOfDatagram \/ Tick \/ UNCHANGED vars)
  BY <1>2, Bystanders
<1> QED
  BY <1>4, <1>5, <1>6, <1>7, <1>8, <1>9, <1>10 DEF Next, Unregister

(* No datagram that claims the name is handed to a driver before every     *)
(* family has heard three probes of this generation or has been given up   *)
(* on: for every number of families, every socket behaviour and every      *)
(* order of conflicts, timers and confirms.                                *)
THEOREM ClaimsAreProbed == Spec => ClaimsWaitForProbes
<1>1. ASSUME Shape, ProbedInOrder', UnclaimedUntilProbed', [Next]_vars
      PROVE  [Claiming => \A f \in Families : heard[f] = 3 \/ f \in excused]_vars
  <2> SUFFICES ASSUME Claiming
               PROVE  \A f \in Families : heard[f] = 3 \/ f \in excused
    OBVIOUS
  <2>1. token = NoToken /\ token'.kind \in ClaimKinds
    BY DEF Claiming, ClaimKinds
  <2>2. UNCHANGED <<heard, excused>>
    BY <1>1, <2>1, OnlyPollHandsOut DEF PollTransmit, ClaimKinds, history
  <2>3. state' \in {"Announcing", "Established"} /\ ~Classified'
    BY <1>1, <2>1 DEF UnclaimedUntilProbed, NoClaimQueued
  <2> QED
    BY <1>1, <2>2, <2>3 DEF ProbedInOrder
<1> QED
  BY <1>1, ShapeInvariant, ProbedInvariant, UnclaimedInvariant, PTL DEF Spec, ClaimsWaitForProbes

-----------------------------------------------------------------------------
(* What a goodbye will retract is what peers may hold.                     *)

(***************************************************************************)
(* The goodbye set G tagged with the owner of each record under name n.    *)
(***************************************************************************)
Owned(n, G) == {<<Owner(g[1], n), g[1], g[2]>> : g \in G}

(* Moving off a name hands its instance records over and keeps the host's. *)
LEMMA HandoffExact ==
  ASSUME Shape, NEW n
  PROVE  RenameHandoff \cup Owned(n, ResetInstance) = Owned(name, goodbye)
<1> USE ServiceAssumption
<1>1. \A g \in goodbye : g[1] \in AllKinds
  BY DEF Shape
<1>2. Owned(n, ResetInstance) \subseteq Owned(name, goodbye)
  BY DEF Owned, ResetInstance, Owner
<1>3. RenameHandoff \subseteq Owned(name, goodbye)
  BY DEF Owned, RenameHandoff, Owner, InstanceKinds
<1>4. ASSUME NEW g \in goodbye
      PROVE  <<Owner(g[1], name), g[1], g[2]>> \in RenameHandoff \cup Owned(n, ResetInstance)
  <2>1. CASE g[1] = "host"
    BY <1>4, <2>1 DEF Owned, ResetInstance, Owner
  <2>2. CASE g[1] # "host"
    BY <1>1, <1>4, <2>2 DEF RenameHandoff, InstanceKinds, Owner
  <2> QED
    BY <2>1, <2>2
<1>5. Owned(name, goodbye) \subseteq RenameHandoff \cup Owned(n, ResetInstance)
  BY <1>4 DEF Owned
<1> QED
  BY <1>2, <1>3, <1>5

(* Owner tagging distributes over the records of two datagrams.            *)
LEMMA OwnedUnion ==
  ASSUME NEW n, NEW G, NEW H
  PROVE  Owned(n, G \cup H) = Owned(n, G) \cup Owned(n, H)
BY DEF Owned

(* A confirm records as retractable exactly what it put on the wire.       *)
LEMMA ConfirmExact ==
  ASSUME Shape, UnclaimedUntilProbed, DefeatMeetsNoRecords, InFlightUnderName,
         GoodbyesAreExact, NEW sockets, NEW offered, Confirm(sockets, offered)
  PROVE  GoodbyesAreExact'
<1> DEFINE attempts == AttemptsAt(sockets, offered)
           t == Anchor(attempts, offered)
           advance == AdvanceOf(patience, attempts)
           exposed == Exposed(token.records, attempts)
<1>1. /\ name' = name
      /\ wire' = wire \cup Owned(token.name, exposed)
      /\ \/ ConfirmProbe(t, attempts) \/ ConfirmAnnouncement(t, attempts)
         \/ ConfirmResponse(attempts) \/ ConfirmStale(attempts)
  BY DEF Confirm, naming, Owned, Exposed
<1>2. wire' = wire \cup Owned(name, exposed)
  <2>1. CASE token.records = {}
    <3>1. exposed = {}
      BY <2>1 DEF Exposed
    <3> QED
      BY <1>1, <3>1 DEF Owned
  <2>2. CASE token.records # {}
    BY <1>1, <2>2 DEF InFlightUnderName
  <2> QED
    BY <2>1, <2>2
<1>3. handed_off' = handed_off /\ goodbye' = goodbye \cup exposed
  <2>1. CASE ConfirmProbe(t, attempts)
    <3>1. exposed = {}
      BY <2>1 DEF ConfirmProbe, DefeatMeetsNoRecords, Exposed
    <3> QED
      BY <2>1, <3>1 DEF ConfirmProbe
  <2>2. CASE ConfirmAnnouncement(t, attempts)
    <3>1. advance = "Failed" => exposed = {}
      BY DEF AdvanceOf, Exposed
    <3> QED
      BY <2>2, <3>1 DEF ConfirmAnnouncement, AnnouncementFailed, AnnouncementHeard
  <2>3. CASE ConfirmResponse(attempts)
    BY <2>3 DEF ConfirmResponse
  <2>4. CASE ConfirmStale(attempts)
    BY <2>4 DEF ConfirmStale, DefeatMeetsNoRecords
  <2> QED
    BY <1>1, <2>1, <2>2, <2>3, <2>4
<1>4. Owned(name, goodbye') = Owned(name, goodbye) \cup Owned(name, exposed)
  BY <1>3, OwnedUnion
<1> QED
  BY <1>1, <1>2, <1>3, <1>4 DEF GoodbyesAreExact, Retractable, Owned

(* A rename or a terminal conflict loses no goodbye and adds none.         *)
LEMMA TimeoutExact ==
  ASSUME Shape, DefeatMeetsNoRecords, InFlightUnderName, GoodbyesAreExact, HandleTimeout
  PROVE  InFlightUnderName' /\ GoodbyesAreExact'
<1>1. wire' = wire
  BY DEF HandleTimeout
<1>2. ASSUME NEW renamed, stale_live_commit_token(renamed)
      PROVE  token'.records = token.records /\ token'.name = token.name
  BY <1>2 DEF stale_live_commit_token
<1>3. CASE DeferAfterTiebreak
  BY <1>1, <1>2, <1>3 DEF DeferAfterTiebreak, restart_probe_cycle, claims, naming,
                          InFlightUnderName, GoodbyesAreExact, Retractable
<1>4. CASE Rename \/ GiveUpName
  <2>1. token'.records = {}
    BY <1>2, <1>4 DEF Rename, GiveUpName, restart_probe_cycle, DefeatMeetsNoRecords
  <2>2. handed_off' = handed_off \cup RenameHandoff /\ goodbye' = ResetInstance
    BY <1>4 DEF Rename, GiveUpName
  <2>3. RenameHandoff \cup Owned(name', ResetInstance) = Owned(name, goodbye)
    BY HandoffExact
  <2>4. Retractable' = handed_off' \cup Owned(name', goodbye')
    BY DEF Retractable, Owned
  <2>5. Retractable = handed_off \cup Owned(name, goodbye)
    BY DEF Retractable, Owned
  <2>6. Retractable' = Retractable
    BY <2>2, <2>3, <2>4, <2>5
  <2> QED
    BY <1>1, <2>1, <2>6 DEF InFlightUnderName, GoodbyesAreExact
<1>5. CASE FireTimers
  BY <1>1, <1>5 DEF FireTimers, claims, naming, InFlightUnderName, GoodbyesAreExact, Retractable
<1> QED
  BY <1>3, <1>4, <1>5 DEF HandleTimeout

(* No step puts the goodbyes and the wire out of step.                     *)
LEMMA ExactStep ==
  ASSUME Shape, UnclaimedUntilProbed, DefeatMeetsNoRecords, InFlightUnderName,
         GoodbyesAreExact, [Next]_vars
  PROVE  InFlightUnderName' /\ GoodbyesAreExact'
<1>1. CASE PollTransmit
  <2>1. UNCHANGED <<name, goodbye, handed_off, wire>>
    BY <1>1 DEF PollTransmit, naming, claims, history
  <2>2. token'.records # {} => token'.name = name
    BY <1>1 DEF PollTransmit, EmitMeta, EmitLegacy, EmitPending, EmitNothing, NewToken, NoToken
  <2> QED
    BY <2>1, <2>2 DEF InFlightUnderName, GoodbyesAreExact, Retractable
<1>2. ASSUME NEW sockets, NEW offered, Confirm(sockets, offered)
      PROVE  InFlightUnderName' /\ GoodbyesAreExact'
  <2>1. token'.records = {}
    BY <1>2 DEF Confirm, NoToken
  <2> QED
    BY <1>2, <2>1, ConfirmExact DEF InFlightUnderName
<1>3. CASE UNCHANGED <<name, goodbye, handed_off, wire, token>>
  BY <1>3 DEF InFlightUnderName, GoodbyesAreExact, Retractable
<1>4. ASSUME NEW relinquished, ProbeConflict(relinquished)
      PROVE  InFlightUnderName' /\ GoodbyesAreExact'
  <2>1. UNCHANGED <<name, goodbye, handed_off, wire>>
    BY <1>4 DEF ProbeConflict, claims, naming
  <2>2. token'.records = token.records /\ token'.name = token.name
    <3>1. CASE handle_preauthoritative_conflict(relinquished)
      BY <3>1 DEF handle_preauthoritative_conflict, queues
    <3>2. CASE RevertToProbing /\ RecentlyReprobed
      BY <3>2 DEF RevertToProbing, queues
    <3>3. CASE RevertToProbing /\ ~RecentlyReprobed
      <4>1. PICK base : restart_probe_cycle(base, FALSE, flood')
        BY <3>3 DEF RevertToProbing
      <4> QED
        BY <4>1 DEF restart_probe_cycle, stale_live_commit_token
    <3> QED
      BY <1>4, <3>1, <3>2, <3>3 DEF ProbeConflict
  <2> QED
    BY <2>1, <2>2 DEF InFlightUnderName, GoodbyesAreExact, Retractable
<1>5. CASE LoseTiebreak
  BY <1>3, <1>5 DEF LoseTiebreak, queues, claims, naming
<1>6. CASE HostConflict \/ SiblingConflict \/ EndOfDatagram \/ Tick \/ UNCHANGED vars
  BY <1>3, <1>6, Bystanders
<1>7. CASE \E kind \in AllQuestions : Question(kind)
  BY <1>3, <1>7 DEF Question, claims, naming, history
<1>8. CASE Withdraw
  BY <1>8 DEF Withdraw, naming, history, InFlightUnderName, GoodbyesAreExact, Retractable
<1>9. CASE \E u \in {"Established", "Renamed", "Conflict", "HostConflict"} : PollUpdate(u)
  BY <1>3, <1>8, <1>9 DEF PollUpdate, queues, claims, naming, history
<1> QED
  BY <1>1, <1>2, <1>4, <1>5, <1>6, <1>7, <1>8, <1>9, TimeoutExact DEF Next, Unregister

(* Through renames, conflicts and late confirms, what the goodbyes will    *)
(* retract is exactly what peers may hold, record by record and family by  *)
(* family: for every set of records, families and socket behaviours, and   *)
(* whether or not the driver confirms before anything else.                *)
THEOREM GoodbyesExact == Spec => []GoodbyesAreExact
<1>1. Init => InFlightUnderName /\ GoodbyesAreExact
  BY DEF Init, InFlightUnderName, NoToken, GoodbyesAreExact, Retractable
<1>2. Shape /\ UnclaimedUntilProbed /\ DefeatMeetsNoRecords /\ InFlightUnderName
        /\ GoodbyesAreExact /\ [Next]_vars
      => InFlightUnderName' /\ GoodbyesAreExact'
  BY ExactStep
<1> QED
  BY <1>1, <1>2, ShapeInvariant, UnclaimedInvariant, NoRecordsAtDefeat, PTL DEF Spec

-----------------------------------------------------------------------------

(***************************************************************************)
(* The clocks of a service. An epoch of conflicts is latched at an         *)
(* instant, or not at all.                                                 *)
(***************************************************************************)
FloodTyped(f) ==
  /\ f = [ring |-> f.ring, slot |-> f.slot, latched_at |-> f.latched_at,
          accepted |-> f.accepted]
  /\ f.latched_at \in Nat \cup {None}

(***************************************************************************)
(* The types of what is measured in ticks.                                 *)
(***************************************************************************)
Clocked ==
  /\ now \in Instant /\ token.since \in 0 .. now
  /\ lifecycle_deadline \in Deadline
  /\ last_delivered \in [Families -> Nat \cup {None}]
  /\ streak \in Nat /\ sequence_started_at \in Nat
  /\ FloodTyped(flood)

(* A conflict that is accepted is counted in a flood of the same shape.    *)
LEMMA FloodKept ==
  ASSUME NEW f, FloodTyped(f), NEW t \in Nat, NEW owner
  PROVE  FloodTyped(accept(f, t, FALSE, owner))
<1> DEFINE g(X) == [f EXCEPT !.accepted = X]
<1>1. \A X : g(X) = [ring |-> f.ring, slot |-> f.slot, latched_at |-> f.latched_at, accepted |-> X]
  BY DEF FloodTyped
<1>2. ASSUME NEW X
      PROVE  FloodTyped(g(X)) /\ FloodTyped(Count(g(X), t))
  <2>1. FloodTyped(g(X))
    BY <1>1 DEF FloodTyped
  <2>2. Count(g(X), t).latched_at \in Nat \cup {None}
    <3>1. g(X).latched_at \in Nat \cup {None}
      BY <1>1 DEF FloodTyped
    <3>2. [NewFlood EXCEPT !.accepted = g(X).accepted].latched_at \in Nat \cup {None}
      BY DEF NewFlood
    <3> HIDE DEF g
    <3> QED
      BY <3>1, <3>2 DEF Count
  <2> QED
    BY <2>1, <2>2 DEF FloodTyped, Count
<1> QED
  BY <1>2 DEF accept

(* The back-off floor is an instant or none.                               *)
LEMMA FloorType ==
  ASSUME Clocked, NEW f, FloodTyped(f), NEW s \in Nat, NEW d \in Deadline
  PROVE  backoff_floor(f, s) \in Deadline /\ apply_backoff_floor(f, s, d) \in Deadline
<1>1. latch_epoch(f, now) \in Nat \cup {None}
  BY DEF latch_epoch, FloodTyped
<1>2. backoff_floor(f, s) \in Deadline
  BY <1>1, CheckedAdd, FloodAssumption DEF backoff_floor
<1>3. apply_backoff_floor(f, s, d) \in Deadline
  BY <1>2, ClockAssumption DEF apply_backoff_floor, Later, Deadline
<1> QED
  BY <1>2, <1>3

(* A datagram is dated no later than its report and no earlier than it was *)
(* handed out.                                                             *)
LEMMA AnchorType ==
  ASSUME Clocked, NEW attempts, NEW offered \in Offers
  PROVE  Anchor(attempts, offered) \in 0 .. now /\ token.since <= Anchor(attempts, offered)
<1> DEFINE accepted == {offered[f] : f \in Delivered(attempts)}
<1>1. accepted \in SUBSET Nat /\ \A t \in accepted : t \in 0 .. now /\ token.since <= t
  BY DEF Offers, Clocked, Delivered, Instant
<1>2. CASE accepted = {}
  BY <1>2, ClockAssumption DEF Anchor, Clocked, Instant
<1>3. CASE accepted # {}
  <2>1. (CHOOSE t \in accepted : \A u \in accepted : t <= u) \in accepted
    BY <1>1, <1>3, EarliestExists
  <2> QED
    BY <1>1, <1>3, <2>1 DEF Anchor
<1> QED
  BY <1>2, <1>3

-----------------------------------------------------------------------------
(* Every deadline the service arms is one the clock can express.           *)

(* A new generation starts its clocks from the present.                    *)
LEMMA RestartClocked ==
  ASSUME Clocked, NEW base \in Deadline, NEW renamed, NEW f, FloodTyped(f),
         restart_probe_cycle(base, renamed, f)
  PROVE  /\ lifecycle_deadline' \in Deadline /\ sequence_started_at' \in Nat
         /\ token'.since = token.since
<1>1. now \in Nat
  BY ClockAssumption DEF Clocked, Instant
<1> QED
  BY <1>1, FloorType DEF restart_probe_cycle, stale_live_commit_token

(* The first probe's wait, raised to the floor a flood sets.               *)
LEMMA FlooredType ==
  ASSUME Clocked, NEW d \in Deadline
  PROVE  FloorFirstProbe(d) \in Deadline
BY FloorType DEF FloorFirstProbe, Clocked

(* Whatever handle_timeout decides with is a deadline.                     *)
LEMMA FiredType ==
  ASSUME Clocked, NEW d \in DeadlinesToFire
  PROVE  d \in Deadline
<1>1. CASE startup_parked
  <2>1. PICK base \in probe_deadlines(now, 0) :
               d = apply_backoff_floor(flood, sequence_started_at, base)
    BY <1>1 DEF DeadlinesToFire
  <2>2. base \in Deadline
    BY <2>1, ProbeWait, ClockAssumption DEF Clocked, Instant
  <2> QED
    BY <2>1, <2>2, FloorType DEF Clocked
<1>2. CASE ~startup_parked
  BY <1>2 DEF DeadlinesToFire, Clocked
<1> QED
  BY <1>1, <1>2

(* handle_timeout arms only deadlines the clock can express.               *)
LEMMA TimeoutClocked ==
  ASSUME Clocked, HandleTimeout
  PROVE  Clocked'
<1>1. /\ UNCHANGED <<now, flood>> /\ now \in Nat /\ now \in Int /\ FloodTyped(flood)
  BY ClockAssumption DEF HandleTimeout, limit, Clocked, Instant
<1>2. CASE DeferAfterTiebreak
  <2>1. checked_add(now, TIEBREAK_DEFER_WAIT) \in Deadline
    BY <1>1, CheckedAdd, ScheduleAssumption
  <2>2. restart_probe_cycle(checked_add(now, TIEBREAK_DEFER_WAIT), FALSE, flood)
    BY <1>2 DEF DeferAfterTiebreak
  <2> QED
    BY <1>1, <1>2, <2>1, <2>2, RestartClocked DEF DeferAfterTiebreak, Clocked
<1>3. CASE Rename
  <2>1. PICK base \in probe_deadlines(now, 0) : restart_probe_cycle(base, TRUE, flood)
    BY <1>3 DEF Rename
  <2>2. base \in Deadline
    BY <1>1, ProbeWait
  <2> QED
    BY <1>1, <1>3, <2>1, <2>2, RestartClocked DEF Rename, Clocked
<1>4. CASE GiveUpName
  BY <1>1, <1>4 DEF GiveUpName, stale_live_commit_token, Clocked, Deadline
<1>5. CASE FireTimers
  <2>1. PICK d \in DeadlinesToFire :
          \/ Due(FloorFirstProbe(d), now) /\ FireLifecycle
          \/ lifecycle_deadline' = FloorFirstProbe(d)
    BY <1>5 DEF FireTimers
  <2>2. \A n : probe_deadlines(now, n) \subseteq Deadline
    BY <1>1, ProbeWait
  <2>3. lifecycle_deadline' \in Deadline
    BY <1>1, <2>1, <2>2, FiredType, FlooredType, AnnounceWaits DEF FireLifecycle
  <2> QED
    BY <1>1, <1>5, <2>3 DEF FireTimers, pacing, Clocked
<1> QED
  BY <1>2, <1>3, <1>4, <1>5 DEF HandleTimeout

(* So does poll_transmit when it holds a first probe back.                 *)
LEMMA PollClocked ==
  ASSUME Clocked, PollTransmit
  PROVE  Clocked'
<1>1. UNCHANGED <<now, last_delivered, streak, sequence_started_at, flood>>
  BY DEF PollTransmit, pacing, limit
<1>2. lifecycle_deadline' \in Deadline
  <2>1. backoff_floor(flood, sequence_started_at) \in Deadline
    BY FloorType DEF Clocked
  <2> QED
    BY <2>1 DEF PollTransmit, DeferFirstProbe, Clocked
<1>3. token'.since \in 0 .. now
  BY ClockAssumption
  DEF PollTransmit, EmitMeta, EmitLegacy, EmitPending, EmitNothing, NewToken, NoToken, Clocked,
      Instant
<1> QED
  BY <1>1, <1>2, <1>3 DEF Clocked

(* A heard announcement arms a refresh in time for every family in good    *)
(* standing, and none only when there is none to arm.                      *)
LEMMA ArmedInTime ==
  ASSUME NEW t \in Nat, NEW st \in {"Announcing", "Established"}, NEW advance,
         NEW rung \in Nat, NEW armed \in Deadline,
         NEW delivered \in [Families -> Nat \cup {None}], NEW pat
  PROVE  LET d == arm_announcement(t, st, advance, rung, armed, delivered, pat)
         IN /\ d \in Deadline
            /\ d = None => \/ st = "Established" /\ ~ReAnnounce
                           \/ t + RefreshWait > MaxInstant
                           \/ st = "Announcing" /\ armed = None
            /\ d # None => \A f \in Families :
                 (delivered[f] # None /\ ~pat[f].stalled)
                   => d <= Later(delivered[f] + RefreshWait, t + ANNOUNCE_INTERVAL)
<1> DEFINE onLadder == advance = "Partial" \/ (advance \in {"Covered", "Excused"} /\ rung > 0)
           base == IF st = "Established" THEN re_announce_deadline(t)
                   ELSE IF onLadder THEN partial_announce_deadline(t, rung) ELSE armed
           due == stalest_refresh_due(delivered, pat)
           d == arm_announcement(t, st, advance, rung, armed, delivered, pat)
<1>1. base \in Deadline /\ (base = None => \/ t + RefreshWait > MaxInstant
                                           \/ st = "Announcing" /\ armed = None)
  BY AnnounceWaits, RungType
<1>2. d = IF st = "Established" /\ ~ReAnnounce THEN None
          ELSE compose_announce_deadline(t, base, due)
  BY DEF arm_announcement
<1>3. /\ due \in Nat \cup {None}
      /\ \A f \in Families : (/\ delivered[f] # None /\ ~pat[f].stalled
                            /\ delivered[f] + RefreshWait <= MaxInstant)
                           => due # None /\ due <= delivered[f] + RefreshWait
  BY StalestDue
<1> HIDE DEF base, due, d
<1>4. ASSUME NEW f \in Families, delivered[f] # None, ~pat[f].stalled, d # None
      PROVE  d <= Later(delivered[f] + RefreshWait, t + ANNOUNCE_INTERVAL)
  <2> DEFINE refresh == delivered[f] + RefreshWait
             later == Later(refresh, t + ANNOUNCE_INTERVAL)
  <2>1. refresh \in Int /\ t + ANNOUNCE_INTERVAL \in Int
    BY <1>4, Waits
  <2>2. later \in Int /\ refresh <= later /\ t + ANNOUNCE_INTERVAL <= later
    BY <2>1 DEF Later
  <2>3. refresh <= MaxInstant => due # None /\ due <= refresh
    BY <1>3, <1>4
  <2>4. d \in Deadline /\ (due # None => d <= due \/ d <= t + ANNOUNCE_INTERVAL)
    BY <1>1, <1>2, <1>3, <1>4, ComposedDeadline
  <2>5. d \in Int /\ d <= MaxInstant
    BY <1>4, <2>4 DEF Deadline
  <2> HIDE DEF refresh, later
  <2>6. d <= later
    BY <1>3, <2>1, <2>2, <2>3, <2>4, <2>5, ClockAssumption
  <2> QED
    BY <2>6 DEF later, refresh
<1>5. d \in Deadline /\ (d = None => \/ st = "Established" /\ ~ReAnnounce
                                     \/ base = None)
  BY <1>1, <1>2, <1>3, ComposedDeadline DEF Deadline
<1> QED
  BY <1>1, <1>4, <1>5 DEF d

(* A confirm dates its deadlines from the earliest acceptance.             *)
LEMMA ConfirmClocked ==
  ASSUME Shape, UnclaimedUntilProbed, Clocked, NEW sockets, NEW offered \in Offers,
         Confirm(sockets, offered)
  PROVE  Clocked'
<1> DEFINE attempts == AttemptsAt(sockets, offered)
           t == Anchor(attempts, offered)
           advance == AdvanceOf(patience, attempts)
<1>1. t \in 0 .. now /\ now \in Nat /\ t \in Nat
  BY AnchorType, ClockAssumption DEF Clocked, Instant
<1>2. /\ token' = NoToken /\ UNCHANGED <<now, sequence_started_at, flood>>
      /\ \/ ConfirmProbe(t, attempts) \/ ConfirmAnnouncement(t, attempts)
         \/ ConfirmResponse(attempts) \/ ConfirmStale(attempts)
  BY DEF Confirm, limit
<1>3. token'.since \in 0 .. now'
  BY <1>1, <1>2 DEF NoToken
<1> HIDE DEF attempts, t
<1>4. CASE ConfirmProbe(t, attempts)
  <2>1. \A n : probe_deadlines(t, n) \subseteq Deadline
    BY <1>1, ProbeWait
  <2>2. probe_retry_deadline(t) \in Deadline
    BY <1>1, CheckedAdd, Waits DEF probe_retry_deadline
  <2>3. SettledAnnounce(t, advance) \in Deadline
    <3>1. /\ partial_announce_deadline(t, streak) \in Deadline
          /\ announce_deadline(t, 0) \in Deadline
          /\ checked_add(t, PROBE_INTERVAL) \in Deadline
      BY <1>1, RungType, AnnounceWaits, CheckedAdd, Waits DEF Clocked
    <3> QED
      BY <3>1, ClockAssumption DEF SettledAnnounce, Later, Deadline
  <2>4. lifecycle_deadline' \in Deadline /\ streak' \in Nat
    BY <1>4, <2>1, <2>2, <2>3 DEF ConfirmProbe, Clocked
  <2> QED
    BY <1>2, <1>3, <1>4, <2>4 DEF ConfirmProbe, Clocked
<1>5. CASE ConfirmAnnouncement(t, attempts)
  <2>1. state \in {"Announcing", "Established"}
    BY <1>5 DEF ConfirmAnnouncement, UnclaimedUntilProbed, NoClaimQueued, ClaimKinds
  <2>2. LastDelivered(t, attempts) \in [Families -> Nat \cup {None}]
    BY <1>1 DEF LastDelivered, Clocked
  <2>3. last_delivered' \in [Families -> Nat \cup {None}]
    BY <1>5, <2>2 DEF ConfirmAnnouncement
  <2>4. CASE AnnouncementFailed(t)
    BY <1>1, <1>2, <1>3, <2>3, <2>4, AnnounceWaits DEF AnnouncementFailed, Clocked
  <2>5. CASE AnnouncementHeard(t, attempts, advance)
    <3>1. NextRung(streak) \in Nat
      BY ScheduleAssumption DEF NextRung, Sooner, Clocked
    <3>2. streak' \in Nat
      BY <2>5, <3>1 DEF AnnouncementHeard
    <3>3. PICK st \in {"Announcing", "Established"}, rung \in Nat, armed \in Deadline :
            lifecycle_deadline' = arm_announcement(t, st, advance, rung, armed,
                                    LastDelivered(t, attempts), PatienceAfter(patience, attempts))
      BY <1>1, <2>1, <2>5, AnnounceWaits DEF AnnouncementHeard, Clocked
    <3>4. lifecycle_deadline' \in Deadline
      BY <1>1, <2>2, <3>3, ArmedInTime
    <3> QED
      BY <1>2, <1>3, <2>3, <3>2, <3>4 DEF Clocked
  <2> QED
    BY <1>5, <2>4, <2>5 DEF ConfirmAnnouncement
<1>6. CASE ConfirmResponse(attempts) \/ ConfirmStale(attempts)
  BY <1>2, <1>3, <1>6 DEF ConfirmResponse, ConfirmStale, pacing, Clocked
<1> QED
  BY <1>2, <1>4, <1>5, <1>6

(* A conflict counted at the present instant leaves the flood typed.       *)
LEMMA CountedNow ==
  ASSUME Clocked
  PROVE  now \in Nat /\ \A owner : FloodTyped(accept(flood, now, FALSE, owner))
<1>1. now \in Nat /\ FloodTyped(flood)
  BY ClockAssumption DEF Clocked, Instant
<1>2. ASSUME NEW owner PROVE FloodTyped(accept(flood, now, FALSE, owner))
  BY <1>1, FloodKept
<1> QED
  BY <1>1, <1>2

(* A conflict counts at the present instant, and may start over.           *)
LEMMA ConflictClocked ==
  ASSUME Clocked, NEW relinquished, ProbeConflict(relinquished)
  PROVE  Clocked'
<1>1. /\ UNCHANGED <<now, streak, last_delivered>> /\ now \in Nat
      /\ \A owner : FloodTyped(accept(flood, now, FALSE, owner))
  BY CountedNow DEF ProbeConflict
<1>2. CASE handle_preauthoritative_conflict(relinquished)
  <2>1. FloodTyped(flood')
    BY <1>1, <1>2 DEF handle_preauthoritative_conflict, AcceptIfEligible, Clocked
  <2>2. FloodTyped(flood)'
    BY <2>1 DEF FloodTyped
  <2> QED
    BY <1>1, <1>2, <2>2 DEF handle_preauthoritative_conflict, clocks, queues, Clocked
<1>3. CASE RevertToProbing
  <2>1. FloodTyped(flood')
    BY <1>1, <1>3 DEF RevertToProbing
  <2>2. FloodTyped(flood)'
    BY <2>1 DEF FloodTyped
  <2>3. CASE RecentlyReprobed
    BY <1>1, <1>3, <2>2, <2>3 DEF RevertToProbing, clocks, queues, Clocked
  <2>4. CASE ~RecentlyReprobed
    <3>1. PICK base \in probe_deadlines(now, 0) : restart_probe_cycle(base, FALSE, flood')
      BY <1>3, <2>4 DEF RevertToProbing
    <3>2. base \in Deadline
      BY <1>1, ProbeWait
    <3>3. /\ lifecycle_deadline' \in Deadline /\ sequence_started_at' \in Nat
          /\ token'.since = token.since
      BY <2>1, <3>1, <3>2, RestartClocked
    <3> QED
      BY <1>1, <2>2, <3>3 DEF Clocked
  <2> QED
    BY <2>3, <2>4
<1> QED
  BY <1>2, <1>3 DEF ProbeConflict

(* No step arms a deadline the clock cannot express, or dates a datagram   *)
(* in the future.                                                          *)
LEMMA ClockedStep ==
  ASSUME Shape, UnclaimedUntilProbed, Clocked, [Next]_vars
  PROVE  Clocked'
<1>1. now \in Nat /\ \A owner : FloodTyped(accept(flood, now, FALSE, owner))
  BY CountedNow
<1>2. CASE UNCHANGED <<now, token, lifecycle_deadline, last_delivered, streak,
                       sequence_started_at>>
            /\ FloodTyped(flood')
  <2>1. FloodTyped(flood)'
    BY <1>2 DEF FloodTyped
  <2> QED
    BY <1>2, <2>1 DEF Clocked
<1>3. CASE UNCHANGED <<now, token, lifecycle_deadline, last_delivered, streak,
                       sequence_started_at, flood>>
  BY <1>2, <1>3 DEF Clocked
<1>4. CASE LoseTiebreak
  BY <1>1, <1>2, <1>4 DEF LoseTiebreak, clocks, queues, pacing
<1>5. CASE HostConflict
  <2>1. FloodTyped(flood')
    BY <1>1, <1>5 DEF HostConflict, AcceptIfEligible, Clocked
  <2> QED
    BY <1>2, <1>5, <2>1 DEF HostConflict, clocks, queues, pacing
<1>6. CASE SiblingConflict
  BY <1>1, <1>2, <1>6 DEF SiblingConflict, clocks, queues, pacing
<1>7. CASE EndOfDatagram
  <2>1. FloodTyped([flood EXCEPT !.accepted = {}])
    <3>1. [flood EXCEPT !.accepted = {}]
            = [ring |-> flood.ring, slot |-> flood.slot, latched_at |-> flood.latched_at,
               accepted |-> {}]
      BY DEF Clocked, FloodTyped
    <3> QED
      BY <3>1 DEF Clocked, FloodTyped
  <2> QED
    BY <1>2, <1>7, <2>1 DEF EndOfDatagram, clocks, queues, pacing
<1>8. CASE Tick
  <2>1. now' \in Instant /\ token'.since \in 0 .. now'
    BY <1>8, ClockAssumption DEF Tick, queues, Clocked, Instant
  <2> QED
    BY <1>8, <2>1 DEF Tick, clocks, queues, pacing, limit, Clocked
<1>9. CASE \E kind \in AllQuestions : Question(kind)
  BY <1>3, <1>9 DEF Question, pacing, limit
<1>10. CASE Withdraw
  BY <1>10 DEF Withdraw, pacing, limit, Clocked, Deadline
<1>11. CASE \E u \in {"Established", "Renamed", "Conflict", "HostConflict"} : PollUpdate(u)
  <2>1. PICK u : PollUpdate(u)
    BY <1>11
  <2> QED
    BY <1>3, <1>10, <2>1 DEF PollUpdate, clocks, queues, pacing, limit
<1>12. CASE UNCHANGED vars
  BY <1>3, <1>12 DEF vars, clocks, queues, pacing, limit
<1> QED
  BY <1>4, <1>5, <1>6, <1>7, <1>8, <1>9, <1>10, <1>11, <1>12, TimeoutClocked, PollClocked,
     ConfirmClocked, ConflictClocked
  DEF Next, Unregister

(* The clocks keep their types in every service.                           *)
THEOREM ClockedInvariant == Spec => []Clocked
<1>1. Init => Clocked
  <2> SUFFICES ASSUME Init PROVE Clocked
    OBVIOUS
  <2>1. 0 \in Instant /\ token.since = 0 /\ now = 0
    BY ClockAssumption DEF Init, NoToken, Instant
  <2>2. lifecycle_deadline \in Deadline
    BY ProbeWait, AnnounceWaits DEF Init
  <2>3. FloodTyped(flood)
    BY DEF Init, FloodTyped, NewFlood
  <2> QED
    BY <2>1, <2>2, <2>3 DEF Init, Clocked
<1>2. Shape /\ UnclaimedUntilProbed /\ Clocked /\ [Next]_vars => Clocked'
  BY ClockedStep
<1> QED
  BY <1>1, <1>2, ShapeInvariant, UnclaimedInvariant, PTL DEF Spec

-----------------------------------------------------------------------------
(* A service that still has something to do is due to be called.           *)

(***************************************************************************)
(* A generation that has not started probing has queued and sent nothing.  *)
(***************************************************************************)
InitIsIdle ==
  state = "Init" => pending = <<>> /\ token.kind # "Probe" /\ ~probe_on_wire

(***************************************************************************)
(* The service is neither done, nor withdrawn, nor parked before its first *)
(* probe.                                                                  *)
(***************************************************************************)
Owing ==
  /\ ~withdrawing /\ state # "Conflicting" /\ ~(state = "Established" /\ ~ReAnnounce)
  /\ ~Startup \/ probe_on_wire

(***************************************************************************)
(* A lifecycle is left unarmed only at the end of the clock.               *)
(***************************************************************************)
Wakeful == Owing /\ lifecycle_deadline = None => now + LongestWait > MaxInstant

(* Nothing is queued or sent before the first timer fires, in this         *)
(* generation or after a restart.                                          *)
LEMMA IdleStep ==
  ASSUME Shape, UnclaimedUntilProbed, InitIsIdle, [Next]_vars
  PROVE  InitIsIdle'
<1>1. ASSUME NEW base, NEW renamed, NEW f, restart_probe_cycle(base, renamed, f)
      PROVE  InitIsIdle'
  BY <1>1 DEF restart_probe_cycle, stale_live_commit_token, InitIsIdle
<1>2. CASE HandleTimeout
  <2>1. CASE FireTimers
    <3>1. state = "Init" => \A q : ThenResponse(q) = q
      BY DEF UnclaimedUntilProbed, NoClaimQueued, ThenResponse, Due
    <3> QED
      BY <2>1, <3>1 DEF FireTimers, FireLifecycle, verdict, InitIsIdle
  <2> QED
    BY <1>1, <1>2, <2>1 DEF HandleTimeout, DeferAfterTiebreak, Rename, GiveUpName, InitIsIdle
<1>3. CASE PollTransmit
  <2>1. state = "Init" => Queue = <<>>
    BY DEF InitIsIdle, Queue, FirstProbeHeld
  <2> QED
    BY <1>3, <2>1 DEF PollTransmit, EmitMeta, EmitLegacy, EmitPending, EmitNothing, NewToken,
                      verdict, InitIsIdle, NoToken
<1>4. ASSUME NEW sockets, NEW offered, Confirm(sockets, offered)
      PROVE  InitIsIdle'
  <2> DEFINE attempts == AttemptsAt(sockets, offered)
             t == Anchor(attempts, offered)
  <2>1. /\ token' = NoToken /\ UNCHANGED pending
        /\ \/ ConfirmProbe(t, attempts) \/ ConfirmAnnouncement(t, attempts)
           \/ ConfirmResponse(attempts) \/ ConfirmStale(attempts)
    BY <1>4 DEF Confirm
  <2>2. state' = "Init" => state = "Init"
    BY <2>1 DEF ConfirmProbe, ConfirmAnnouncement, AnnouncementHeard, AnnouncementFailed,
                ConfirmResponse, ConfirmStale
  <2>3. state = "Init" => UNCHANGED probe_on_wire
    BY <2>1 DEF ConfirmProbe, ConfirmAnnouncement, ConfirmResponse, ConfirmStale, InitIsIdle
  <2> QED
    BY <2>1, <2>2, <2>3 DEF InitIsIdle, NoToken
<1>5. ASSUME NEW relinquished, ProbeConflict(relinquished)
      PROVE  InitIsIdle'
  BY <1>1, <1>5 DEF ProbeConflict, handle_preauthoritative_conflict, RevertToProbing, queues,
                    verdict, InitIsIdle
<1>6. CASE LoseTiebreak
  BY <1>6 DEF LoseTiebreak, queues, InitIsIdle
<1>7. CASE HostConflict \/ SiblingConflict \/ EndOfDatagram \/ Tick \/ UNCHANGED vars
  BY <1>7, Bystanders DEF InitIsIdle
<1>8. CASE \E kind \in AllQuestions : Question(kind)
  BY <1>8 DEF Question, verdict, InitIsIdle
<1>9. CASE Withdraw
  BY <1>9 DEF Withdraw, verdict, InitIsIdle
<1>10. CASE \E u \in {"Established", "Renamed", "Conflict", "HostConflict"} : PollUpdate(u)
  <2>1. PICK u : PollUpdate(u)
    BY <1>10
  <2> QED
    BY <1>9, <2>1 DEF PollUpdate, queues, verdict, InitIsIdle
<1> QED
  BY <1>2, <1>3, <1>4, <1>5, <1>6, <1>7, <1>8, <1>9, <1>10 DEF Next, Unregister

(* handle_timeout arms the next wait from the present.                     *)
LEMMA TimeoutWakeful ==
  ASSUME Shape, Clocked, InitIsIdle, Wakeful, HandleTimeout
  PROVE  Wakeful'
<1> SUFFICES ASSUME Owing', lifecycle_deadline' = None
             PROVE  now' + LongestWait' > MaxInstant
  BY DEF Wakeful
<1>1. now' = now /\ withdrawing' = withdrawing /\ now \in Int /\ now <= MaxInstant
  BY ClockAssumption DEF HandleTimeout, Clocked, Instant
<1>2. CASE DeferAfterTiebreak \/ Rename \/ GiveUpName
  BY <1>2 DEF DeferAfterTiebreak, Rename, GiveUpName, restart_probe_cycle, Owing, Startup
<1>3. CASE FireTimers
  <2>1. PICK d \in DeadlinesToFire :
          \/ Due(FloorFirstProbe(d), now) /\ FireLifecycle
          \/ /\ lifecycle_deadline' = FloorFirstProbe(d)
             /\ UNCHANGED <<state, phase>>
    BY <1>3 DEF FireTimers
  <2>2. UNCHANGED probe_on_wire
    BY <1>3 DEF FireTimers, verdict
  <2>3. CASE FireLifecycle
    <3>1. CASE state = "Init"
      BY <2>2, <2>3, <3>1 DEF FireLifecycle, InitIsIdle, Owing, Startup
    <3>2. CASE /\ state = "Probing" /\ state' = "Announcing"
                /\ lifecycle_deadline' = announce_deadline(now, 0)
      BY <1>1, <3>2, AnnounceWaits, ClockAssumption
    <3>3. CASE /\ state = "Probing" /\ state' = state
                /\ lifecycle_deadline' \in probe_deadlines(now, phase)
      <4>1. now + PROBE_INTERVAL > MaxInstant
        BY <1>1, <3>3, ProbeWait
      <4>2. LongestWait' = PROBE_INTERVAL
        BY <3>3 DEF LongestWait, Owing, Startup
      <4> QED
        BY <1>1, <4>1, <4>2
    <3>4. CASE state \in {"Announcing", "Established"} /\ state' = state
      <4>1. now + RefreshWait > MaxInstant
        BY <1>1, <2>3, <3>4, AnnounceWaits DEF FireLifecycle
      <4>2. LongestWait' = RefreshWait
        BY <3>4 DEF LongestWait, Startup
      <4> QED
        BY <1>1, <4>1, <4>2
    <3> QED
      BY <2>3, <3>1, <3>2, <3>3, <3>4 DEF FireLifecycle
  <2>4. CASE lifecycle_deadline' = FloorFirstProbe(d) /\ UNCHANGED <<state, phase>>
    <3>1. Owing /\ LongestWait' = LongestWait /\ (~Startup \/ probe_on_wire)
      BY <1>1, <2>2, <2>4 DEF Owing, Startup, LongestWait
    <3>2. d = lifecycle_deadline /\ FloorFirstProbe(d) = d
      BY <3>1 DEF DeadlinesToFire, startup_parked, FloorFirstProbe
    <3> QED
      BY <1>1, <2>4, <3>1, <3>2 DEF Wakeful
  <2> QED
    BY <2>1, <2>3, <2>4
<1> QED
  BY <1>2, <1>3 DEF HandleTimeout

(* note_transmit_outcome arms the next wait from the time of the datagram. *)
LEMMA ConfirmWakeful ==
  ASSUME Shape, UnclaimedUntilProbed, Clocked, InitIsIdle, Wakeful,
         NEW sockets, NEW offered \in Offers, Confirm(sockets, offered)
  PROVE  Wakeful'
<1> SUFFICES ASSUME Owing', lifecycle_deadline' = None
             PROVE  now' + LongestWait' > MaxInstant
  BY DEF Wakeful
<1> DEFINE attempts == AttemptsAt(sockets, offered)
           t == Anchor(attempts, offered)
           advance == AdvanceOf(patience, attempts)
<1>1. t \in Nat /\ t <= now /\ now \in Nat
  BY AnchorType, ClockAssumption DEF Clocked, Instant
<1>2. /\ UNCHANGED <<now, withdrawing>>
      /\ \/ ConfirmProbe(t, attempts) \/ ConfirmAnnouncement(t, attempts)
         \/ ConfirmResponse(attempts) \/ ConfirmStale(attempts)
  BY DEF Confirm
<1> HIDE DEF attempts, t
<1>3. CASE UNCHANGED <<state, probe_on_wire, lifecycle_deadline>>
  BY <1>2, <1>3 DEF Wakeful, Owing, Startup, LongestWait
<1>4. CASE ConfirmProbe(t, attempts)
  <2>1. CASE state = "Probing"
    <3>1. LongestWait' = PROBE_INTERVAL
      BY <1>4, <2>1 DEF ConfirmProbe, LongestWait, Owing, Startup
    <3>2. t + PROBE_INTERVAL > MaxInstant
      <4>1. CASE lifecycle_deadline' = probe_retry_deadline(t)
        BY <1>1, <4>1, CheckedAdd, Waits DEF probe_retry_deadline
      <4>2. CASE lifecycle_deadline' \in probe_deadlines(t, phase + 1)
        BY <1>1, <4>2, ProbeWait
      <4>3. CASE lifecycle_deadline' = SettledAnnounce(t, advance)
        <5>1. /\ announce_deadline(t, 0) \in Deadline
              /\ partial_announce_deadline(t, streak) \in Deadline
          BY <1>1, AnnounceWaits, RungType DEF Clocked
        <5>2. checked_add(t, PROBE_INTERVAL) = None
          <6>1. checked_add(t, PROBE_INTERVAL) \in Deadline
            BY <1>1, CheckedAdd, Waits
          <6> QED
            BY <4>3, <5>1, <6>1, ClockAssumption DEF SettledAnnounce, Later, Deadline
        <5> QED
          BY <1>1, <5>2, CheckedAdd, Waits
      <4> QED
        BY <1>4, <2>1, <4>1, <4>2, <4>3 DEF ConfirmProbe
    <3> QED
      BY <1>1, <1>2, <3>1, <3>2, Waits, ClockAssumption
  <2>2. CASE state # "Probing"
    <3>1. state # "Init" /\ UNCHANGED <<state, lifecycle_deadline>>
      BY <1>4, <2>2 DEF ConfirmProbe, InitIsIdle
    <3> QED
      BY <1>2, <2>2, <3>1 DEF Wakeful, Owing, Startup, LongestWait
  <2> QED
    BY <2>1, <2>2
<1>5. CASE ConfirmAnnouncement(t, attempts)
  <2>1. state \in {"Announcing", "Established"} /\ UNCHANGED probe_on_wire
    BY <1>5 DEF ConfirmAnnouncement, UnclaimedUntilProbed, NoClaimQueued, ClaimKinds
  <2>2. state' \in {"Announcing", "Established"} /\ LongestWait' = RefreshWait
    <3>1. state' \in {"Announcing", "Established"}
      BY <1>5, <2>1 DEF ConfirmAnnouncement, AnnouncementHeard, AnnouncementFailed
    <3> QED
      BY <3>1 DEF LongestWait, Startup
  <2>3. t + RefreshWait > MaxInstant \/ now + RefreshWait > MaxInstant
    <3>1. CASE AnnouncementFailed(t)
      BY <1>1, <2>1, <3>1, AnnounceWaits DEF AnnouncementFailed
    <3>2. CASE AnnouncementHeard(t, attempts, advance)
      <4>1. LastDelivered(t, attempts) \in [Families -> Nat \cup {None}]
        BY <1>1 DEF LastDelivered, Clocked
      <4>2. PICK rung \in Nat, armed \in Deadline :
              /\ lifecycle_deadline' = arm_announcement(t, state', advance, rung, armed,
                                         LastDelivered(t, attempts),
                                         PatienceAfter(patience, attempts))
              /\ armed = None => \/ t + RefreshWait > MaxInstant
                                \/ lifecycle_deadline = None
        BY <1>1, <2>1, <3>2, AnnounceWaits DEF AnnouncementHeard, Clocked
      <4>3. \/ state' = "Established" /\ ~ReAnnounce
            \/ t + RefreshWait > MaxInstant
            \/ state' = "Announcing" /\ armed = None
        BY <1>1, <2>2, <4>1, <4>2, ArmedInTime
      <4>4. CASE state' = "Announcing" /\ lifecycle_deadline = None
        <5>1. now + LongestWait > MaxInstant /\ LongestWait = RefreshWait
          BY <1>2, <2>1, <3>2, <4>4
          DEF AnnouncementHeard, Wakeful, Owing, Startup, LongestWait
        <5> QED
          BY <5>1
      <4> QED
        BY <4>2, <4>3, <4>4 DEF Owing
    <3> QED
      BY <1>5, <3>1, <3>2 DEF ConfirmAnnouncement
  <2> QED
    BY <1>1, <1>2, <2>2, <2>3, Waits, ClockAssumption
<1> QED
  BY <1>2, <1>3, <1>4, <1>5 DEF ConfirmResponse, ConfirmStale

(* No step leaves the service without a wakeup it can still express.       *)
LEMMA WakefulStep ==
  ASSUME Shape, UnclaimedUntilProbed, Clocked, InitIsIdle, Wakeful, [Next]_vars
  PROVE  Wakeful'
<1>1. CASE PollTransmit
  <2>1. UNCHANGED <<now, state, probe_on_wire, withdrawing>>
    BY <1>1 DEF PollTransmit, verdict
  <2>2. lifecycle_deadline' = None => lifecycle_deadline = None
    BY <1>1 DEF PollTransmit, DeferFirstProbe
  <2> QED
    BY <2>1, <2>2 DEF Wakeful, Owing, Startup, LongestWait
<1>2. CASE UNCHANGED <<now, state, probe_on_wire, withdrawing, lifecycle_deadline>>
  BY <1>2 DEF Wakeful, Owing, Startup, LongestWait
<1>3. ASSUME NEW relinquished, ProbeConflict(relinquished)
      PROVE  Wakeful'
  <2>1. CASE handle_preauthoritative_conflict(relinquished)
    BY <1>2, <1>3, <2>1 DEF ProbeConflict, handle_preauthoritative_conflict, clocks
  <2>2. CASE RevertToProbing /\ RecentlyReprobed
    BY <1>2, <1>3, <2>2 DEF ProbeConflict, RevertToProbing, clocks, verdict
  <2>3. CASE RevertToProbing /\ ~RecentlyReprobed
    BY <2>3 DEF RevertToProbing, restart_probe_cycle, Wakeful, Owing, Startup
  <2> QED
    BY <1>3, <2>1, <2>2, <2>3 DEF ProbeConflict
<1>4. CASE LoseTiebreak \/ HostConflict \/ SiblingConflict \/ EndOfDatagram \/ UNCHANGED vars
  BY <1>2, <1>4 DEF LoseTiebreak, HostConflict, SiblingConflict, EndOfDatagram, vars, clocks,
                    verdict
<1>5. CASE Tick
  <2>1. UNCHANGED <<state, probe_on_wire, withdrawing, lifecycle_deadline>> /\ now' = now + 1
    BY <1>5 DEF Tick, clocks, verdict
  <2>2. now \in Int /\ LongestWait \in Int /\ LongestWait' = LongestWait /\ MaxInstant \in Int
    BY <2>1, Waits, ClockAssumption DEF Clocked, Instant, LongestWait, Startup
  <2> QED
    BY <2>1, <2>2 DEF Wakeful, Owing, Startup
<1>6. CASE \E kind \in AllQuestions : Question(kind)
  BY <1>2, <1>6 DEF Question, verdict
<1>7. CASE Withdraw
  BY <1>7 DEF Withdraw, Wakeful, Owing
<1>8. CASE \E u \in {"Established", "Renamed", "Conflict", "HostConflict"} : PollUpdate(u)
  <2>1. PICK u : PollUpdate(u)
    BY <1>8
  <2> QED
    BY <1>2, <1>7, <2>1 DEF PollUpdate, clocks, verdict
<1> QED
  BY <1>1, <1>3, <1>4, <1>5, <1>6, <1>7, <1>8, TimeoutWakeful, ConfirmWakeful
  DEF Next, Unregister

(* A service that is not finished always has a wakeup, a queued datagram   *)
(* or one in flight, until the clock cannot express the next wait: for     *)
(* every socket behaviour, every order of conflicts, timers and confirms,  *)
(* and however late the driver is.                                         *)
THEOREM AlwaysWoken == Spec => []NoLostWakeup
<1>1. Init => InitIsIdle /\ Wakeful
  <2> SUFFICES ASSUME Init PROVE InitIsIdle /\ Wakeful
    OBVIOUS
  <2>1. announce_deadline(0, 0) # None
    BY AnnounceWaits, ClockAssumption
  <2> QED
    BY <2>1 DEF Init, InitIsIdle, NoToken, Wakeful, Owing, Startup
<1>2. /\ Shape /\ UnclaimedUntilProbed /\ Clocked /\ InitIsIdle /\ Wakeful /\ [Next]_vars
      => InitIsIdle' /\ Wakeful'
  BY IdleStep, WakefulStep
<1>3. Clocked /\ Wakeful => NoLostWakeup
  <2> SUFFICES ASSUME Clocked, Wakeful, pending = <<>>, token = NoToken, poll_timeout = None,
                      ~withdrawing, state # "Conflicting",
                      ~(state = "Established" /\ ~ReAnnounce),
                      now + LongestWait <= MaxInstant
               PROVE  FALSE
    BY DEF NoLostWakeup
  <2>1. now \in Int /\ now # None /\ LongestWait \in Int
    BY Waits, ClockAssumption DEF Clocked, Instant, LongestWait
  <2>2. ~startup_parked /\ lifecycle_deadline = None
    BY <2>1 DEF poll_timeout, EarlierOf, Sooner
  <2>3. Owing
    BY <2>2 DEF startup_parked, Owing
  <2> QED
    BY <2>1, <2>2, <2>3, ClockAssumption DEF Wakeful
<1> QED
  BY <1>1, <1>2, <1>3, ShapeInvariant, UnclaimedInvariant, ClockedInvariant, PTL DEF Spec

-----------------------------------------------------------------------------
(* A first probe waits out the flood, when the driver drains what is due   *)
(* before it calls handle_timeout again.                                   *)

(***************************************************************************)
(* No probe is queued behind another datagram: the check before a poll     *)
(* looks at the head of the queue only.                                    *)
(***************************************************************************)
ProbesAtHead(q) == \A i \in 2 .. Len(q) : q[i] # "Probe"

(* Queueing a response, or taking the head of the queue, leaves every      *)
(* probe at the head.                                                      *)
LEMMA AtHeadKept ==
  ASSUME NEW q \in Seq(Transmits), ProbesAtHead(q)
  PROVE  /\ ProbesAtHead(ThenResponse(q))
         /\ q # <<>> => ProbesAtHead(Tail(q))
         /\ q # <<>> /\ Tail(q) # <<>> => Head(Tail(q)) # "Probe"
<1>1. ProbesAtHead(push_pending(q, "Response"))
  BY DEF push_pending, ProbesAtHead
<1>2. ASSUME q # <<>>
      PROVE  /\ ProbesAtHead(Tail(q))
             /\ Tail(q) # <<>> => Head(Tail(q)) # "Probe"
  <2>1. Len(q) \in Nat \ {0} /\ Len(Tail(q)) = Len(q) - 1 /\ Tail(q) \in Seq(Transmits)
    BY <1>2
  <2>2. \A i \in 1 .. Len(Tail(q)) : Tail(q)[i] = q[i + 1] /\ Tail(q)[i] # "Probe"
    BY <1>2, <2>1 DEF ProbesAtHead
  <2> QED
    BY <2>1, <2>2 DEF ProbesAtHead
<1> QED
  BY <1>1, <1>2 DEF ThenResponse

(* What a prompt driver finds when a timer fires: an empty queue, or a     *)
(* datagram in flight that keeps anything from being queued.               *)
LEMMA PromptTimers ==
  ASSUME Prompt, HandleTimeout, FireTimers
  PROVE  token # NoToken \/ pending = <<>>
BY DEF HandleTimeout, FireTimers, Serviceable, Pollable

(* A prompt driver never lets a probe queue up behind another datagram.    *)
LEMMA AtHeadStep ==
  ASSUME Prompt, Shape, ProbesAtHead(pending), [Next]_vars
  PROVE  ProbesAtHead(pending')
<1>1. CASE UNCHANGED pending
  BY <1>1
<1>2. CASE pending' = <<>>
  BY <1>2 DEF ProbesAtHead
<1>3. ASSUME NEW base, NEW renamed, NEW f, restart_probe_cycle(base, renamed, f)
      PROVE  ProbesAtHead(pending')
  BY <1>2, <1>3 DEF restart_probe_cycle
<1>4. CASE HandleTimeout
  <2>1. CASE FireTimers
    <3>1. ASSUME NEW k \in Transmits
          PROVE  ProbesAtHead(ThenResponse(push_lifecycle_pending(pending, k)))
      <4>1. push_lifecycle_pending(pending, k) \in Seq(Transmits)
        BY PushType DEF Shape
      <4>2. ProbesAtHead(push_lifecycle_pending(pending, k))
        BY <1>4, <2>1, PromptTimers DEF push_lifecycle_pending, push_pending, ProbesAtHead
      <4> QED
        BY <4>1, <4>2, AtHeadKept
    <3>2. ProbesAtHead(ThenResponse(pending))
      BY AtHeadKept DEF Shape
    <3> QED
      BY <2>1, <3>1, <3>2 DEF FireTimers, FireLifecycle, Transmits
  <2> QED
    BY <1>2, <1>3, <1>4, <2>1 DEF HandleTimeout, DeferAfterTiebreak, Rename, GiveUpName
<1>5. CASE PollTransmit
  <2>1. Queue \in Seq(Transmits)
    BY QueueType DEF Shape
  <2>2. ProbesAtHead(Queue)
    BY AtHeadKept DEF Queue, FirstProbeHeld, Shape
  <2>3. Queue # <<>> => ProbesAtHead(Tail(Queue))
    BY <2>1, <2>2, AtHeadKept
  <2> QED
    BY <1>5, <2>2, <2>3 DEF PollTransmit, EmitMeta, EmitLegacy, EmitPending, EmitNothing
<1>6. ASSUME NEW relinquished, ProbeConflict(relinquished)
      PROVE  ProbesAtHead(pending')
  BY <1>1, <1>3, <1>6 DEF ProbeConflict, handle_preauthoritative_conflict, RevertToProbing, queues
<1>7. CASE Withdraw
  BY <1>2, <1>7 DEF Withdraw
<1>8. CASE \E u \in {"Established", "Renamed", "Conflict", "HostConflict"} : PollUpdate(u)
  BY <1>1, <1>7, <1>8 DEF PollUpdate, queues
<1>9. CASE \E sockets \in SocketOutcomes : \E offered \in Offers : Confirm(sockets, offered)
  BY <1>1, <1>9 DEF Confirm
<1>10. CASE LoseTiebreak
  BY <1>1, <1>10 DEF LoseTiebreak, queues
<1>11. CASE \E kind \in AllQuestions : Question(kind)
  BY <1>1, <1>11 DEF Question
<1>12. CASE HostConflict \/ SiblingConflict \/ EndOfDatagram \/ Tick \/ UNCHANGED vars
  BY <1>1, <1>12, Bystanders
<1> QED
  BY <1>4, <1>5, <1>6, <1>7, <1>8, <1>9, <1>10, <1>11, <1>12 DEF Next, Unregister

(* While the conflict-flood limit is in force, the first probe of a        *)
(* generation is handed out no sooner than CONFLICT_BACKOFF_MIN_WAIT after *)
(* the sequence and the burst began, if the driver polls until nothing is  *)
(* pollable before it fires timers again.                                  *)
THEOREM FloorIsHeld ==
  ASSUME Prompt
  PROVE  Spec => FloodFloorHeld
<1>1. Init => ProbesAtHead(pending)
  BY DEF Init, ProbesAtHead
<1>2. Shape /\ ProbesAtHead(pending) /\ [Next]_vars => ProbesAtHead(pending)'
  BY AtHeadStep DEF ProbesAtHead
<1>3. ASSUME Shape, Clocked, ProbesAtHead(pending), [Next]_vars
      PROVE  [(token = NoToken /\ token'.kind = "Probe" /\ ~probe_on_wire /\ in_force(flood, now)) =>
                /\ now >= sequence_started_at + CONFLICT_BACKOFF_MIN_WAIT
                /\ now >= latch_epoch(flood, now) + CONFLICT_BACKOFF_MIN_WAIT]_vars
  <2> SUFFICES ASSUME token = NoToken, token'.kind = "Probe", ~probe_on_wire, in_force(flood, now)
               PROVE  /\ now >= sequence_started_at + CONFLICT_BACKOFF_MIN_WAIT
                      /\ now >= latch_epoch(flood, now) + CONFLICT_BACKOFF_MIN_WAIT
    OBVIOUS
  <2> DEFINE floor == backoff_floor(flood, sequence_started_at)
             epoch == latch_epoch(flood, now)
  <2>1. PollTransmit
    BY <1>3, OnlyPollHandsOut
  <2>2. Queue # <<>> /\ Head(Queue) = "Probe"
    BY <2>1 DEF PollTransmit, EmitMeta, EmitLegacy, EmitPending, EmitNothing, NewToken, NoToken
  <2>3. ~FirstProbeHeld
    <3>1. ASSUME FirstProbeHeld PROVE Queue = Tail(pending) /\ pending # <<>>
      BY <3>1 DEF Queue, FirstProbeHeld
    <3> QED
      BY <1>3, <2>2, <3>1, AtHeadKept DEF Shape
  <2>4. floor # None /\ ~(floor > now)
    BY <2>2, <2>3 DEF FirstProbeHeld, Queue
  <2>5. epoch \in Nat /\ sequence_started_at \in Nat /\ now \in Int
    BY <1>3, ClockAssumption DEF in_force, latch_epoch, Clocked, FloodTyped, Instant
  <2>6. floor = (IF epoch > sequence_started_at THEN epoch ELSE sequence_started_at)
                  + CONFLICT_BACKOFF_MIN_WAIT
    BY <2>4, <2>5, ClockAssumption DEF backoff_floor, checked_add
  <2> HIDE DEF floor, epoch
  <2>7. /\ now >= sequence_started_at + CONFLICT_BACKOFF_MIN_WAIT
        /\ now >= epoch + CONFLICT_BACKOFF_MIN_WAIT
    BY <2>4, <2>5, <2>6, FloodAssumption
  <2> QED
    BY <2>7 DEF epoch
<1> QED
  BY <1>1, <1>2, <1>3, ShapeInvariant, ClockedInvariant, PTL DEF Spec, FloodFloorHeld

-----------------------------------------------------------------------------
(* No refresh is late, under a driver that confirms before anything else   *)
(* and drains what is due before it calls handle_timeout again.            *)

Queued(q, kind) == \E i \in 1 .. Len(q) : q[i] = kind

Announced == state \in {"Announcing", "Established"}

(***************************************************************************)
(* The deadline covers the family, or lies an interval away.               *)
(***************************************************************************)
InTime(f) ==
  (last_delivered[f] # None /\ ~patience[f].stalled)
    => lifecycle_deadline <= Later(last_delivered[f] + RefreshWait, now + ANNOUNCE_INTERVAL)

(***************************************************************************)
(* An armed service covers every family, or is about to announce.          *)
(***************************************************************************)
RefreshCovered ==
  /\ Announced => ~Queued(pending, "Probe")
  /\ Announced /\ ~withdrawing /\ lifecycle_deadline # None =>
       \/ Queued(pending, "Announcement") \/ token.kind = "Announcement"
       \/ \A f \in Families : InTime(f)

(* What a response adds to the queue and what taking the head removes.     *)
LEMMA QueuedIn ==
  ASSUME NEW q \in Seq(Transmits), NEW kind
  PROVE  /\ Queued(q, kind) => Queued(ThenResponse(q), kind)
         /\ kind # "Response" /\ Queued(ThenResponse(q), kind) => Queued(q, kind)
         /\ q # <<>> /\ Queued(q, kind) => Head(q) = kind \/ Queued(Tail(q), kind)
         /\ q # <<>> /\ Queued(Tail(q), kind) => Queued(q, kind)
<1>1. /\ Queued(q, kind) => Queued(push_pending(q, "Response"), kind)
      /\ kind # "Response" /\ Queued(push_pending(q, "Response"), kind) => Queued(q, kind)
  BY DEF push_pending, Queued
<1>2. ASSUME q # <<>>
      PROVE  /\ Queued(q, kind) => Head(q) = kind \/ Queued(Tail(q), kind)
             /\ Queued(Tail(q), kind) => Queued(q, kind)
  <2>1. Len(q) \in Nat \ {0} /\ Len(Tail(q)) = Len(q) - 1 /\ Head(q) = q[1]
    BY <1>2
  <2>2. \A i \in 1 .. Len(q) - 1 : Tail(q)[i] = q[i + 1]
    BY <1>2
  <2>3. ASSUME NEW i \in 1 .. Len(q), q[i] = kind, i # 1
        PROVE  Queued(Tail(q), kind)
    <3>1. i - 1 \in 1 .. Len(Tail(q)) /\ Tail(q)[i - 1] = kind
      BY <2>1, <2>2, <2>3
    <3> QED
      BY <3>1 DEF Queued
  <2>4. ASSUME NEW i \in 1 .. Len(Tail(q)), Tail(q)[i] = kind
        PROVE  Queued(q, kind)
    <3>1. i + 1 \in 1 .. Len(q) /\ q[i + 1] = kind
      BY <2>1, <2>2, <2>4
    <3> QED
      BY <3>1 DEF Queued
  <2> QED
    BY <2>1, <2>3, <2>4 DEF Queued
<1> QED
  BY <1>1, <1>2 DEF ThenResponse

(* The contract leaves an empty queue and nothing in flight at every       *)
(* firing of the timers, so what a timer queues is never dropped.          *)
LEMMA TimeoutCovered ==
  ASSUME Prompt, StrictDriver, Shape, Clocked, RefreshCovered, HandleTimeout
  PROVE  RefreshCovered'
<1>1. UNCHANGED <<now, withdrawing>>
  BY DEF HandleTimeout
<1>2. CASE DeferAfterTiebreak \/ Rename \/ GiveUpName
  BY <1>2 DEF DeferAfterTiebreak, Rename, GiveUpName, restart_probe_cycle, RefreshCovered, Announced
<1>3. CASE FireTimers
  <2>1. token = NoToken /\ pending = <<>>
    BY <1>3, PromptTimers DEF HandleTimeout, Serviceable
  <2>2. UNCHANGED <<token, last_delivered, patience>>
    BY <1>3 DEF FireTimers, pacing
  <2>3. \A k \in Transmits : push_lifecycle_pending(pending, k) = <<k>>
    BY <2>1 DEF push_lifecycle_pending, push_pending
  <2>4. /\ ~Queued(<<>>, "Probe") /\ ~Queued(<<>>, "Announcement")
        /\ Queued(<<"Announcement">>, "Announcement") /\ ~Queued(<<"Announcement">>, "Probe")
    BY DEF Queued
  <2>5. /\ ~Queued(ThenResponse(<<>>), "Probe")
        /\ Queued(ThenResponse(<<"Announcement">>), "Announcement")
        /\ ~Queued(ThenResponse(<<"Announcement">>), "Probe")
    <3>1. \A q \in Seq(Transmits) :
            /\ Queued(q, "Announcement") => Queued(ThenResponse(q), "Announcement")
            /\ Queued(ThenResponse(q), "Probe") => Queued(q, "Probe")
      BY QueuedIn
    <3>2. <<>> \in Seq(Transmits) /\ <<"Announcement">> \in Seq(Transmits)
      BY DEF Transmits
    <3> QED
      BY <2>4, <3>1, <3>2
  <2>6. CASE FireLifecycle
    <3>1. CASE Announced
      BY <2>3, <2>5, <2>6, <3>1 DEF FireLifecycle, Announced, RefreshCovered, Transmits
    <3>2. CASE /\ state' = "Announcing" /\ pending' = ThenResponse(pending)
                /\ lifecycle_deadline' = announce_deadline(now, 0)
      <4>1. lifecycle_deadline' = now /\ now \in Int
        BY <3>2, AnnounceWaits, ClockAssumption DEF Clocked, Instant
      <4>2. \A f \in Families : last_delivered[f] # None => last_delivered[f] + RefreshWait \in Int
        BY Waits DEF Clocked
      <4>3. \A f \in Families : InTime(f)'
        BY <1>1, <2>2, <4>1, <4>2, Waits DEF InTime, Later
      <4> QED
        BY <2>1, <2>5, <3>2, <4>3 DEF RefreshCovered
    <3>3. CASE state \notin {"Announcing", "Established"} /\ state' \notin {"Announcing", "Established"}
      BY <3>3 DEF RefreshCovered, Announced
    <3> QED
      BY <2>6, <3>1, <3>2, <3>3 DEF FireLifecycle, Announced
  <2>7. CASE ~FireLifecycle
    <3>1. PICK d \in DeadlinesToFire :
            /\ lifecycle_deadline' = FloorFirstProbe(d) /\ pending' = ThenResponse(pending)
            /\ UNCHANGED <<state, phase>>
      BY <1>3, <2>7 DEF FireTimers
    <3>2. CASE ~Announced
      BY <3>1, <3>2 DEF RefreshCovered, Announced
    <3>3. CASE Announced
      <4>1. lifecycle_deadline' = lifecycle_deadline
        BY <3>1, <3>3 DEF DeadlinesToFire, startup_parked, FloorFirstProbe, Startup, Announced
      <4>2. ~withdrawing /\ lifecycle_deadline # None => \A f \in Families : InTime(f)
        BY <2>1, <2>4, <3>3 DEF RefreshCovered, NoToken
      <4>3. \A f \in Families : InTime(f) => InTime(f)'
        BY <1>1, <2>2, <4>1 DEF InTime
      <4> QED
        BY <1>1, <2>1, <2>5, <3>1, <4>1, <4>2, <4>3 DEF RefreshCovered
    <3> QED
      BY <3>2, <3>3
  <2> QED
    BY <2>6, <2>7
<1> QED
  BY <1>2, <1>3 DEF HandleTimeout

(* An announcement taken from the queue is in flight.                      *)
LEMMA PollCovered ==
  ASSUME Shape, RefreshCovered, PollTransmit
  PROVE  RefreshCovered'
<1> SUFFICES ASSUME Announced
             PROVE  RefreshCovered'
  BY DEF PollTransmit, RefreshCovered, Announced
<1>1. UNCHANGED <<now, state, withdrawing, last_delivered, patience>> /\ token = NoToken
  BY DEF PollTransmit, pacing
<1>2. pending \in Seq(Transmits) /\ ~Queued(pending, "Probe")
  BY DEF Shape, RefreshCovered
<1>3. ~FirstProbeHeld
  <2>1. pending # <<>> => Head(pending) = pending[1] /\ 1 \in 1 .. Len(pending)
    BY <1>2
  <2> QED
    BY <1>2, <2>1 DEF FirstProbeHeld, Queued
<1>4. Queue = pending /\ lifecycle_deadline' = lifecycle_deadline
  BY <1>3 DEF Queue, PollTransmit, DeferFirstProbe
<1>5. \/ pending' = pending
      \/ /\ pending # <<>> /\ pending' = Tail(pending)
         /\ Head(pending) = "Announcement" => token'.kind = "Announcement"
  BY <1>4 DEF PollTransmit, EmitMeta, EmitLegacy, EmitPending, EmitNothing, NewToken
<1>6. /\ ~Queued(pending', "Probe")
      /\ Queued(pending, "Announcement")
           => Queued(pending', "Announcement") \/ token'.kind = "Announcement"
  <2>1. CASE pending' = pending
    BY <1>2, <2>1
  <2>2. CASE /\ pending # <<>> /\ pending' = Tail(pending)
             /\ Head(pending) = "Announcement" => token'.kind = "Announcement"
    <3>1. /\ Queued(Tail(pending), "Probe") => Queued(pending, "Probe")
          /\ Queued(pending, "Announcement")
               => Head(pending) = "Announcement" \/ Queued(Tail(pending), "Announcement")
      BY <1>2, <2>2, QueuedIn
    <3> QED
      BY <1>2, <2>2, <3>1
  <2> QED
    BY <1>5, <2>1, <2>2
<1>7. \A f \in Families : InTime(f) => InTime(f)'
  BY <1>1, <1>4 DEF InTime
<1> QED
  BY <1>1, <1>4, <1>6, <1>7 DEF RefreshCovered, Announced, NoToken, Queued

(* A confirmed announcement arms the next one in time.                     *)
LEMMA ConfirmCovered ==
  ASSUME Shape, UnclaimedUntilProbed, Clocked, RefreshCovered,
         NEW sockets, NEW offered \in Offers, Confirm(sockets, offered)
  PROVE  RefreshCovered'
<1> DEFINE attempts == AttemptsAt(sockets, offered)
           t == Anchor(attempts, offered)
           advance == AdvanceOf(patience, attempts)
<1>1. t \in Nat /\ t <= now /\ now \in Nat
  BY AnchorType, ClockAssumption DEF Clocked, Instant
<1>2. /\ UNCHANGED <<now, withdrawing, pending>> /\ token' = NoToken
      /\ \/ ConfirmProbe(t, attempts) \/ ConfirmAnnouncement(t, attempts)
         \/ ConfirmResponse(attempts) \/ ConfirmStale(attempts)
  BY DEF Confirm
<1> HIDE DEF attempts, t
<1>3. CASE UNCHANGED <<state, lifecycle_deadline, last_delivered, patience>>
             /\ token.kind # "Announcement"
  <2>1. \A f \in Families : InTime(f) => InTime(f)'
    BY <1>2, <1>3 DEF InTime
  <2> QED
    BY <1>2, <1>3, <2>1 DEF RefreshCovered, Announced, Queued
<1>4. CASE ConfirmProbe(t, attempts)
  <2>1. CASE state = "Probing"
    BY <1>4, <2>1 DEF ConfirmProbe, RefreshCovered, Announced
  <2>2. CASE state # "Probing"
    BY <1>3, <1>4, <2>2 DEF ConfirmProbe
  <2> QED
    BY <2>1, <2>2
<1>5. CASE ConfirmAnnouncement(t, attempts)
  <2>1. Announced /\ ~Queued(pending, "Probe")
    BY <1>5 DEF ConfirmAnnouncement, UnclaimedUntilProbed, NoClaimQueued, ClaimKinds, Announced,
                RefreshCovered
  <2>2. Announced' /\ state' \in {"Announcing", "Established"}
    BY <1>5, <2>1 DEF ConfirmAnnouncement, AnnouncementHeard, AnnouncementFailed, Announced
  <2>3. last_delivered' = LastDelivered(t, attempts) /\ patience' = PatienceAfter(patience, attempts)
    BY <1>5 DEF ConfirmAnnouncement
  <2>4. LastDelivered(t, attempts) \in [Families -> Nat \cup {None}]
    BY <1>1 DEF LastDelivered, Clocked
  <2>5. ASSUME lifecycle_deadline' # None, NEW f \in Families,
               last_delivered'[f] # None, ~patience'[f].stalled
        PROVE  /\ lifecycle_deadline' \in Int
               /\ lifecycle_deadline' <= Later(last_delivered'[f] + RefreshWait, t + ANNOUNCE_INTERVAL)
    <3>1. CASE AnnouncementFailed(t)
      <4>1. lifecycle_deadline' = announce_deadline(t, 1)
        BY <2>1, <3>1 DEF AnnouncementFailed, Announced
      <4>2. lifecycle_deadline' = t + ANNOUNCE_INTERVAL
        BY <1>1, <2>5, <4>1, AnnounceWaits
      <4>3. last_delivered'[f] + RefreshWait \in Int /\ t + ANNOUNCE_INTERVAL \in Int
        BY <1>1, <2>3, <2>4, <2>5, Waits
      <4> QED
        BY <4>2, <4>3 DEF Later
    <3>2. CASE AnnouncementHeard(t, attempts, advance)
      <4>1. PICK rung \in Nat, armed \in Deadline :
              lifecycle_deadline' = arm_announcement(t, state', advance, rung, armed,
                                         LastDelivered(t, attempts),
                                         PatienceAfter(patience, attempts))
        BY <1>1, <3>2, AnnounceWaits DEF AnnouncementHeard, Clocked
      <4> QED
        BY <1>1, <2>2, <2>3, <2>4, <2>5, <4>1, ArmedInTime DEF Deadline
    <3> QED
      BY <1>5, <3>1, <3>2 DEF ConfirmAnnouncement
  <2>6. ASSUME lifecycle_deadline' # None, NEW f \in Families
        PROVE  InTime(f)'
    <3> SUFFICES ASSUME last_delivered'[f] # None, ~patience'[f].stalled
                 PROVE  lifecycle_deadline' <= Later(last_delivered'[f] + RefreshWait,
                                                     now' + ANNOUNCE_INTERVAL)
      BY DEF InTime
    <3>1. last_delivered'[f] + RefreshWait \in Int
      BY <2>3, <2>4, Waits
    <3>2. /\ lifecycle_deadline' \in Int
          /\ lifecycle_deadline' <= Later(last_delivered'[f] + RefreshWait, t + ANNOUNCE_INTERVAL)
      BY <2>5, <2>6
    <3> QED
      BY <1>1, <1>2, <3>1, <3>2, Waits DEF Later
  <2> QED
    BY <1>2, <2>1, <2>6 DEF RefreshCovered, Queued
<1>6. CASE ConfirmResponse(attempts) \/ ConfirmStale(attempts)
  BY <1>3, <1>6 DEF ConfirmResponse, ConfirmStale, pacing
<1> QED
  BY <1>2, <1>4, <1>5, <1>6

(* No step leaves an armed service with a refresh it would miss.           *)
LEMMA CoveredStep ==
  ASSUME Prompt, StrictDriver, Shape, UnclaimedUntilProbed, Clocked, RefreshCovered, [Next]_vars
  PROVE  RefreshCovered'
<1>1. CASE UNCHANGED <<now, state, withdrawing, lifecycle_deadline, last_delivered, patience,
                       pending, token>>
  <2>1. \A f \in Families : InTime(f) => InTime(f)'
    BY <1>1 DEF InTime
  <2> QED
    BY <1>1, <2>1 DEF RefreshCovered, Announced, Queued
<1>2. ASSUME NEW relinquished, ProbeConflict(relinquished)
      PROVE  RefreshCovered'
  <2>1. UNCHANGED <<now, withdrawing, last_delivered>>
    BY <1>2 DEF ProbeConflict
  <2>2. CASE handle_preauthoritative_conflict(relinquished)
    BY <1>1, <2>1, <2>2 DEF handle_preauthoritative_conflict, clocks, queues
  <2>3. CASE RevertToProbing /\ RecentlyReprobed
    BY <1>1, <2>1, <2>3 DEF RevertToProbing, clocks, queues
  <2>4. CASE RevertToProbing /\ ~RecentlyReprobed
    BY <2>4 DEF RevertToProbing, restart_probe_cycle, RefreshCovered, Announced
  <2> QED
    BY <1>2, <2>2, <2>3, <2>4 DEF ProbeConflict
<1>3. CASE LoseTiebreak \/ HostConflict \/ SiblingConflict \/ EndOfDatagram \/ UNCHANGED vars
  BY <1>1, <1>3 DEF LoseTiebreak, HostConflict, SiblingConflict, EndOfDatagram, vars, clocks,
                    queues, pacing
<1>4. CASE Tick
  <2>1. /\ UNCHANGED <<state, withdrawing, lifecycle_deadline, last_delivered, patience, pending,
                       token>>
        /\ now' = now + 1
    BY <1>4 DEF Tick, clocks, queues, pacing
  <2>2. ASSUME NEW f \in Families, InTime(f), lifecycle_deadline # None
        PROVE  InTime(f)'
    <3> SUFFICES ASSUME last_delivered[f] # None, ~patience[f].stalled
                 PROVE  lifecycle_deadline <= Later(last_delivered[f] + RefreshWait,
                                                    now' + ANNOUNCE_INTERVAL)
      BY <2>1 DEF InTime
    <3>1. last_delivered[f] + RefreshWait \in Int /\ now \in Int /\ lifecycle_deadline \in Int
      BY <2>2, Waits, ClockAssumption DEF Clocked, Instant, Deadline
    <3>2. lifecycle_deadline <= Later(last_delivered[f] + RefreshWait, now + ANNOUNCE_INTERVAL)
      BY <2>2 DEF InTime
    <3> QED
      BY <2>1, <3>1, <3>2, Waits DEF Later
  <2> QED
    BY <2>1, <2>2 DEF RefreshCovered, Announced, Queued
<1>5. CASE \E kind \in AllQuestions : Question(kind)
  BY <1>1, <1>5 DEF Question, pacing
<1>6. CASE Withdraw
  BY <1>6 DEF Withdraw, RefreshCovered, Announced, Queued
<1>7. CASE \E u \in {"Established", "Renamed", "Conflict", "HostConflict"} : PollUpdate(u)
  <2>1. PICK u : PollUpdate(u)
    BY <1>7
  <2> QED
    BY <1>1, <1>6, <2>1 DEF PollUpdate, clocks, queues, pacing
<1> QED
  BY <1>2, <1>3, <1>4, <1>5, <1>6, <1>7, TimeoutCovered, PollCovered, ConfirmCovered
  DEF Next, Unregister

(* Once announced, no family in good standing waits for its refresh past   *)
(* 80% of its TTL, or an announcement interval when that is longer: for    *)
(* every number of families, every socket behaviour and any delay between  *)
(* poll and confirm, under a driver that confirms before anything else and *)
(* polls until nothing is pollable before it fires timers again.           *)
THEOREM RefreshesInTime ==
  ASSUME Prompt, StrictDriver
  PROVE  Spec => []RefreshNotLate
<1>1. Init => RefreshCovered
  BY DEF Init, RefreshCovered, InTime, Queued
<1>2. Shape /\ UnclaimedUntilProbed /\ Clocked /\ RefreshCovered /\ [Next]_vars => RefreshCovered'
  BY CoveredStep
<1>3. RefreshCovered => RefreshNotLate
  BY DEF RefreshCovered, RefreshNotLate, Announced, InTime, Queued, NoToken
<1> QED
  BY <1>1, <1>2, <1>3, ShapeInvariant, UnclaimedInvariant, ClockedInvariant, PTL DEF Spec

-----------------------------------------------------------------------------
(* Announcing waits out the settling window.                               *)

(***************************************************************************)
(* Every family's last gated acceptance settles, give or take the time a   *)
(* datagram may take from poll to confirm, before the deadline that a      *)
(* service done with probing is waiting for.                               *)
(***************************************************************************)
Expressible == \A f \in Families : gate[f] # None => gate[f] + PROBE_INTERVAL <= MaxInstant

SettleArmed ==
  /\ gate \in [Families -> Nat \cup {None}]
  /\ \A f \in Families : gate[f] # None => gate[f] <= now
  /\ token.kind # "None" => now - token.since <= MaxSendDelay
  /\ state = "Probing" /\ phase >= 1 => probe_on_wire
  /\ state = "Probing" /\ phase >= 3 /\ lifecycle_deadline # None /\ Expressible =>
       \A f \in Families : gate[f] # None =>
         gate[f] + PROBE_INTERVAL <= lifecycle_deadline + MaxSendDelay

(* handle_timeout touches the deadline only of a service still probing.    *)
LEMMA TimeoutSettle ==
  ASSUME Shape, Clocked, SettleArmed, HandleTimeout
  PROVE  SettleArmed'
<1>1. UNCHANGED <<now, gate>>
  BY DEF HandleTimeout
<1>2. (token'.kind # "None" => token.kind # "None") /\ token'.since = token.since
  BY DEF HandleTimeout, DeferAfterTiebreak, Rename, GiveUpName, FireTimers, restart_probe_cycle,
         stale_live_commit_token
<1>3. CASE DeferAfterTiebreak \/ Rename \/ GiveUpName
  <2>1. state' # "Probing"
    BY <1>3 DEF DeferAfterTiebreak, Rename, GiveUpName, restart_probe_cycle
  <2> QED
    BY <1>1, <1>2, <2>1 DEF SettleArmed
<1>4. CASE FireTimers
  <2>1. UNCHANGED probe_on_wire
    BY <1>4 DEF FireTimers, verdict
  <2>2. CASE FireLifecycle
    <3>1. state' = "Probing" => phase' < 3 /\ (phase' >= 1 => phase' = phase /\ state = "Probing")
      BY <2>2 DEF FireLifecycle
    <3>2. phase' \in Nat
      BY <2>2 DEF FireLifecycle, Shape
    <3> QED
      BY <1>1, <1>2, <2>1, <3>1, <3>2 DEF SettleArmed
  <2>3. CASE ~FireLifecycle
    <3>1. PICK d \in DeadlinesToFire :
            lifecycle_deadline' = FloorFirstProbe(d) /\ UNCHANGED <<state, phase>>
      BY <1>4, <2>3 DEF FireTimers
    <3>2. phase \in Nat
      BY DEF Shape
    <3>3. state = "Probing" /\ phase >= 3 => lifecycle_deadline' = lifecycle_deadline
      BY <3>1, <3>2 DEF SettleArmed, DeadlinesToFire, startup_parked, FloorFirstProbe
    <3> QED
      BY <1>1, <1>2, <2>1, <3>1, <3>3 DEF SettleArmed, Expressible
  <2> QED
    BY <2>2, <2>3
<1> QED
  BY <1>3, <1>4 DEF HandleTimeout

(* A confirmed probe re-arms the wait, from its earliest acceptance.       *)
LEMMA ConfirmSettle ==
  ASSUME Shape, UnclaimedUntilProbed, Clocked, SettleArmed,
         NEW sockets, NEW offered \in Offers, Confirm(sockets, offered)
  PROVE  SettleArmed'
<1> DEFINE attempts == AttemptsAt(sockets, offered)
           t == Anchor(attempts, offered)
           advance == AdvanceOf(patience, attempts)
<1>1. t \in Nat /\ t <= now /\ now \in Nat /\ token.since \in Nat /\ token.since <= t
  BY AnchorType, ClockAssumption DEF Clocked, Instant
<1>2. /\ UNCHANGED now /\ token' = NoToken
      /\ gate' = [f \in Families |-> IF f \in Delivered(attempts) /\ min_family_gap > 0
                                     THEN now ELSE gate[f]]
      /\ \/ ConfirmProbe(t, attempts) \/ ConfirmAnnouncement(t, attempts)
         \/ ConfirmResponse(attempts) \/ ConfirmStale(attempts)
  BY DEF Confirm
<1> HIDE DEF attempts, t
<1>3. /\ gate' \in [Families -> Nat \cup {None}] /\ token'.kind = "None"
      /\ \A f \in Families : gate'[f] # None => gate'[f] <= now'
  BY <1>1, <1>2 DEF SettleArmed, NoToken
<1>4. CASE ConfirmProbe(t, attempts) /\ state = "Probing"
  <2>1. /\ state' = "Probing" /\ phase \in 0 .. 3
        /\ \/ /\ ~Advances(advance) /\ phase' = phase
              /\ lifecycle_deadline' = probe_retry_deadline(t)
           \/ /\ Advances(advance) /\ phase >= 2 /\ phase' = 3
              /\ lifecycle_deadline' = SettledAnnounce(t, advance)
           \/ /\ Advances(advance) /\ phase < 2 /\ phase' = phase + 1
    BY <1>4 DEF ConfirmProbe, Shape
  <2>2. Advances(advance) => Delivered(attempts) # {}
    BY FiveVerdicts DEF Advances
  <2>3. phase' >= 1 => probe_on_wire'
    <3>1. probe_on_wire \/ Delivered(attempts) # {} => probe_on_wire'
      BY <1>4, Zenon DEF ConfirmProbe
    <3> QED
      BY <1>4, <2>1, <2>2, <3>1 DEF SettleArmed
  <2>4. now - t <= MaxSendDelay
    BY <1>1, <1>4, ServiceAssumption DEF ConfirmProbe, SettleArmed
  <2>5. ASSUME phase' >= 3, lifecycle_deadline' # None, Expressible'
        PROVE  lifecycle_deadline' \in Int /\ t + PROBE_INTERVAL <= lifecycle_deadline'
    <3>1. CASE lifecycle_deadline' = probe_retry_deadline(t)
      BY <1>1, <2>5, <3>1, CheckedAdd, Waits DEF probe_retry_deadline
    <3>2. CASE Advances(advance) /\ lifecycle_deadline' = SettledAnnounce(t, advance)
      <4>1. checked_add(t, PROBE_INTERVAL) # None
        <5>1. PICK f \in Families : f \in Delivered(attempts)
          BY <2>2, <3>2 DEF Delivered
        <5>2. gate'[f] = now
          BY <1>2, <1>4, <5>1, ScheduleAssumption DEF ConfirmProbe, min_family_gap
        <5>3. now + PROBE_INTERVAL <= MaxInstant
          BY <1>1, <2>5, <5>2, ClockAssumption DEF Expressible
        <5> QED
          BY <1>1, <5>3, CheckedAdd, Waits, ClockAssumption
      <4>2. /\ announce_deadline(t, 0) \in Deadline
            /\ partial_announce_deadline(t, streak) \in Deadline
        BY <1>1, AnnounceWaits, RungType DEF Clocked
      <4>3. checked_add(t, PROBE_INTERVAL) = t + PROBE_INTERVAL
        BY <1>1, <4>1, CheckedAdd, Waits
      <4> QED
        BY <1>1, <3>2, <4>1, <4>2, <4>3, Waits, ClockAssumption DEF SettledAnnounce, Later, Deadline
    <3> QED
      BY <2>1, <2>5, <3>1, <3>2
  <2>6. ASSUME phase' >= 3, lifecycle_deadline' # None, Expressible',
               NEW f \in Families, gate'[f] # None
        PROVE  gate'[f] + PROBE_INTERVAL <= lifecycle_deadline' + MaxSendDelay
    BY <1>1, <1>2, <1>3, <2>4, <2>5, <2>6, Waits, ServiceAssumption
  <2> QED
    BY <1>3, <2>3, <2>6 DEF SettleArmed
<1>5. CASE state # "Probing"
  <2>1. state' # "Probing"
    BY <1>2, <1>5 DEF ConfirmProbe, ConfirmAnnouncement, AnnouncementHeard, AnnouncementFailed,
                      ConfirmResponse, ConfirmStale
  <2> QED
    BY <1>3, <2>1 DEF SettleArmed
<1>6. CASE state = "Probing" /\ ~ConfirmProbe(t, attempts)
  <2>1. token.kind \notin ClaimKinds
    BY <1>6 DEF UnclaimedUntilProbed, NoClaimQueued
  <2>2. ConfirmStale(attempts)
    BY <1>2, <1>6, <2>1 DEF ConfirmAnnouncement, ConfirmResponse, ClaimKinds
  <2>3. min_family_gap = 0
    BY <2>2 DEF ConfirmStale, min_family_gap
  <2>4. gate' = gate
    BY <1>2, <2>3 DEF SettleArmed
  <2> QED
    BY <1>2, <1>3, <2>2, <2>4 DEF ConfirmStale, SettleArmed, Expressible
<1> QED
  BY <1>4, <1>5, <1>6

(* No step brings the deadline of a service done with probing before the   *)
(* end of the window.                                                      *)
LEMMA SettleStep ==
  ASSUME Shape, UnclaimedUntilProbed, Clocked, SettleArmed, [Next]_vars
  PROVE  SettleArmed'
<1>1. CASE UNCHANGED <<now, state, phase, lifecycle_deadline, probe_on_wire, gate, token>>
  BY <1>1 DEF SettleArmed, Expressible
<1>2. CASE PollTransmit
  <2>1. UNCHANGED <<now, state, phase, probe_on_wire, gate>> /\ phase \in Nat
    BY <1>2 DEF PollTransmit, verdict, Shape
  <2>2. state = "Probing" /\ phase >= 3 => lifecycle_deadline' = lifecycle_deadline
    BY <1>2, <2>1 DEF PollTransmit, DeferFirstProbe, FirstProbeHeld, SettleArmed
  <2>3. token'.kind # "None" => token'.since = now
    BY <1>2 DEF PollTransmit, EmitMeta, EmitLegacy, EmitPending, EmitNothing, NewToken, NoToken
  <2>4. now - now <= MaxSendDelay
    BY ServiceAssumption, ClockAssumption DEF Clocked, Instant
  <2> QED
    BY <2>1, <2>2, <2>3, <2>4 DEF SettleArmed, Expressible
<1>3. ASSUME NEW relinquished, ProbeConflict(relinquished)
      PROVE  SettleArmed'
  <2>1. UNCHANGED <<now, gate>>
    BY <1>3 DEF ProbeConflict
  <2>2. CASE handle_preauthoritative_conflict(relinquished)
    BY <1>1, <2>1, <2>2 DEF handle_preauthoritative_conflict, clocks, queues
  <2>3. CASE RevertToProbing /\ RecentlyReprobed
    BY <1>1, <2>1, <2>3 DEF RevertToProbing, clocks, queues, verdict
  <2>4. CASE RevertToProbing /\ ~RecentlyReprobed
    <3>1. PICK base : restart_probe_cycle(base, FALSE, flood')
      BY <2>4 DEF RevertToProbing
    <3>2. /\ state' # "Probing" /\ token'.since = token.since
          /\ token'.kind # "None" => token.kind # "None"
      BY <3>1 DEF restart_probe_cycle, stale_live_commit_token
    <3> QED
      BY <2>1, <3>2 DEF SettleArmed
  <2> QED
    BY <1>3, <2>2, <2>3, <2>4 DEF ProbeConflict
<1>4. CASE LoseTiebreak \/ HostConflict \/ SiblingConflict \/ EndOfDatagram \/ UNCHANGED vars
  BY <1>1, <1>4 DEF LoseTiebreak, HostConflict, SiblingConflict, EndOfDatagram, vars, clocks,
                    queues, verdict
<1>5. CASE Tick
  <2>1. /\ UNCHANGED <<state, phase, lifecycle_deadline, probe_on_wire, gate, token>>
        /\ now' = now + 1
        /\ token # NoToken => now - token.since < MaxSendDelay
    BY <1>5 DEF Tick, clocks, queues, verdict
  <2>2. now \in Nat /\ token.since \in Nat /\ MaxSendDelay \in Nat
    BY ServiceAssumption, ClockAssumption DEF Clocked, Instant
  <2>3. token.kind # "None" => now' - token'.since <= MaxSendDelay
    BY <2>1, <2>2 DEF NoToken
  <2>4. \A f \in Families : gate[f] # None => gate[f] <= now'
    BY <2>1, <2>2 DEF SettleArmed
  <2> QED
    BY <2>1, <2>3, <2>4 DEF SettleArmed, Expressible
<1>6. CASE \E kind \in AllQuestions : Question(kind)
  BY <1>1, <1>6 DEF Question, verdict
<1>7. CASE Withdraw
  BY <1>7 DEF Withdraw, verdict, SettleArmed
<1>8. CASE \E u \in {"Established", "Renamed", "Conflict", "HostConflict"} : PollUpdate(u)
  <2>1. PICK u : PollUpdate(u)
    BY <1>8
  <2> QED
    BY <1>1, <1>7, <2>1 DEF PollUpdate, clocks, queues, verdict
<1> QED
  BY <1>2, <1>3, <1>4, <1>5, <1>6, <1>7, <1>8, TimeoutSettle, ConfirmSettle
  DEF Next, Unregister

(* The settling window is armed in every service.                          *)
THEOREM SettleInvariant == Spec => []SettleArmed
<1>1. Init => SettleArmed
  BY DEF Init, SettleArmed, NoToken
<1>2. Shape /\ UnclaimedUntilProbed /\ Clocked /\ SettleArmed /\ [Next]_vars => SettleArmed'
  BY SettleStep
<1> QED
  BY <1>1, <1>2, ShapeInvariant, UnclaimedInvariant, ClockedInvariant, PTL DEF Spec

(***************************************************************************)
(* The step to Announcing comes a settling window after the last gated     *)
(* acceptance of every family, less `slack` ticks.                         *)
(***************************************************************************)
SettledBy(slack) ==
  (state = "Probing" /\ state' = "Announcing" /\ Expressible) =>
    \A f \in Families : gate[f] # None => now - gate[f] + slack >= PROBE_INTERVAL

(* Only a timer takes a service from probing to announcing.                *)
LEMMA OnlyTimersAnnounce ==
  ASSUME UnclaimedUntilProbed, [Next]_vars, state = "Probing", state' = "Announcing"
  PROVE  HandleTimeout
<1>1. ~\E sockets, offered : Confirm(sockets, offered)
  <2> SUFFICES ASSUME NEW sockets, NEW offered, Confirm(sockets, offered)
               PROVE  FALSE
    OBVIOUS
  <2>1. token.kind \notin ClaimKinds
    BY DEF UnclaimedUntilProbed, NoClaimQueued
  <2> QED
    BY <2>1 DEF Confirm, ConfirmProbe, ConfirmAnnouncement, ConfirmResponse, ConfirmStale, ClaimKinds
<1>2. ~\E relinquished : ProbeConflict(relinquished)
  BY DEF ProbeConflict, handle_preauthoritative_conflict, RevertToProbing
<1>3. ~PollTransmit /\ ~LoseTiebreak /\ ~Withdraw /\ ~\E kind : Question(kind)
  BY DEF PollTransmit, LoseTiebreak, Withdraw, Question
<1>4. ~\E u : PollUpdate(u)
  BY <1>3 DEF PollUpdate
<1>5. ~(HostConflict \/ SiblingConflict \/ EndOfDatagram \/ Tick \/ UNCHANGED vars)
  BY Bystanders
<1> QED
  BY <1>1, <1>2, <1>3, <1>4, <1>5 DEF Next, Unregister

(* Announcing never begins before the section 8.1 settling window has      *)
(* passed since the last probe any family accepted, short of it at most by *)
(* the time the driver takes from poll to confirm: for every number of     *)
(* families and every driver.                                              *)
THEOREM SettlesWithinDelay == Spec => [][SettledBy(MaxSendDelay)]_vars
<1>1. ASSUME Shape, UnclaimedUntilProbed, Clocked, SettleArmed, [Next]_vars
      PROVE  [SettledBy(MaxSendDelay)]_vars
  <2> SUFFICES ASSUME state = "Probing", state' = "Announcing", Expressible,
                      NEW f \in Families, gate[f] # None
               PROVE  now - gate[f] + MaxSendDelay >= PROBE_INTERVAL
    BY DEF SettledBy
  <2>1. FireTimers
    <3>1. HandleTimeout
      BY <1>1, OnlyTimersAnnounce
    <3> QED
      BY <3>1 DEF HandleTimeout, DeferAfterTiebreak, Rename, GiveUpName, restart_probe_cycle
  <2>2. PICK d \in DeadlinesToFire : phase >= 3 /\ Due(FloorFirstProbe(d), now)
    BY <2>1 DEF FireTimers, FireLifecycle
  <2>3. d = lifecycle_deadline /\ FloorFirstProbe(d) = d
    BY <1>1, <2>2 DEF Shape, SettleArmed, DeadlinesToFire, startup_parked, FloorFirstProbe
  <2>4. lifecycle_deadline # None /\ lifecycle_deadline <= now /\ lifecycle_deadline \in Int
    BY <1>1, <2>2, <2>3 DEF Due, Clocked, Deadline
  <2>5. gate[f] + PROBE_INTERVAL <= lifecycle_deadline + MaxSendDelay /\ gate[f] \in Int
    BY <1>1, <2>2, <2>4 DEF SettleArmed
  <2> QED
    BY <1>1, <2>4, <2>5, Waits, ServiceAssumption, ClockAssumption DEF Clocked, Instant
<1> QED
  BY <1>1, ShapeInvariant, UnclaimedInvariant, ClockedInvariant, SettleInvariant, PTL DEF Spec

(* With a driver that confirms within the tick it polled in, Announcing    *)
(* begins only when the whole settling window has passed.                  *)
THEOREM SettlesFirst ==
  ASSUME MaxSendDelay = 0
  PROVE  Spec => SettlingWindow
<1>1. ASSUME Clocked, SettleArmed, [SettledBy(MaxSendDelay)]_vars
      PROVE  [(state = "Probing" /\ state' = "Announcing") =>
                LET probed == {f \in Families : gate[f] # None}
                IN (\A f \in probed : gate[f] + PROBE_INTERVAL <= MaxInstant)
                     => \A f \in probed : now - gate[f] >= PROBE_INTERVAL]_vars
  <2>1. \A f \in Families : gate[f] # None => now - gate[f] \in Int
    BY <1>1, ClockAssumption DEF Clocked, Instant, SettleArmed
  <2> QED
    BY <1>1, <2>1 DEF SettledBy, Expressible
<1> QED
  BY <1>1, SettleInvariant, ClockedInvariant, SettlesWithinDelay, PTL DEF SettlingWindow

=============================================================================
