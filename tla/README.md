# hick, modelled in TLA+

`hick` is an mDNS / DNS-SD implementation (RFC 6762, RFC 6763) split into a
Sans-I/O core, `mdns-proto`, and a family of drivers that own the sockets and the
clock. All protocol state lives in the core: a driver feeds it datagrams
(`Endpoint::handle`) and time (`handle_timeout`), asks it for datagrams
(`poll_*_transmit`), sends them over IPv4 and IPv6, and reports how each family
took them (`note_*_outcome`). This directory models the core, the two screens a
received datagram passes before it (is it on-link, is it our own echo), and the
loops of the four drivers around it.

The hard part of this program is not any single handler. It is that every
datagram passes through three calls (poll, send, confirm) with conflicts, timers,
renames and removals in between, that each send succeeds or fails per address
family, and that what was sent long ago must be retracted, recognised or
forgotten at the right moment. That is what the modules keep; names, record
contents and wire formats are reduced to what those questions can tell apart.

## 1. The system

| part | state it keeps | operations | properties that make it correct |
|---|---|---|---|
| on-link check (`hick-onlink`, `hick-udp/src/onlink.rs`) | snapshot of the interface's addresses and its age | admit a datagram, refresh | nothing off-link is read, nothing on-link is lost |
| self-send suppression (`hick-udp/src/selfsend.rs`) | credits for what was sent, sealed or not, in generations | record, supersede, seal, claim | an own echo is recognised, a peer is silenced only briefly |
| routing of datagrams (`endpoint/receive.rs`, `route.rs`, `matching.rs`, `admits.rs`) | cursors over one datagram, the remembered screen answer | admit, feed answers, walk the sections | every entry reaches everyone it concerns, once |
| simultaneous-probe tiebreak (`service/proposal.rs`) | a bounded fold of the peer's records | compare two proposals | exactly one prober yields |
| record cache (`cache.rs`) | entry per record: expiry, time received; rrsets flushed by the current datagram | insert, refresh, goodbye, cache-flush, eviction at the cap, sweep, next deadline | bounded; a goodbye or flush takes effect within a second; nothing else shortens a life; what was withdrawn is forgotten |
| conflict-flood limit (`endpoint/flood.rs`) | ring of the last 15 conflict instants, latched epoch, owners already counted in this datagram | accept, verdict in force, epoch | exactly RFC 6762 section 8.1 over the whole history; the epoch does not slide |
| schedule and delivery accounting (`service/schedule.rs`, `transmit.rs`) | per-family patience (misses, covered, stalled) | deadlines, partial ladder, classification of a round | used by services and queries |
| service lifecycle (`service/mod.rs`) | state and phase, three deadlines, a two-slot queue, legacy queue, the commit token of the datagram in flight, verdicts, what the generation put in peers' caches per family, name and suffix | handle_event, handle_timeout, poll_transmit, note_transmit_outcome, quiesce | no claim before three probes per family; goodbyes exact; no lost wakeup; startup ends; flood floor held |
| service table (`endpoint/service.rs`) | routes by handle, names in use | register, unregister, force-remove, rename drain | a name has one holder; with the withdrawal engine |
| withdrawal engine (`endpoint/withdrawal.rs`) | items: a debt per family, schedule, ceiling, final attempt, route to free, name held | begin, enqueue, poll, result, reclaim, drain | everything peers hold is owed a goodbye, nothing else is flushed, every withdrawal ends |
| relinquished records (`endpoint/relinquished.rs`) | exact rows and a compact tier of identities, each with an expiry per family | retain, spill, merge, sweep, ask | an echo of our own past is recognised on the family that carried it, and nothing more |
| queries (`query/mod.rs`, `query/retry.rs`, `endpoint/query.rs`, the mailbox of `hick-reactor/src/query.rs`) | retry count and streak, two deadlines, collected answers, per-family patience; a mailbox and a doorbell | start, answer, time out, poll, confirm, duplicate question, scan, ring, read, drop | never forgotten; the budget is spent on the wire; each answer accounted for; the reader is released |
| drivers (`hick-reactor`, `hick-compio`, `hick-mio`, `hick-smoltcp` under `hick-embassy`) | producers and their handles, a send budget, cursors or a line, wake flags | receive, fire timers, send pass, confirm, retire, sweep, withdraw, seal, sleep, end | section "Driver" below |
| discovery, wire codec, sockets, names, configuration, tracing, facade | | | not modelled, section 6 |

How they interact:

- A driver reads a datagram, asks `hick-onlink` whether it may be read and the
  self-send tracker whether it is an echo of its own, and passes the provenance on.
- `Endpoint::handle` decodes it. Its answers go to the cache and to the queries that
  asked; each record that contradicts a registered service becomes an event of that
  service (`ProbeConflict`, `HostConflict`, a proposal), unless the relinquished
  screen recognises it as an echo of our own; each accepted conflict is charged once
  per datagram and owner to the endpoint-wide flood limit, which every service of the
  endpoint reads before it probes.
- A driver polls a service or query, gets a datagram and a token, offers it to each
  family, and confirms. Between the poll and the confirm the token is all the service
  knows; a conflict in that interval turns the token stale rather than dropping it,
  because peers may already have cached what it carried.
- A rename, an unregistration or a removal moves what a service exposed into
  withdrawal items and into the relinquished screen, and supersedes the self-send
  credits of the old generation. A name is free again when its route is, and a later
  holder of the name reclaims the goodbyes still pending for it.
- Callers hold handles. Dropping one, or reading its updates, happens on another
  thread (reactor), at the driver's awaits (compio), between two calls (mio, smoltcp).

What is hard here, and where: see `hazards` in `PROJECT.json`, each at its line. In
short: conflicts between a poll and its confirm; rounds one family takes and the
other refuses; a host-wide limit that latches between the queueing and the polling
of a probe; goodbyes that drain while their name is taken again; siblings that share
a host and leave at once; echoes that outlive their credit or their generation;
a host renumbered between two refreshes; an iterator resumed in mid-record; a budget
that ends a pass early; handles dropped in the middle of their own send; deadlines
past the end of the clock; caps that are reached.

## 2. The modules

```
Clock ── Cache ── CacheProofs
  ├── Schedule ── ScheduleProofs
  │      ├───── Service ── MCService, ServiceProofs      (with Flood)
  │      └───── Query ── QueryProofs
  ├── Withdrawal ── MCWithdrawal, WithdrawalProofs
  ├── SelfSend ─────────────────────────┐              AdmissionProofs
  ├── OnLink ───────────────────────────┤              (both of them)
  │   Message ── Proposal ── Routing ── MCRouting ──── MCIngress
  ├── Screen ◁─ Relinquished ───────────┤              IngressProofs
  └── Flood ── ConflictFlood ───────────┘              (and of Routing)
      Driver ── Reactor, Compio, Mio, Smoltcp ── MCDrivers ── DriverProofs
```

`Service` extends `Schedule` and `Flood`: a service is composed with the pure
schedule and with the flood limit of its endpoint, to which siblings contribute
through an action of their own. `Relinquished` refines the abstract `Screen`
(`INSTANCE Screen WITH window <- ...`).

**Clock.** Instants are `0 .. MaxInstant`. The code adds durations with
`checked_add_duration` and handles `None` everywhere, so the end of the clock is
a behaviour of the program and not only a bound of the model.

**Cache.** `entries` is the cache. A record is `<<rrset, rdata>>`; slab keys are
left out, so where the code takes the first of several equally soon victims the
model takes any. `TryInsertGoodbye`, `TryInsertPositive` are the two halves of
`Cache::try_insert` (an action is one record of a datagram; `flushed` is
`flushed_in_packet`, cleared by `NextDatagram`), `HandleTimeout` the sweep with
its event, `Tick` the sleeping driver, which does not sleep past
`poll_timeout`. `granted`, `goodbye_at` and `flush_at` are history.

**Flood, ConflictFlood.** `Flood` is `ConflictFlood` as operators on a record:
`accept` with the per-datagram memo, the ring, the latch and its lapse.
`ConflictFlood` drives it with an arbitrary stream and keeps the whole history to
compare with.

**Schedule.** Every deadline function of `schedule.rs`, the ladder for partial
rounds, `FamilyPatience`, `classify_advance`, `FamilyAttempt` and its projections.

**Service.** One registered service with the endpoint's flood limit and the
driver's wire gate. Actions: `HandleTimeout` (verdict first: `Rename`,
`DeferAfterTiebreak`, `GiveUpName`; otherwise the timers), `PollTransmit` (meta,
legacy, pending, or nothing; `DeferFirstProbe` is the endpoint's interception of a
first probe under a flood), `Confirm` (with `ConfirmProbe`, `ConfirmAnnouncement`,
`ConfirmResponse`, `ConfirmStale`), the events `ProbeConflict`, `LoseTiebreak`,
`HostConflict`, `Question`, the sibling's `SiblingConflict`, `EndOfDatagram`,
`Unregister`, `PollUpdate`, `Tick`. `wire` is the set of records peers may hold,
recorded when a family accepts a datagram; `heard` and `excused` count the probes
of the generation per family; they are history that no guard reads.
Names are suffix numbers. What a response contains is any member of
`ResponseSets`: known-answer suppression can remove any of it, and an empty one is
the code's empty one. SRV and TXT are one kind, since nothing in the lifecycle tells
them apart. Identical or undecodable records are no events, as in the code.
`StrictDriver` is the contract "confirm before anything else"; with `FALSE` every
other call may come in between. `Prompt` is a driver that serves what is due before
time passes.

**Withdrawal.** The endpoint's routes and goodbye items. A service is only its
route here: what it transmits and when it is defeated is any choice, which is
everything `Service` can do as seen from the engine. `withdrawals` is the code's queue
as a function from an item's token to the item: tokens are handed out in order and never
reused, so the lower token is nearer the front. Its actions are `Register`, `Transmitted`
(a confirm, which latches the exposure and reclaims once everything was announced),
`Defeated` (rename or death), `Unregister`, `ForceRemove`, `PollWithdrawal` (the whole
scan, skipped and unencodable items included), `NoteWithdrawalResult`,
`DrainCompleted`, `Tick`. All routes publish one address at one host, as
registration enforces. `held`, `ceased` and `copies` are histories; facts that have
lapsed are dropped from them to keep the state small. The union over owing families
that the code calls a known residual (`union_owed`) is modelled as it is.

**Relinquished, Screen.** Both tiers with their ceilings: an identical generation
extends its row, a new one takes a row or spills, per identity and family, into
the compact tier, which drops what does not fit. `Screen` is what that promises:
the window of a record on a family runs from the last generation that carried it on
that family, is never shortened and never lent to the other family, and may only be
refused when the compact tier is full; a retention of zero, which the configuration
allows, promises nothing. `Withdrawal` uses the screen as one unbounded
tier.

**SelfSend.** `SelfSendTracker` as operators on a record (`record` with `admit` and
its two caps, `supersede`, `seal`, `claim` in both match modes). A send pushes at most one
credit at the back of the code's vector, so `entries` is a function from the number of a
send to its credit, the front being the lowest. Around it is the driver loop
as the tracker sees it: `Stamp` reads the clocks before the syscall, `Submitted` or
`SendFailed` after it, `Seal` and `NextIteration` are the stages, `Receive` takes the
head of either socket's queue. Time passes everywhere, peers send the same bytes
(`PeerSends`), the wall clock steps (`WallStep`). Bytes are an identity, a length
and a class of header. `stamps` says whether the platform stamps what it receives.
`sends`, `spoiled` and `stepped` are history.

**OnLink.** `admits_ingress` arm by arm over addresses of `OCTET * OCTETS` bits in
two families with one member or a small block of each special kind, `prefix_match`
octet by octet, and the snapshot with its refresh interval. A datagram carries what
is true of it (link, delivery, destination) beside the evidence the receive path
could collect, with the cases in which control data is missing or truncated.

**Message, Proposal, Routing.** `Message` is what the endpoint reads of a datagram:
four sections of entries, `Junk` where the reader stops, `Garbled` for a name that
does not decode, and the matching rules of `matching.rs`. `Proposal` is
`proposal.rs`. `Routing` is `Endpoint::handle` (one action: admission, answers fed to
queries, duplicate questions) followed by `RouteStep`, one turn of the loop of
`RouteEvents::next`. What the walk must amount to is defined over the whole datagram
at once (`Concerns`). `RoutingAssumption` says that tables and sections are sequences and
that a canonical record is one number which sorts as its bytes do; `Sorted` is the
code's `set.sort()` by what it returns, `Folded` the loop that offers the fold one
record after the other. `MCRouting` lists the tables and datagrams: probes, responses,
queries with known answers, from the mDNS port and another, from a peer and from
what may be ourselves.

**MCIngress** runs the five parts that decide what becomes of a received datagram.
They share no state, so a behaviour exercises the one `subject` names.

**Query.** The query's state machine as operators on a record (`handle_event`,
`handle_timeout`, `note_transmit_outcome`, `note_duplicate_question`) and the calls
the reactor driver makes: `QPoll`, `QConfirm` (per family, gated at the wire), giving a
query up (`RetireQuery`), the scan of `push_updates` in four steps (`PushAnswers`,
`RingAnswers`, `PushTerminal`, `RingTerminal`) because the reader runs on another
thread. The reader drains, parks, is woken or leaves. An answer is its rdata key.

**Driver, Reactor, Compio, Mio, Smoltcp.** `Driver` has the state the four loops
share and the contract they answer to; a producer is what a driver sees of a service
or query: datagrams due, a terminal waiting, goodbye rounds left, its handle, its
reader. Each of the four modules is one loop: the reactor's bounded pass with its
resume cursors and command channel; compio's single fan-out with callers in between
and a notifier that only wakes who is listening; mio's line of producers with a
quantum; smoltcp's pump with slots that outlive their service. An action is one
stage of the loop, or one turn of a producer in the send pass. Caller steps are
placed where they can be seen (see `ReactorYields`, `Yields`). `MCDrivers` checks the
four against one contract.

MC modules only name sets of socket behaviours, emissions, datagrams and generations
for the configurations. Operators with no caller that precede a definition of the same
parameters (`ClampExtends` before `Clamp`) are faulty variants of it, kept to show that
the properties can fail.

## 3. What TLC checks

Twelve configurations, each a question of its own. All durations are ticks and
keep the order of the code's (retry backoff < interval < ceiling, probe interval <
announce interval < refresh); their ratios are reduced so that several rounds fit.
Deadlock checking is off where the system may really stop: the clock ends, the
service is withdrawn, the query is answered, the driver has ended. Without a fairness
condition `Spec` is used.

| run | module, configuration | distinct states | what it shows |
|---|---|---|---|
| `ingress` | MCIngress, MCIngress | 2,225,758 | *Echo*: two sends on two sockets, stalls, a peer, two disturbances: `OwnEchoRecognised`, `SuppressionBounded`, `OnlyCurrentGenerationSilences`. *Link*: three address lists, every evidence: `OnLinkSound`, `OnLinkComplete`. *Route*: `RoutesExactly`, `DefeatsReachTheJudge`, `OneProberYields`. *Screen*: `KeepsPromise`, the refinement of `Screen`. *Flood*: `LimitIsExact` against the whole history, `EpochIsFirstBurst`. |
| `cache` | Cache, MCCache | 179,611 | Four records contend for two slots. `CacheBounded`; `GoodbyeTakesEffect`, `FlushTakesEffect`, `CutShortOnlyWithCause` (the grace second, in both directions); under fairness `WithdrawnIsForgotten`. |
| `service_live` | MCService, MCServiceLive | 88,082 | Two families of which one comes and goes, conflicts, proposals and sibling conflicts until the peers fall silent. `Settles` (startup ends), `NoLostWakeup`, `SettlingWindow`, `RefreshNotLate`. |
| `service_conflicts` | MCService, MCServiceConflicts | 1,889,472 | Two peer events of every kind in every order, every kind of question and socket outcome, and a driver that breaks the confirm-first contract: `GoodbyesAreExact` through renames and reverts, `DefeatOnlyBeforeClaim`, `FloodFloorHeld`, `ClaimsWaitForProbes`. |
| `service_flood_late` | MCService, MCServiceFloodLate | violation | A driver that is not prompt: finding 1. |
| `service_rename` | MCService, MCServiceRename | violation | Finding 2. |
| `withdrawal_reuse` | MCWithdrawal, MCWithdrawalReuse | 705,018 | Two handles want one name, two siblings share a host, two families: `InstanceRecordsCovered`, `HostRecordsCovered` (while addresses go out on both families), `NoGoodbyeOverLiveClaim`, `EchoesDisowned`. Families are symmetric. |
| `withdrawal_live` | MCWithdrawal, MCWithdrawalLive | 139,301 | Two services of one host leave in every way, two families with every pair of outcomes in a round, one name whose goodbye never fits, a driver that confirms late: `GoodbyesSpaced`, `WithdrawalsEnd`. |
| `withdrawal_host` | MCWithdrawal, MCWithdrawalHost | violation | Finding 3. |
| `query` | Query, MCQuery | 555,500 | Two families, a caller's timeout or none, one retry, a cap and a backlog of one: `QueryNeverForgotten`, `BudgetSpentOnTheWire`, `AnswersAccounted`, and under fairness `ReaderIsReleased`. |
| `query_loss` | Query, MCQueryLoss | violation | Finding 4. |
| `drivers` | MCDrivers, MCDrivers | 4,439,622 | Two services and a query, a budget of one send: `ClassifiesOnlySealed`, `NothingLeftBehind`, `NoWorkSleptOn`, `OrphansCollected`, `ReadersReleased` for each driver; `TurnsComeRound` for the reactor (`RingComesRound`) and mio (`LineComesRound`). |

Why the bounds are enough for what they ask. *Cache*: one flush must find a sibling
a second old whose TTL reaches beyond another second, which needs five instants with a
second of two; a TTL of five then also runs past the clock. The pool is larger than the
cap, as the slab the drivers use is; a smaller pool is covered by the proof.
*Flood*: twice the ring, so that it wraps and lapses. *Relinquished*: the second
generation spills and the third does not fit. *SelfSend*: two sends suffice for a cap
of two entries or three bytes, for a credit taken by the other's echo and for a
superseded generation; the clock passes the TTL of one tick. *OnLink*: two
octets of two bits have prefixes that end on and inside an octet, and of length 0 and 4;
one renumbering per instant, and an interval of two. *Routing*: two
services of one host and one named as its own host, or one that is withdrawing beside
one that is not; up to two records where two matter.
*Service*: two families are all there are; one stalls after `MAX_PARTIAL_ROUNDS = 1`
misses; two peer events suffice for a revert and a defeat after it; `LastSuffix` and
`Taken` make the first candidate taken and the last one not fit; `service_live` runs to
instant 22 so that every behaviour can settle before the clock ends. *Withdrawal*: two
holders of one name, two siblings of one host, two families everywhere, so that a round
may be taken by one and refused by the other; in `withdrawal_live` a goodbye is owed
twice at an interval of two with a backoff of one, so that the retry of such a mixed
round would reach the paid family too early if the backoff alone decided, and a ceiling
of three that the last backoff meets. (Defeats are in `withdrawal_reuse` only, where
debts are a single copy; both together have too many states, and `GoodbyesAreSpaced`
is proved for them.) `withdrawal_reuse` sets `HostOnAll`: siblings' addresses are out
on the same families, which is what `HostRecordsCovered` needs (finding 3); instance
records go out on any. The two other runs do not restrict addresses, and the theorem
`NoGoodbyeOverLiveClaims` does not either. In the passing runs with renames no service
is registered under a name whose own suffix the rename would choose; `service_rename`
shows what happens then. *Query*: one retry
exhausts the budget, two rdata evict each other at a cap of one, three answers overflow
the mailbox. *Drivers*: a budget of one ends a pass before its second producer; two
services and a query make both classes contend; two goodbye rounds leave one to
be interrupted.

Fairness. `service_live` and `withdrawal_live` assume weak fairness of the driver's
own calls and of time: `Driver::tick` of `hick-mio` serves every due timer, polls and
confirms in each turn of its loop and sleeps no longer than `poll_timeout`. The
outcome of a send is not fair: a socket may refuse for ever, and only
`service_live` assumes one family that carries what it is given, without which a
service can indeed not announce itself. Peers are not fair; they stop interfering
at `QuietFrom`. In `cache`, `Tick` is strongly fair because a link that
re-announces a record with no life left disables it again and again, while time
passes regardless of what the link carries. `query` assumes that the driver task
keeps turning, reports every send (each has a timeout) and pushes updates, that time
passes, and that a reader who did not leave keeps reading.

Each property is shown able to fail: `mutants` in `PROJECT.json` names, for every
property of every passing run, a faulty variant of one definition under which TLC
finds it violated.

## 4. What is proved

TLAPS checks the following for every value of the constants that satisfies the
named assumptions: any families, sockets, peers, TTLs, caps and clocks.

**CacheProofs** (assumptions `ClockAssumption`, `CacheAssumption`). The inductive
invariant `CacheInv` joins the types, the finiteness of the cache, the caps, the three
expiry properties and `Dated`: nothing comes from the future, and every cached record
was granted an expiry. `Dated` is needed because a flush compares its instant
with the time a sibling was received, and a refresh resets that time without
resetting the flush. From `CacheInvariant` follow `CacheIsBounded`,
`GoodbyesAreHonoured`, `FlushesAreHonoured` and `ExpiryIsHonest`. The lemmas say what
eviction, insertion, clamping and checked addition do to an entry map.

**ServiceProofs** (assumptions of `Clock`, `Schedule`, `Flood`, `Service`). Four
invariants say what may be said on the wire, each resting on the ones before:

1. `Shape`: the part of the types the rest needs (`ShapeInvariant`).
2. `UnclaimedUntilProbed`: outside Announcing and Established nothing queued, delayed
   or in flight claims the name; a startup has not advertised; a generation under
   adjudication neither has claimed nor is claiming. The middle conjunct alone is
   not inductive: a response deadline or a legacy reply left over from the
   previous generation would fire into the new one. Gives `DefeatsPrecedeClaims`:
   `Spec => []DefeatOnlyBeforeClaim`.
3. `ProbedInOrder`: in phase n of probing every family not given up on has heard n
   probes, and one more if it is ahead of the family the phase waits for. Gives
   `ClaimsAreProbed`: `Spec => ClaimsWaitForProbes`, an action property.
4. `DefeatMeetsNoRecords` and `InFlightUnderName`: when a name is lost, no record is in
   flight, so the token's name is always the present one. Gives `GoodbyesExact`:
   `Spec => []GoodbyesAreExact`. `DefeatMeetsNoRecords` also proves that a token is
   never tagged with records of an old name: the branch of the late confirm that
   hands such records over is a backstop no execution reaches.

None of these four assumes `StrictDriver` or `Prompt`: they hold for a driver that
calls in any order. The next four are about deadlines. They rest on `Clocked` (every
armed deadline is one the clock can express, and nothing is dated in the future):

5. `AlwaysWoken`: `Spec => []NoLostWakeup`, for any driver. `Wakeful` is stronger than the
   property: a service that is neither done, withdrawn nor waiting for its first probe
   has its lifecycle ARMED, unless the clock cannot express the next wait. That a
   queue is not empty would not be inductive: a poll empties it. `InitIsIdle` adds
   that nothing is queued or in flight before the first timer.
6. `FloorIsHeld`: `Spec => FloodFloorHeld` if `Prompt`. The check before a poll looks at
   the head of the queue, so `ProbesAtHead` must hold: no probe waits behind another
   datagram. Without `Prompt` two timers queue two probes (finding 1).
7. `RefreshesInTime`: `Spec => []RefreshNotLate` if `Prompt` and `StrictDriver`, with any
   delay from poll to confirm. `RefreshCovered`: an armed service has an announcement
   queued or in flight, or its deadline covers every family in good standing; and no
   probe is queued once announced. The two hypotheses are the contract that
   `src/mdns-proto/src/service/mod.rs:5052` states and the loop that all drivers run:
   under them what a timer queues finds room and is not refused.
8. `SettlesWithinDelay`: Announcing begins a settling window after the last probe any
   family accepted, less at most `MaxSendDelay`, for any driver: the wait is dated from
   the earliest acceptance (`SettledAnnounce`), and families may accept that far apart.
   `SettleArmed` says so of the armed deadline. With `MaxSendDelay = 0`, poll and confirm
   in one tick, this is `SettlesFirst`: `Spec => SettlingWindow`.

`ScheduleAssumption` has the wait before a first probe within `PROBE_INTERVAL`: both are
250 ms (`src/mdns-proto/src/service/schedule.rs:17`).

**QueryProofs** (assumptions of `Clock`, `Schedule`, `Query`). The inductive invariant
`QInv` joins the types of the query record (`QShape`, with the facts that a datagram is
out only for a query that is there, and never while updates are pushed),
`SlotsWereAsked` (each slot spent was heard by a link or asked by a peer) and `Awaited`
(a live query has a send due, a datagram out, an armed deadline, or is within a maximal
back-off of the end of the clock). Gives `BudgetIsHonest`:
`QSpec => []BudgetSpentOnTheWire`, and `QueriesAreNeverForgotten`:
`QSpec => []QueryNeverForgotten`. `Accounts` is the invariant behind `AnswersAreAccounted`
(`QSpec => []AnswersAccounted`): what was taken, waits, was dropped or coalesced adds up to
`last_seq`, and the collected answers stand in the order of their sequence numbers. The
order is what makes the scan's `expected.saturating_sub(delivered)` exact (`ScanCounts`).
The scan is a recursive function over the answers; `ScanUnfolds` proves that a function
with its recursion exists, and both lemmas are inductions by a least counterexample, since
`<` on the naturals is well-founded. **ScheduleProofs** holds the lemmas about a round's
verdict that services and queries share, and those about deadlines: a checked addition is
the sum or nothing, a set of instants has an earliest, the ladder never reaches past the
refresh, the composed deadline covers the stalest family or lies one interval away.

**WithdrawalProofs** (assumptions of `Clock`, `Withdrawal`), for any number of services,
names and families, and a driver that confirms a round late or never. Everything rests on
`QueueMatchesTable`: `Spec => []Structure`, where a withdrawing route has exactly one
item with its name and records, and an item without a route names no address. Then:

1. `InstanceRecordsAreCovered`: `Spec => []InstanceRecordsCovered`. Not inductive alone: a
   round that settles could clear a debt of records the datagram did not carry, and a
   complete announcement reclaims goodbyes for records the route might not publish. So
   `Cover` adds `RoundSpeaks` (the round in flight names all its item still owes) and
   `FullMeansAll` (a route announced in full exposed all it publishes to every family).
2. `HostRecordsAreCovered`, the same for the addresses that siblings share, for an endpoint
   of ONE family. `HostInv` adds what holds while a round without the address is in flight:
   somebody besides its item still covers the address. The hypothesis is needed: the code
   asks of all families at once what it owes per family, and finding 3 is what two
   families make of it. (Two families whose addresses go out together, `HostOnAll`, are
   model-checked in `withdrawal_reuse`, not proved.)
3. `EchoesAreDisowned`: `Spec => []EchoesDisowned`. `Answered`: whatever ceased and is
   still inside its retention has a row that lives as long, or an item that will.
4. `NoGoodbyeOverLiveClaims`: `Spec => NoGoodbyeOverLiveClaim`, an action property,
   provided no service is registered under a name that a rename may choose
   (`RegNames \cap 1 .. LastSuffix = {}`). `NamesInv`: one holder of a name among routes
   and the items that hold it, suffixes that only grow, and a route announced in full that
   no detached goodbye contradicts. Without the hypothesis a rename may keep the name it
   should leave (finding 2), and its own goodbye then speaks over it.
5. `GoodbyesAreSpaced`: `Spec => GoodbyesSpaced`. `SpacedInv` ties every copy on the wire
   to the next attempt of its item: an interval later, or the last one at the ceiling.

**IngressProofs**, on the flood limit (assumptions of `Clock`, `Flood`, `ConflictFlood`), for
every burst length and window. `RingMatchesHistory`: `FloodSpec => []FloodInv`. The invariant says that for
some b the conflicts after the b-th are the present run: the ring holds the end of it,
no two of it are further than a window apart, it started after a longer pause, and the
epoch is latched exactly when it contains a burst, at the first. b is a witness and not a
variable, since the code forgets it. Gives `LimitExact`: `FloodSpec => []LimitIsExact`
and `EpochFixed`: `FloodSpec => []EpochIsFirstBurst`.

**IngressProofs**, on relinquished records (assumptions of `Clock`, `Relinquished`), for every
set of generations, retention and both ceilings. `TiersKeepPromise`: `ScreenSpec => KeepsPromise`,
that the two tiers implement `Screen` under the mapping that reads, for each record and
family, the last open window in either tier. Each step is mapped: retaining to
`Relinquish` with the records the compact tier refused, a sweep to a stutter, a tick to a
tick. The invariant is `WindowsWithinRetention`: no expiry lies further ahead than one
retention; without it a merge or a new generation could shorten a window.

**IngressProofs**, on routing (assumption of `Routing`), for every datagram and every table.
`RoutingInv` says where a walk may stand, what `handle` has settled for it, that the
remembered answer of the screen is that of the record it names, and (`RoutedSoFar`) that
what has been routed is, without repetition, what `Concerns` anyone among the events the
walk has been past (`Seen`): those of the sections it left, of the entries before this one,
and of this entry those in front of the cursor of the pass it is in. Each move of a
cursor adds to `Seen` exactly what it passes (`NextPasses`, `CursorPasses`,
`QueryCursorPasses`, `ServedPasses`), each pass tells a slot exactly what it is owed
(`HearsQuestion`, `HearsProposal`, `HearsRecord`, `FeedsTheAsked`), and no section is left
before its last readable entry (`NoneBeyond`). At the end everything has been passed:
`DatagramRouted`: `RouteSpec => []RoutesExactly`. `DefeatsHeard`:
`RouteSpec => []DefeatsReachTheJudge` adds what router and judge make of the Authority
Section: a comparison is not abandoned only if all of it is readable, then the router's
first record that settles is ours, and a peer that offers nothing never wins
(`NothingOfferedLoses`).

**IngressProofs**, on the comparison of two probes. `OfferFolds`: with each element offered,
the fold holds the least `keep` of those offered so far, each in the place its rank gives
it (`Ranked`), and their number. By a least counterexample over the number of elements
offered, `FoldsWhole`: so does the fold of a whole list of any length. So sorting is a fold
with room for everything (`SortedFolds`), a fold does not depend on the order of arrival
(`FoldsAgree`), and comparing in the space of one's own list is comparing the whole lists in
order (`ComparesInOrder`), which of two different lists puts exactly one later
(`OneIsLater`). Gives `ProbersAgree`: `RouteSpec => []OneProberYields`.

**AdmissionProofs**, on self-send suppression (assumptions of `Clock`, `SelfSend`), for every time to live, cap,
tolerance and truncation grain, any sockets, stalls, peers and steps of the wall clock.
`CreditInv`: a credit says of its send what the send was, and while datagrams are claimed
every send has been sealed. Gives `SuppressionIsBounded`:
`SelfSpec => []SuppressionBounded`, and `SupersededNeverSilences`:
`SelfSpec => []OnlyCurrentGenerationSilences`. `EchoInv` adds the queues: an echo that is
owed its credit (not late, its bytes not `spoiled`, one wall-clock step at most) still has
the credit of its own send, the clocks speak for it (`Since`), and echoes of one socket
wait in the order of their sends. The order is needed: the oldest credit is taken
first, and the credit a claim takes belongs to no echo behind it only because every echo
in front of that one has claimed. Gives `OwnEchoIsRecognised`:
`SelfSpec => []OwnEchoRecognised`. `record` never drops a live credit at a cap
(`RecordKeepsLive`); that is the lemma the code comments insist on.

**AdmissionProofs**, on the on-link check (assumptions of `Clock`, `OnLink`), for addresses of
any length in octets of any width, any address lists, datagrams and refresh interval.
`OctetsCompareBits`: `prefix_match`, which compares whole octets and a masked rest, says that
the leading bits agree, which is how section 11 defines a prefix. It is an induction over
the octets by a least counterexample; powers of two are known to the provers only as the
number of subsets of an interval, so `PowerSum` counts them. `ProvenanceSays`, `SourceArm` and
`AdmitsWhen` reduce `admits_ingress` to a formula over the evidence. `LinkInv`: while a verdict
stands, the snapshot it was reached with is one the interface reported within the
interval. Gives `NothingOffLinkIsRead`: `LinkSpec => []OnLinkSound`, and `NothingOnLinkIsLost`:
`LinkSpec => []OnLinkComplete`. Soundness rests on `HeldAddressesAreUnicast`: an interface is
assigned no group and no broadcast address. `is_bound_address` relies on it (a datagram to
a held address takes the unicast arm), as `src/hick-onlink/src/lib.rs:2010` says of a
local unicast address, which "never equals a group".

**DriverProofs** (assumption `DriverAssumption` alone), for any services, queries, links,
send budget and number of goodbye rounds, and for all four drivers with their callers in
between. `DriversSound`: `Spec => []DriverInv`. Its common part says of each producer that
only a live one has anything to send, that rounds are left only while it is leaving, and
that what it announced it can still withdraw. What the park promises is not inductive:
it is kept by what each stage of the pass leaves for the next, so every driver has a part
of its own, by stage:

- reactor: what the command channel holds of a producer (`Mail`). An orphan has its
  removal queued, and a removal that is queued is for a closed handle;
- compio: a caller runs at every await, so the drop of a handle is in `dirty` until the
  sweep and in `force` or `notified` until the next pass; a reader that waits on a retired
  service has its wake owed; and the send that is awaited is still due when it returns;
- mio, smoltcp: no await and no channel, so there is never an orphan; smoltcp frees a
  slot only when its handle has nothing left to read.

Gives `SealedFirst`: `Spec => []ClassifiesOnlySealed`, `EverythingWithdrawn`:
`Spec => []NothingLeftBehind`, `NoOrphanForgotten`: `Spec => []OrphansCollected`,
`CallersTold`: `Spec => []ReadersReleased`. `DriverInit` to `DriverNext` are its steps, one
lemma per group of a driver's actions.

`NothingSleptOn`: `Spec => []NoWorkSleptOn`, by a second invariant, `BusyInv`, on top of
`DriverInv`. A pass visits producers one at a time and may be cut short anywhere, so at
each of its steps whoever has something to send must be still ahead in the walk, or a
flag that forbids sleep must be up: `more` (reactor, mio), `dirty`, `force` or `notified`
(compio), `kick` (smoltcp). The walks differ, and so do the arguments. The reactor's
begins at a cursor and wraps (`RingComesBy`, `WalkComesBy`); compio's begins anew after
each send it awaited (`CompioTurnOver`); mio serves the head of a line and sends it to the
tail, so the front of the line is whoever had no turn yet (`LineTurns`). `WalkVisits` is
what all of them rest on: a walk comes by every member of the finite set it is made for.
`Walk` is written with cardinalities, not with the library's sort, so that this can be
proved.

`TurnsGoRound`: `Spec => []TurnsComeRound`, from its halves, by one invariant for each on
top of `DriverInv` and `BusyInv`. A bound on the passes somebody has waited is not
inductive; both invariants say what the passes still to come will be paid with.

- `LineMovesOn`, mio (`MioTurns`): who stands in place i and has waited w ticks has
  w * `PerTick` + i within the longest line plus `PerTick`: every tick waited was paid
  for with as many places as a tick has credits. `CreditsLast` is why a tick serves that
  many: its credits last to the tail of the line or for as many turns as there are
  credits, and a turn that spends none moves the line too. `WithoutOrder` and
  `JoinsBehind`: nobody falls back when another leaves or registers.
- `RingMovesOn`, reactor (`RingTurns`): whoever waits has, of the 4n(1 + left) passes that
  its class of n allows, enough left for two passes per slot that the walk comes by before
  its own (the classes take turns at going first, and a pass gives the first at least one
  turn), for four per member that may still register ahead of it, and for 2n per slot that
  the cursor points behind the end of the walk. A cut pays with the slots its walk came
  by (`CutPays`, `ClassMoves`), a drain that came by everyone leaves nobody waiting
  (`DonePays`), and whoever leaves brings its class another 4n, because the cursor, an
  index, may now open the walk one place too far (`ClassLeaves`, `ClassJoined`).

Only model-checked: every liveness property (`Settles`, `WithdrawalsEnd`,
`ReaderIsReleased`, `WithdrawnIsForgotten`: fairness is beyond the prover).
The theorems of `Service`, `Query` and `Schedule` stop at one service or
query: nothing is proved of several that share a socket.

## 5. Findings

1. *The flood floor can be passed by a queued second probe* (`service_flood_late`).
   `handle_timeout` may run twice before a poll and queue two first probes. If the
   host-wide limit latches then, `defer_first_probe_under_flood` takes only the head of
   the queue, and the next poll hands the other out inside the five seconds. The
   comment at `src/mdns-proto/src/service/mod.rs:4876` says neither order can. A prompt
   driver does not meet it: `FloodFloorHeld` holds in `service_conflicts`.
2. *A rename may keep the name* (`service_rename`). A service registered as `Foo-1`
   and defeated is renamed to `Foo-1`, and reports `Renamed`
   (`src/mdns-proto/src/event.rs:633`: "rebranded to a new name").
3. *An address shared by siblings can outlive them on one family* (`withdrawal_host`).
   Whether a sibling retains an address is asked of all families together, whether
   it owes a goodbye per family; two siblings that reached different families leave one
   of them untold (`src/mdns-proto/src/endpoint/withdrawal.rs:650`, against line 280).
4. *Answers can be lost without a trace* (`query_loss`). A query whose question cannot
   be encoded, or that no transport can carry, is retired within the send pass
   (`src/hick-reactor/src/driver/mod.rs:1495`) without the scan `push_updates` makes.
   Answers accepted since the last scan are neither delivered nor added to
   `dropped_answers`, of which `src/hick-reactor/src/query.rs:106` says "every loss path
   is observable through one number".

Five remarks that are not findings. The wire gate is shared by all kinds of
datagram, so a first announcement can wait one `ANNOUNCE_INTERVAL` behind a response
on the same family. The settling window after the third probe is spent in
`Probing(3)`, where the comments speak of entering Announcing at once. And the
reactor's cursor is an index into a snapshot that every pass makes anew: when a service
ahead of the mark leaves between two passes, the next pass opens one place further on,
where `src/hick-reactor/src/driver/mod.rs:1156` has it open on the handle that was not
reached, and that handle waits for the cursor to wrap. Each departure may cost
another round, which is why `RingComesRound` counts them: with four services, one of
which leaves, TLC shows ten passes where eight would do if nobody left or registered.
mio's line does not have this (`LineComesRound`). (A `HashMap` keeps no order when it
grows; the model takes the order to be fixed, which is the best case.)

The last two are comments of `src/mdns-proto/src/endpoint/route.rs` that the code beside
them contradicts; `RoutesExactly` certifies what the code does. Lines 1336-1339 say of
additional records that they "fan out to active queries ONLY (QR=1) — never service
conflicts/KAS", while lines 1377-1406, with a comment that says so, offer each one to
the services as a conflict first and to the queries after (`RouteAdditional`). And lines
1058-1060 say that authority records "fire ProbeConflict / HostConflict regardless of
QR", while at lines 1305-1323 a record of a QR=0 section raises a host conflict only,
its instance half having been delivered whole by `AuthorityProposals`, and one of a
QR=1 response is a response's conflict, no probe's (`RouteAuthority`).

## 6. What is not modelled

- Known-answer suppression, record contents and encoding (`respond.rs`, `wire/`): only
  which kinds of record a datagram carried, and which entries a reader can read. Encode
  failures are modelled for goodbyes, queries and the drivers' passes, not inside
  `Service`.
- The multicast-only copy of an exposure, which the relinquished screen reads, is not
  told apart from the full one; nor is the unicast half of a goodbye.
- Host addresses that disagree, re-addressing, exhausted pools at registration.
- Sockets and their options, receive back-off, interface enumeration: calls of the
  operating system. What they report is the input of `OnLink` and `SelfSend`.
- In `SelfSend`, `record` and `seal` read the clock once where the code reads it for the
  sweep and again for the decision or the anchor; what dies in between is refused by
  `claim`. In `Proposal`, an own address registered twice counts once.
- In the drivers: that the reactor takes at most eight commands between two passes that
  left work (`COMMAND_DRAIN_BUDGET`; a run never has more waiting); credits that one
  family spends against the other, the event queue's
  compaction, smoltcp's own copies of the on-link check and the self-send log.
- Discovery, which assembles browse results out of query answers and keeps no
  protocol state; tracing, statistics, configuration and the facade.
  `components` in `PROJECT.json` gives the reason for each.

## 7. Plan

Built: the core (`Cache`, `Flood`, `Schedule`, `Service`, `Withdrawal`, `Relinquished`),
the way in (`OnLink`, `SelfSend`, `Routing`, `Proposal`), `Query`, and the drivers. Left is
`Endpoint`: two services with one flood limit, one relinquished screen and one
withdrawal engine, so that the labels `Service` takes for granted (an echo, a
sibling's conflict) are computed rather than chosen.
