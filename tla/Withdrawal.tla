----------------------------- MODULE Withdrawal -----------------------------
(***************************************************************************)
(* The endpoint's service table and its goodbye engine                     *)
(* (mdns-proto/src/endpoint/withdrawal.rs and endpoint/service.rs): routes *)
(* are registered, advertise, are renamed, unregistered or force-removed;  *)
(* what they put in peers' caches is retracted by withdrawal items, each   *)
(* with a debt per family, a schedule and a hard ceiling; names become     *)
(* free again; and what was transmitted is remembered for a while so that  *)
(* a late echo of it is recognised.                                        *)
(*                                                                         *)
(* A service is its route here: what it transmits and when it is renamed   *)
(* is any choice (Service models how it comes to make it).  All routes     *)
(* publish one address at one host name, as `host_addresses_disagree`      *)
(* makes them.  Names are suffix numbers as in Service.  A service type is *)
(* part of the instance name, so one name means one type.                  *)
(***************************************************************************)
EXTENDS Clock, FiniteSets

CONSTANTS Families, Handles,
          RegNames,                    \* names registrations ask for
          LastSuffix,                  \* the last suffix that fits a label
          Subtyped,                    \* handles registered with a subtype
          Unencodable,                 \* names whose goodbye never fits the buffer
          EmitSets,                    \* what a confirmed datagram may have carried
          HostOnAll,                   \* restriction: addresses reach all families at once
          WITHDRAWAL_SENDS,            \* 3
          WITHDRAWAL_INTERVAL,         \* 250 ms
          WITHDRAWAL_RETRY_BACKOFF,    \* 20 ms
          WITHDRAWAL_CEILING,          \* 2 s
          RelinquishedRetention,
          Outcomes,                    \* what a socket may do with a goodbye
          MaxDefeats, MaxForced,       \* model bounds: renames, forced removals
          Prompt,                      \* the driver pumps what is due before time passes
          StrictDriver                 \* and confirms a round before it does anything else

AllKinds == {"ptr", "srv", "sub", "nsec", "host"}

ASSUME WithdrawalAssumption ==
  /\ IsFiniteSet(Families) /\ Families # {}
  /\ Handles \subseteq Nat /\ None \notin Handles
  /\ RegNames \subseteq Nat /\ LastSuffix \in Nat
  /\ Subtyped \subseteq Handles /\ Unencodable \subseteq Nat
  /\ EmitSets \subseteq SUBSET AllKinds /\ HostOnAll \in BOOLEAN
  /\ WITHDRAWAL_SENDS \in Nat \ {0}
  /\ WITHDRAWAL_INTERVAL \in Nat \ {0}
  /\ WITHDRAWAL_RETRY_BACKOFF \in Nat \ {0}
  /\ WITHDRAWAL_CEILING \in Nat
  /\ RelinquishedRetention \in Nat
  /\ Outcomes \subseteq {"accepted", "refused", "no_socket"}
  /\ MaxDefeats \in Nat /\ MaxForced \in Nat
  /\ Prompt \in BOOLEAN /\ StrictDriver \in BOOLEAN

VARIABLES
  now,
  routes,         \* the services pool: a route per registered handle
  next_handle,    \* next_service_handle
  withdrawals,    \* the items, by token: tokens are minted in queue order
  next_token,
  round,          \* the WithdrawalTransmit the driver is sending
  relinquished,   \* identities transmitted and given up, with their expiry
  defeats, forced,
  held,           \* history: <<name, kind, family>> peers may hold from us, less
                  \*   what we gave up retracting
  ceased,         \* history: identities no longer published, and since when
  copies          \* history: goodbyes accepted within the last interval

vars == <<now, routes, next_handle, withdrawals, next_token, round, relinquished,
          defeats, forced, held, ceased, copies>>

InstanceKinds == AllKinds \ {"host"}

(***************************************************************************)
(* EmittedRecords::is_empty: an NSEC is transmitted but never retracted.   *)
(***************************************************************************)
Retractable == AllKinds \ {"nsec"}

(***************************************************************************)
(* What canonical_rdata_forms can name: the identities an echo is judged   *)
(* by.                                                                     *)
(***************************************************************************)
Screened == {"srv", "nsec", "host"}

Live == {h \in DOMAIN routes : ~routes[h].withdrawing}

Published(h) == IF h \in Subtyped THEN AllKinds ELSE AllKinds \ {"sub"}

Without(f, x) == [y \in DOMAIN f \ {x} |-> f[y]]

-----------------------------------------------------------------------------
(* Items.                                                                  *)

OnFamily(owned, f) == {k \in AllKinds : <<k, f>> \in owned}

owed_per_family(owned) ==
  [f \in Families |-> IF OnFamily(owned, f) \cap Retractable = {} THEN 0
                      ELSE WITHDRAWAL_SENDS]

NothingOwed == [f \in Families |-> 0]

Owing(item) == {f \in Families : item.owed[f] > 0}

OrNow(deadline) == IF deadline = None THEN now ELSE deadline

NewItem(origin, name, owned, route, holds) ==
  [origin |-> origin, name |-> name, owned |-> owned,
   owed |-> owed_per_family(owned), next_at |-> now,
   ceiling_at |-> OrNow(checked_add(now, WITHDRAWAL_CEILING)),
   final_attempt |-> FALSE, route |-> route, holds_name |-> holds]

(***************************************************************************)
(* mint_withdrawal_token, and the item at the end of the queue.            *)
(***************************************************************************)
Enqueue(item) ==
  /\ withdrawals' = [j \in DOMAIN withdrawals \cup {next_token} |->
                       IF j = next_token THEN item ELSE withdrawals[j]]
  /\ next_token' = next_token + 1

(***************************************************************************)
(* Host addresses are named by the host, instance records by the instance. *)
(***************************************************************************)
HostName == -1

Owner(kind, name) == IF kind = "host" THEN HostName ELSE name

Records(name, owned) == {<<Owner(g[1], name), g[1], g[2]>> : g \in owned}

(***************************************************************************)
(* History: records given up, less what a live route answers for.          *)
(***************************************************************************)
GiveUp(records, leaving) ==
  held \ {r \in records : \A h \in Live \ {leaving} :
                             r \notin Records(routes[h].name, routes[h].goodbye)}

-----------------------------------------------------------------------------
(* The relinquished screen.                                                *)

Identities(origin, name, owned) ==
  {<<origin, Owner(g[1], name), g[1], g[2]>> : g \in {e \in owned : e[1] \in Screened}}

RetainNothing(rows, ids) == rows

(***************************************************************************)
(* retain_relinquished: one retained again keeps the later expiry; nothing *)
(* is retained past the end of the clock.  The rows here are the live ones *)
(* of both tiers, which Relinquished shows is all they amount to while     *)
(* neither is full.                                                        *)
(***************************************************************************)
retain_relinquished(rows, ids) ==
  LET expires == checked_add(now, RelinquishedRetention)
  IN IF expires \in {None, now} THEN rows
     ELSE {r \in rows : r.id \notin ids} \cup {[id |-> i, expires_at |-> expires] : i \in ids}

relinquished_asserts(id) ==
  \/ \E j \in DOMAIN withdrawals :
       id \in Identities(withdrawals[j].origin, withdrawals[j].name, withdrawals[j].owned)
  \/ \E r \in relinquished : r.id = id

(***************************************************************************)
(* Histories forget what no property asks about any more.                  *)
(***************************************************************************)
Recent(since, at) ==
  [i \in {j \in DOMAIN since : at < since[j] + RelinquishedRetention} |-> since[i]]

Cease(ids) ==
  Recent([i \in DOMAIN ceased \cup ids |-> IF i \in ids THEN now ELSE ceased[i]], now)

-----------------------------------------------------------------------------
Init ==
  /\ now = 0
  /\ routes = <<>> /\ next_handle = 1
  /\ withdrawals = <<>> /\ next_token = 1 /\ round = None
  /\ relinquished = {}
  /\ defeats = 0 /\ forced = 0
  /\ held = {} /\ ceased = <<>> /\ copies = {}

(***************************************************************************)
(* A name is in use while a route has it, withdrawing or not, or while the *)
(* goodbye of a service that could not move off it is draining.            *)
(***************************************************************************)
HeldName(n) == \E j \in DOMAIN withdrawals :
                 withdrawals[j].route = None /\ withdrawals[j].holds_name /\ withdrawals[j].name = n

NamesInUse(except) ==
  {routes[h].name : h \in DOMAIN routes \ {except}}
    \cup {n \in {withdrawals[j].name : j \in DOMAIN withdrawals} : HeldName(n)}

(***************************************************************************)
(* try_register_service                                                    *)
(***************************************************************************)
Register(n) ==
  /\ n \notin NamesInUse(None)
  /\ next_handle \in Handles
  /\ next_handle' = next_handle + 1
  /\ routes' = [h \in DOMAIN routes \cup {next_handle} |->
                  IF h = next_handle
                  THEN [name |-> n, withdrawing |-> FALSE, dead |-> FALSE, goodbye |-> {},
                        full |-> FALSE, attempt |-> 0]
                  ELSE routes[h]]
  /\ UNCHANGED <<now, withdrawals, next_token, round, relinquished, defeats, forced, held,
                 ceased, copies>>

-----------------------------------------------------------------------------
(* Advertising and being renamed.                                          *)

Reclaimable(item, n) == item.route = None /\ ~item.holds_name /\ item.name = n

NarrowNothing(item, h) == item

CancelWhole(item, h) == [item EXCEPT !.owned = {}, !.owed = NothingOwed]

(***************************************************************************)
(* What a complete announcement of the same name does not supersede: the   *)
(* shared subtype PTRs it does not carry itself.  A family left with       *)
(* nothing to retract owes nothing more.                                   *)
(***************************************************************************)
Narrowed(item, h) ==
  LET kept == {g \in item.owned : g[1] = "sub" /\ h \notin Subtyped}
  IN [item EXCEPT !.owned = kept,
                  !.owed = [f \in Families |-> IF OnFamily(kept, f) = {} THEN 0
                                               ELSE item.owed[f]]]

(***************************************************************************)
(* reclaim_detached_goodbyes                                               *)
(***************************************************************************)
reclaim_detached_goodbyes(items, h, n) ==
  [j \in {i \in DOMAIN items : \/ ~Reclaimable(items[i], n)
                               \/ Narrowed(items[i], h).owed # NothingOwed} |->
     IF Reclaimable(items[j], n) THEN Narrowed(items[j], h) ELSE items[j]]

(***************************************************************************)
(* note_service_transmit_outcome for a datagram of h that carried `kinds`  *)
(* and was taken by `on`: latch what it exposed, and once an announcement  *)
(* of everything has reached every family, reclaim.                        *)
(***************************************************************************)
Transmitted(h, kinds, on) ==
  LET carried == kinds \cap Published(h)
      exposed == carried \X on
      full == routes[h].full \/ (carried = Published(h) /\ on = Families)
  IN /\ ~routes[h].dead
     /\ carried # {}
     /\ routes' = [routes EXCEPT ![h].goodbye = @ \cup exposed, ![h].full = full]
     /\ withdrawals' = IF full THEN reclaim_detached_goodbyes(withdrawals, h, routes[h].name)
                       ELSE withdrawals
     /\ held' = held \cup Records(routes[h].name, exposed)
     /\ ceased' = [i \in DOMAIN ceased \ Identities(h, routes[h].name, exposed) |-> ceased[i]]
     /\ UNCHANGED <<now, next_handle, next_token, round, relinquished, defeats, forced, copies>>

(***************************************************************************)
(* handle_timeout's choice of the next suffix, and what it leaves behind.  *)
(***************************************************************************)
FreeSuffixes(h) == {a \in routes[h].attempt + 1 ..
                      routes[h].attempt + 1 + Cardinality(NamesInUse(h)) :
                  a \notin NamesInUse(h) \/ a > LastSuffix}

Chosen(h) == CHOOSE a \in FreeSuffixes(h) : \A b \in FreeSuffixes(h) : a <= b

Handoff(h) == {g \in routes[h].goodbye : g[1] \in InstanceKinds}

(***************************************************************************)
(* drain_rename_goodbye: the old name is held exactly when the service has *)
(* not moved off it.                                                       *)
(***************************************************************************)
HoldsName(h, n) == n = routes[h].name

(***************************************************************************)
(* enqueue_rename_withdrawal: retain first, whether or not an item is due. *)
(***************************************************************************)
enqueue_rename_withdrawal(h, n) ==
  LET owned == Handoff(h)
      item  == NewItem(h, routes[h].name, owned, None, HoldsName(h, n))
  IN /\ relinquished' = retain_relinquished(relinquished, Identities(h, routes[h].name, owned))
     /\ ceased' = Cease(Identities(h, routes[h].name, owned))
     /\ IF item.owed = NothingOwed THEN UNCHANGED <<withdrawals, next_token>>
        ELSE Enqueue(item)

(***************************************************************************)
(* handle_service_timeout of a defeated service: it moves to the next free *)
(* suffix, or is dead under its name when none fits.                       *)
(***************************************************************************)
Defeated(h) ==
  LET a == Chosen(h)
      n == IF a > LastSuffix THEN routes[h].name ELSE a
  IN /\ defeats < MaxDefeats /\ defeats' = defeats + 1
     /\ ~routes[h].dead
     /\ enqueue_rename_withdrawal(h, n)
     /\ routes' = [routes EXCEPT ![h] =
                     [routes[h] EXCEPT !.name = n, !.attempt = a, !.full = FALSE,
                                       !.dead = a > LastSuffix, !.goodbye = @ \ Handoff(h)]]
     /\ UNCHANGED <<now, next_handle, round, forced, held, copies>>

-----------------------------------------------------------------------------
(* Withdrawal.                                                             *)

(***************************************************************************)
(* unregister_service, begin_withdrawal: the route stays, inert, with its  *)
(* item.                                                                   *)
(***************************************************************************)
Unregister(h) ==
  /\ Enqueue(NewItem(h, routes[h].name, routes[h].goodbye, h, FALSE))
  /\ routes' = [routes EXCEPT ![h].withdrawing = TRUE]
  /\ ceased' = Cease(Identities(h, routes[h].name, routes[h].goodbye))
  /\ UNCHANGED <<now, next_handle, round, relinquished, defeats, forced, held, copies>>

DropItems(h) ==
  [j \in {i \in DOMAIN withdrawals : withdrawals[i].route # h} |-> withdrawals[j]]

(***************************************************************************)
(* force_remove_service: no goodbye; the name is free at once.             *)
(***************************************************************************)
ForceRemove(h) ==
  LET ids == Identities(h, routes[h].name, routes[h].goodbye)
  IN /\ forced < MaxForced /\ forced' = forced + 1
     /\ routes' = Without(routes, h)
     /\ withdrawals' = DropItems(h)
     /\ relinquished' = retain_relinquished(relinquished, ids)
     /\ ceased' = IF routes[h].withdrawing THEN ceased ELSE Cease(ids)
     /\ held' = GiveUp(Records(routes[h].name, routes[h].goodbye), h)
     /\ UNCHANGED <<now, next_handle, next_token, round, defeats, copies>>

(***************************************************************************)
(* An item is due inside its window, or once at its ceiling.               *)
(***************************************************************************)
AtCeiling(item) == now >= item.ceiling_at

NoFinalAttempt(item) ==
  item.owed # NothingOwed /\ ~AtCeiling(item) /\ item.next_at <= now

Selectable(item) ==
  /\ item.owed # NothingOwed
  /\ IF AtCeiling(item) THEN ~item.final_attempt ELSE item.next_at <= now

RetainedByLeavers(item) ==
  /\ item.route # None
  /\ \E h \in DOMAIN routes \ {item.route} :
       \E f \in Families : <<"host", f>> \in routes[h].goodbye

(***************************************************************************)
(* sibling_retained_addrs: another live route still advertises the host.   *)
(***************************************************************************)
HostRetained(item) ==
  /\ item.route # None
  /\ \E h \in Live \ {item.route} : \E f \in Families : <<"host", f>> \in routes[h].goodbye

(***************************************************************************)
(* union_owed, less what a sibling retains: what a round would name.       *)
(***************************************************************************)
Named(item) ==
  {k \in Retractable : /\ \E f \in Owing(item) : <<k, f>> \in item.owned
                       /\ k = "host" => ~HostRetained(item)}

Skippable(item) == Named(item) = {} \/ item.name \in Unencodable

(***************************************************************************)
(* The scan passes over an item with nothing to say, which is complete,    *)
(* and over one that cannot be encoded (advance_after_encode_failure).     *)
(***************************************************************************)
Skip(item) ==
  LET later == checked_add(now, WITHDRAWAL_RETRY_BACKOFF)
  IN IF Named(item) = {} THEN [item EXCEPT !.owed = NothingOwed]
     ELSE IF AtCeiling(item) THEN [item EXCEPT !.final_attempt = TRUE]
     ELSE IF later = None THEN [item EXCEPT !.owed = NothingOwed]
     ELSE [item EXCEPT !.next_at = later]

(***************************************************************************)
(* poll_withdrawal_transmit: one scan in queue order up to the first item  *)
(* with a datagram, which is handed out for the families that owe.         *)
(***************************************************************************)
Emittable == {j \in DOMAIN withdrawals : Selectable(withdrawals[j]) /\ ~Skippable(withdrawals[j])}

PollWithdrawal ==
  LET first == CHOOSE j \in Emittable : \A k \in Emittable : j <= k
      Passed(j) == Selectable(withdrawals[j]) /\ (Emittable = {} \/ j < first)
  IN /\ round = None
     /\ \E j \in DOMAIN withdrawals : Selectable(withdrawals[j])
     /\ withdrawals' =
          [j \in DOMAIN withdrawals |->
             IF Passed(j) THEN Skip(withdrawals[j])
             ELSE IF Emittable # {} /\ j = first
               THEN [withdrawals[j] EXCEPT !.final_attempt = @ \/ AtCeiling(withdrawals[j])]
             ELSE withdrawals[j]]
     /\ round' = IF Emittable = {} THEN None
                 ELSE [token |-> first, name |-> withdrawals[first].name,
                       kinds |-> Named(withdrawals[first]), debt |-> Owing(withdrawals[first])]
     /\ held' = GiveUp(UNION {Records(withdrawals[j].name, withdrawals[j].owned) :
                               j \in {i \in DOMAIN withdrawals :
                                        /\ Passed(i) /\ Named(withdrawals[i]) # {}
                                        /\ Skip(withdrawals[i]).owed = NothingOwed}}, None)
     /\ UNCHANGED <<now, routes, next_handle, next_token, relinquished, defeats, forced, ceased,
                    copies>>

(***************************************************************************)
(* WithdrawalSend::project: only an absent socket writes a debt off.       *)
(***************************************************************************)
Paid(debt, outcome) ==
  CASE outcome = "accepted" -> debt - 1
    [] outcome = "no_socket" -> 0
    [] OTHER -> debt

(***************************************************************************)
(* A round some family owed and took keeps the interval; else retry soon;  *)
(* never past the ceiling.                                                 *)
(***************************************************************************)
NextAt(item, progressed) ==
  Sooner(OrNow(checked_add(now, IF progressed THEN WITHDRAWAL_INTERVAL
                                ELSE WITHDRAWAL_RETRY_BACKOFF)), item.ceiling_at)

SettledByWorst(item, outcome) ==
  LET sent == {f \in Owing(item) : outcome[f] = "accepted"}
  IN [item EXCEPT
        !.owed = [f \in Families |-> IF f \in Owing(item) THEN Paid(item.owed[f], outcome[f])
                                     ELSE 0],
        !.next_at = NextAt(item, Owing(item) \subseteq sent)]

(***************************************************************************)
(* note_withdrawal_result: the families that owed nothing are masked.      *)
(***************************************************************************)
Settled(item, outcome) ==
  LET sent == {f \in Owing(item) : outcome[f] = "accepted"}
  IN [item EXCEPT
        !.owed = [f \in Families |-> IF f \in Owing(item) THEN Paid(item.owed[f], outcome[f])
                                     ELSE 0],
        !.next_at = NextAt(item, sent # {})]

NoteWithdrawalResult(outcome) ==
  LET mine == {round.token} \cap DOMAIN withdrawals
      reached == {f \in round.debt : outcome[f] = "accepted"}
      gone == {f \in round.debt : outcome[f] = "no_socket"}
  IN /\ round # None
     /\ round' = None
     /\ withdrawals' = [j \in DOMAIN withdrawals |->
                          IF j \in mine THEN Settled(withdrawals[j], outcome)
                          ELSE withdrawals[j]]
     /\ held' = GiveUp(Records(round.name, round.kinds \X gone), None)
                  \ Records(round.name, round.kinds \X reached)
     /\ copies' = copies \cup {<<round.token, f, now>> : f \in {g \in reached : mine # {}}}
     /\ UNCHANGED <<now, routes, next_handle, next_token, relinquished, defeats, forced, ceased>>

Completed(item) ==
  item.owed = NothingOwed \/ (AtCeiling(item) /\ item.final_attempt)

(***************************************************************************)
(* drain_completed_withdrawals: retain what the items transmitted, free    *)
(* their routes.                                                           *)
(***************************************************************************)
DrainCompleted ==
  LET done == {j \in DOMAIN withdrawals : Completed(withdrawals[j])}
      freed == {withdrawals[j].route : j \in done} \ {None}
      ids == UNION {Identities(withdrawals[j].origin, withdrawals[j].name,
                               withdrawals[j].owned) : j \in done}
      unpaid == UNION {Records(withdrawals[j].name,
                               {g \in withdrawals[j].owned : g[2] \in Owing(withdrawals[j])}) :
                         j \in done}
  IN /\ round = None
     /\ done # {}
     /\ withdrawals' = [j \in DOMAIN withdrawals \ done |-> withdrawals[j]]
     /\ routes' = [h \in DOMAIN routes \ freed |-> routes[h]]
     /\ relinquished' = retain_relinquished(relinquished, ids)
     /\ held' = GiveUp(unpaid, None)
     /\ copies' = {c \in copies : c[1] \notin done}
     /\ UNCHANGED <<now, next_handle, next_token, round, defeats, forced, ceased>>

(***************************************************************************)
(* next_withdrawal_deadline                                                *)
(***************************************************************************)
WithdrawalDue == \E j \in DOMAIN withdrawals :
                   Sooner(withdrawals[j].next_at, withdrawals[j].ceiling_at) <= now

Tick ==
  /\ now < MaxInstant
  /\ Prompt => round = None /\ ~WithdrawalDue
  /\ now' = now + 1
  /\ relinquished' = {r \in relinquished : now' < r.expires_at}
  /\ ceased' = Recent(ceased, now')
  /\ copies' = {c \in copies : now' - c[3] < WITHDRAWAL_INTERVAL}
  /\ UNCHANGED <<routes, next_handle, withdrawals, next_token, round, defeats, forced, held>>

Next ==
  \/ /\ StrictDriver => round = None
     /\ \/ \E n \in RegNames : Register(n)
        \/ \E h \in Live : \E kinds \in EmitSets : \E on \in SUBSET Families \ {{}} :
             /\ (HostOnAll /\ "host" \in kinds) => on = Families
             /\ Transmitted(h, kinds, on)
        \/ \E h \in Live : Defeated(h)
        \/ \E h \in Live : Unregister(h)
        \/ \E h \in DOMAIN routes : ForceRemove(h)
  \/ PollWithdrawal
  \/ \E outcome \in [Families -> Outcomes] : NoteWithdrawalResult(outcome)
  \/ DrainCompleted
  \/ Tick

Spec == Init /\ [][Next]_vars

(***************************************************************************)
(* The driver's loop pumps, confirms and drains, and time passes.          *)
(***************************************************************************)
FairSpec ==
  /\ Spec
  /\ WF_vars(PollWithdrawal)
  /\ WF_vars(\E outcome \in [Families -> Outcomes] : NoteWithdrawalResult(outcome))
  /\ WF_vars(DrainCompleted)
  /\ WF_vars(Tick)

-----------------------------------------------------------------------------
(* Properties.                                                             *)

Covered(record) ==
  \/ \E h \in Live : record \in Records(routes[h].name, routes[h].goodbye)
  \/ \E j \in DOMAIN withdrawals :
       /\ record \in Records(withdrawals[j].name, withdrawals[j].owned)
       /\ record[3] \in Owing(withdrawals[j])

(* Whatever peers may still hold of an instance is either published by a   *)
(* live route or owed a goodbye on the family that carried it, through     *)
(* renames, reuse of the name, reclaimed goodbyes and removals, unless the *)
(* goodbye was given up: no socket, the ceiling, a forced removal.         *)
InstanceRecordsCovered ==
  \A record \in held : record[2] \in {"ptr", "srv", "sub"} => Covered(record)

(* The same for the host's addresses, which siblings share: the last to    *)
(* leave retracts them, however many leave at once.  It holds while every  *)
(* sibling's addresses are out on the same families;                       *)
(* LastSiblingWithdrawsHost fails when they are not.                       *)
HostRecordsCovered ==
  \A record \in held : record[2] = "host" => Covered(record)

(* A route whose addresses a sibling retains completes without retracting  *)
(* them, because the sibling's own goodbye will: once every service has    *)
(* left and every goodbye is done, peers hold no address on any family.    *)
LastSiblingWithdrawsHost ==
  (DOMAIN routes = {} /\ DOMAIN withdrawals = {}) => \A record \in held : record[2] # "host"

(* A goodbye never names a record that a live route has announced in full  *)
(* under that name, or an address a live sibling still advertises.         *)
NoGoodbyeOverLiveClaim ==
  [][(round = None /\ round' # None) =>
       \A h \in Live : \A k \in round'.kinds :
         /\ (routes[h].full /\ routes[h].name = round'.name) => k \notin Published(h)
         /\ k = "host" => \A f \in Families : <<"host", f>> \notin routes[h].goodbye]_vars

(* Two copies of a goodbye accepted by one family are WITHDRAWAL_INTERVAL  *)
(* apart, also when the other family refused its share of the same round   *)
(* and is still owed it, but for the last one at the ceiling, and where    *)
(* the clock ends before the interval does.                                *)
GoodbyesSpaced ==
  [][\A c \in copies' \ copies :
       (\E d \in copies : /\ d[1] = c[1] /\ d[2] = c[2]
                           /\ d[3] + WITHDRAWAL_INTERVAL <= MaxInstant)
         => c[1] \in DOMAIN withdrawals /\ withdrawals[c[1]].final_attempt]_vars

(* An echo of what this endpoint transmitted and no longer publishes is    *)
(* recognised for the whole retention after it stopped, whatever has       *)
(* become of the route, its item and its name by then.  (Nothing can be    *)
(* retained past the end of the clock.)                                    *)
EchoesDisowned ==
  \A i \in DOMAIN ceased :
    (now + RelinquishedRetention <= MaxInstant /\ now < ceased[i] + RelinquishedRetention)
      => relinquished_asserts(i)

(* Every withdrawal ends and frees its name, whatever the sockets do.      *)
WithdrawalsEnd ==
  \A h \in Handles : (h \in DOMAIN routes /\ routes[h].withdrawing) ~> (h \notin DOMAIN routes)

=============================================================================
