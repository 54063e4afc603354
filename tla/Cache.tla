------------------------------- MODULE Cache --------------------------------
(***************************************************************************)
(* The passive record cache of an endpoint (mdns-proto/src/cache.rs) and   *)
(* the part of Endpoint::handle and Endpoint::handle_timeout that feeds    *)
(* and sweeps it (endpoint/receive.rs).                                    *)
(*                                                                         *)
(* A record's identity is <<rrset, rdata>>, where an rrset stands for a    *)
(* (name, rtype, rclass) triple.  Slab keys are abstracted away: where the *)
(* code picks the first of several equally soon entries in slab order, the *)
(* model picks any of them.                                                *)
(***************************************************************************)
EXTENDS Clock, FiniteSets

CONSTANTS RRSets,         \* (name, rtype, rclass) triples
          Rdatas,         \* canonical rdata values
          Ttls,           \* record TTLs in ticks; 0 is a goodbye
          OneSecond,      \* RFC 6762 sections 10.1 and 10.2 grace, in ticks
          MaxEntries,     \* Cache::max_entries; 0 disables caching
          PoolCapacity,   \* how many values the backing Pool accepts
          MaxEvents       \* model bound: undrained CacheExpired events

ASSUME CacheAssumption ==
  /\ OneSecond \in Nat \ {0}
  /\ MaxEntries \in Nat
  /\ PoolCapacity \in Nat
  /\ MaxEvents \in Nat \ {0}
  \* a TTL is a whole number of seconds
  /\ Ttls \subseteq Nat /\ \A t \in Ttls : t = 0 \/ t >= OneSecond

Records == RRSets \X Rdatas

rrset(r) == r[1]

VARIABLES
  now,             \* the instant the driver passes in
  entries,         \* cached record -> [expires_at, received_at]
  flushed,         \* flushed_in_packet of the datagram being handled
  expired_events,  \* CacheExpired events waiting in Endpoint::pending_events
  (* history of the cached records, read by the properties only *)
  granted,         \* the expiry the record's last positive TTL granted
  goodbye_at,      \* when the record was last withdrawn, if not announced since
  flush_at         \* when the rrset was last flushed

vars == <<now, entries, flushed, expired_events, granted, goodbye_at, flush_at>>

Entry == [expires_at : Instant, received_at : Instant]

(***************************************************************************)
(* History is kept for what is cached: a record that leaves the cache      *)
(* takes its history with it.                                              *)
(***************************************************************************)
OfCached(h, E) == [r \in Records |-> IF r \in DOMAIN E THEN h[r] ELSE None]

OfCachedSets(h, E) ==
  [s \in RRSets |-> IF \E r \in DOMAIN E : rrset(r) = s THEN h[s] ELSE None]

Init ==
  /\ now = 0
  /\ entries = [r \in {} |-> {}]
  /\ flushed = {}
  /\ expired_events = 0
  /\ granted = [r \in Records |-> None]
  /\ goodbye_at = [r \in Records |-> None]
  /\ flush_at = [s \in RRSets |-> None]

-----------------------------------------------------------------------------
(* Operators on the entry map.                                             *)

Cached(E) == DOMAIN E

Put(E, r, e) == [q \in Cached(E) \cup {r} |-> IF q = r THEN e ELSE E[q]]

Without(E, gone) == [q \in Cached(E) \ gone |-> E[q]]

(***************************************************************************)
(* A TTL past the end of the clock expires at once.                        *)
(***************************************************************************)
expiry(t, ttl) == LET at == checked_add(t, ttl) IN IF at = None THEN t ELSE at

ClampExtends(E, which, deadline) ==
  [q \in Cached(E) |->
     IF q \in which /\ deadline # None /\ E[q].expires_at < deadline
     THEN [expires_at |-> deadline, received_at |-> E[q].received_at] ELSE E[q]]

(***************************************************************************)
(* Clamp the expiry of the entries of `which` to `deadline`, only ever     *)
(* shortening it; no deadline (clock overflow) leaves them all alone.      *)
(***************************************************************************)
Clamp(E, which, deadline) ==
  [q \in Cached(E) |->
     IF q \in which /\ deadline # None /\ E[q].expires_at > deadline
     THEN [expires_at |-> deadline, received_at |-> E[q].received_at] ELSE E[q]]

FlushVictimsNoGrace(E, r, t) ==
  {q \in Cached(E) : rrset(q) = rrset(r) /\ q # r}

FlushVictimsStrict(E, r, t) ==
  {q \in Cached(E) : rrset(q) = rrset(r) /\ q # r /\ t - E[q].received_at > OneSecond}

(***************************************************************************)
(* The siblings a cache-flush of r at `t` reaches: same rrset, other       *)
(* rdata, received at least one second ago.                                *)
(***************************************************************************)
FlushVictims(E, r, t) ==
  {q \in Cached(E) : /\ rrset(q) = rrset(r) /\ q # r
                     /\ t - E[q].received_at >= OneSecond}

Soonest(E) == {v \in Cached(E) : \A q \in Cached(E) : E[v].expires_at <= E[q].expires_at}

EvictSoonest(E) ==
  IF Cached(E) = {} THEN {E} ELSE {Without(E, {v}) : v \in Soonest(E)}

EvictedPastCap(E) ==
  IF Cardinality(Cached(E)) > MaxEntries THEN EvictSoonest(E) ELSE {E}

ProactivelyEvicted(E) ==
  IF Cardinality(Cached(E)) >= MaxEntries THEN EvictSoonest(E) ELSE {E}

PoolAccepts(E) == Cardinality(Cached(E)) < PoolCapacity

(***************************************************************************)
(* Cache::bounded_insert: make room at the cap, insert, and when the pool  *)
(* refuses evict once more and retry; a second refusal is an error and     *)
(* inserts nothing.                                                        *)
(***************************************************************************)
bounded_insert(E, r, e) ==
  UNION { IF PoolAccepts(E1) THEN {Put(E1, r, e)}
          ELSE {IF PoolAccepts(E2) THEN Put(E2, r, e) ELSE E2 : E2 \in EvictSoonest(E1)}
        : E1 \in ProactivelyEvicted(E) }

-----------------------------------------------------------------------------
(* Actions.                                                                *)

(***************************************************************************)
(* A TTL=0 record: one second to live, never longer than it had.           *)
(***************************************************************************)
TryInsertGoodbye(r) ==
  /\ MaxEntries # 0
  /\ entries' = Clamp(entries, {r}, checked_add(now, OneSecond))
  /\ goodbye_at' = OfCached([goodbye_at EXCEPT ![r] = now], entries')
  /\ UNCHANGED <<now, flushed, expired_events, granted, flush_at>>

(***************************************************************************)
(* A positive-TTL record: flush its siblings when it is the first of its   *)
(* rrset in the datagram to carry the cache-flush bit, then refresh the    *)
(* cached copy or insert a new one.                                        *)
(***************************************************************************)
TryInsertPositive(r, ttl, cache_flush) ==
  LET do_flush == cache_flush /\ rrset(r) \notin flushed
      E == IF do_flush
           THEN Clamp(entries, FlushVictims(entries, r, now), checked_add(now, OneSecond))
           ELSE entries
      expires_at == expiry(now, ttl)
      e == [expires_at |-> expires_at, received_at |-> now]
  IN /\ MaxEntries # 0
     /\ ttl # 0
     /\ entries' \in IF r \in Cached(E) THEN {Put(E, r, e)} ELSE bounded_insert(E, r, e)
     /\ flushed' = IF do_flush THEN flushed \cup {rrset(r)} ELSE flushed
     /\ granted' = OfCached([granted EXCEPT ![r] = expires_at], entries')
     /\ goodbye_at' = OfCached([goodbye_at EXCEPT ![r] = None], entries')
     /\ flush_at' = OfCachedSets(
          IF do_flush THEN [flush_at EXCEPT ![rrset(r)] = now] ELSE flush_at, entries')
     /\ UNCHANGED <<now, expired_events>>

(***************************************************************************)
(* The next datagram starts with nothing flushed.                          *)
(***************************************************************************)
NextDatagram ==
  /\ flushed # {}
  /\ flushed' = {}
  /\ UNCHANGED <<now, entries, expired_events, granted, goodbye_at, flush_at>>

ExpiredLate(E, t) == {r \in Cached(E) : E[r].expires_at < t}

Expired(E, t) == {r \in Cached(E) : E[r].expires_at <= t}

(***************************************************************************)
(* Endpoint::handle_timeout: sweep, and report a sweep that removed some.  *)
(***************************************************************************)
HandleTimeout ==
  /\ Expired(entries, now) # {}
  /\ expired_events < MaxEvents
  /\ entries' = Without(entries, Expired(entries, now))
  /\ expired_events' = expired_events + 1
  /\ flushed' = {}
  /\ granted' = OfCached(granted, entries')
  /\ goodbye_at' = OfCached(goodbye_at, entries')
  /\ flush_at' = OfCachedSets(flush_at, entries')
  /\ UNCHANGED now

(***************************************************************************)
(* Endpoint::poll hands the driver one queued event.                       *)
(***************************************************************************)
Poll ==
  /\ expired_events > 0
  /\ expired_events' = expired_events - 1
  /\ UNCHANGED <<now, entries, flushed, granted, goodbye_at, flush_at>>

(***************************************************************************)
(* Cache::next_expiration, the deadline Endpoint::poll_timeout reports.    *)
(***************************************************************************)
next_expiration ==
  IF Cached(entries) = {} THEN None
  ELSE entries[CHOOSE r \in Soonest(entries) : TRUE].expires_at

(***************************************************************************)
(* Time passes between datagrams.  The driver sleeps at most until the     *)
(* reported deadline, so the clock does not run on over a due sweep.       *)
(***************************************************************************)
Tick ==
  /\ now < MaxInstant
  /\ ~Due(next_expiration, now)
  /\ now' = now + 1
  /\ flushed' = {}
  /\ UNCHANGED <<entries, expired_events, granted, goodbye_at, flush_at>>

Next ==
  \/ \E r \in Records : TryInsertGoodbye(r)
  \/ \E r \in Records, ttl \in Ttls, cache_flush \in BOOLEAN :
       TryInsertPositive(r, ttl, cache_flush)
  \/ NextDatagram
  \/ HandleTimeout
  \/ Poll
  \/ Tick

(***************************************************************************)
(* The driver's loop keeps calling handle_timeout and poll, and time       *)
(* passes however often records arrive that expire at once; what other     *)
(* hosts send is not fair.                                                 *)
(***************************************************************************)
Fairness == SF_vars(Tick) /\ WF_vars(HandleTimeout) /\ WF_vars(Poll)

Spec == Init /\ [][Next]_vars

FairSpec == Spec /\ Fairness

-----------------------------------------------------------------------------
(* Properties.                                                             *)

(* The state has its types: cached records map to instants, never beyond   *)
(* the clock; nothing cached was received in the future.                   *)
TypeOK ==
  /\ now \in Instant
  /\ Cached(entries) \subseteq Records
  /\ entries = [r \in Cached(entries) |-> entries[r]]
  /\ \A r \in Cached(entries) : entries[r] \in Entry
  /\ flushed \subseteq RRSets
  /\ expired_events \in 0 .. MaxEvents
  /\ granted \in [Records -> OptInstant]
  /\ goodbye_at \in [Records -> OptInstant]
  /\ flush_at \in [RRSets -> OptInstant]

(* Memory stays bounded whatever arrives: never more entries than          *)
(* max_entries, nor than the pool holds (Cache::bounded_insert).           *)
CacheBounded ==
  /\ Cardinality(Cached(entries)) <= MaxEntries
  /\ Cardinality(Cached(entries)) <= PoolCapacity

(* RFC 6762 section 10.1: a withdrawn record that no one re-announces      *)
(* is cached for at most one more second, however long its TTL was.        *)
GoodbyeTakesEffect ==
  \A r \in Cached(entries) :
    /\ goodbye_at[r] # None
    /\ goodbye_at[r] + OneSecond <= MaxInstant
    => entries[r].expires_at <= goodbye_at[r] + OneSecond

(* RFC 6762 section 10.2: a sibling already a second old when the rrset    *)
(* was flushed, and not seen since, dies within a second of the flush.     *)
FlushTakesEffect ==
  \A r \in Cached(entries) :
    LET f == flush_at[rrset(r)]
    IN f # None /\ f - entries[r].received_at >= OneSecond /\ f + OneSecond <= MaxInstant
       => entries[r].expires_at <= f + OneSecond

(* Nothing else shortens a cached record's life: it keeps the expiry its   *)
(* last announcement granted unless it was withdrawn since, or flushed by  *)
(* a datagram that came a second or more after it.  In particular the      *)
(* records of one flushing burst never cut each other short.               *)
CutShortOnlyWithCause ==
  \A r \in Cached(entries) :
    LET f == flush_at[rrset(r)]
    IN \/ entries[r].expires_at = granted[r]
       \/ goodbye_at[r] # None
       \/ f # None /\ f - entries[r].received_at >= OneSecond

(* A withdrawn record that is not re-announced leaves the cache: the       *)
(* goodbye's clamp is followed by a sweep.                                 *)
WithdrawnIsForgotten ==
  \A r \in Records :
    (goodbye_at[r] # None /\ goodbye_at[r] + OneSecond <= MaxInstant)
      ~> (r \notin Cached(entries) \/ goodbye_at[r] = None)

=============================================================================
