---------------------------- MODULE CacheProofs -----------------------------
(***************************************************************************)
(* TLAPS proofs about the record cache, for every set of records, every    *)
(* TTL, every cap and every pool.                                          *)
(***************************************************************************)
EXTENDS Cache, FiniteSetTheorems, TLAPS

(***************************************************************************)
(* E is an entry map: a function from finitely many records to entries.    *)
(***************************************************************************)
EntryMap(E) ==
  /\ Cached(E) \subseteq Records
  /\ E = [q \in Cached(E) |-> E[q]]
  /\ \A q \in Cached(E) : E[q] \in Entry
  /\ IsFiniteSet(Cached(E))

(***************************************************************************)
(* F holds some of E's entries, unchanged.                                 *)
(***************************************************************************)
KeepsSome(F, E) ==
  /\ Cached(F) \subseteq Cached(E)
  /\ F = [q \in Cached(F) |-> F[q]]
  /\ \A q \in Cached(F) : F[q] = E[q]

(* Eviction (the victim scan of Cache::bounded_insert) keeps the other     *)
(* entries as they are and makes room for one.                             *)
LEMMA EvictionLemma ==
  ASSUME NEW E, EntryMap(E), NEW F \in EvictSoonest(E)
  PROVE  /\ KeepsSome(F, E)
         /\ EntryMap(F)
         /\ Cardinality(Cached(F)) \in Nat
         /\ Cardinality(Cached(E)) \in Nat
         /\ Cached(E) = {} => F = E /\ Cardinality(Cached(F)) = 0
         /\ Cached(E) # {} => Cardinality(Cached(F)) = Cardinality(Cached(E)) - 1
<1>1. CASE Cached(E) = {}
  BY <1>1, FS_EmptySet DEF EvictSoonest, KeepsSome, EntryMap
<1>2. CASE Cached(E) # {}
  <2>1. PICK v \in Soonest(E) : F = Without(E, {v})
    BY <1>2 DEF EvictSoonest
  <2>2. v \in Cached(E)
    BY DEF Soonest
  <2>3. /\ Cached(F) = Cached(E) \ {v}
        /\ \A q \in Cached(F) : F[q] = E[q]
        /\ F = [q \in Cached(F) |-> F[q]]
    BY <2>1 DEF Without, Cached
  <2>4. /\ IsFiniteSet(Cached(E) \ {v})
        /\ Cardinality(Cached(E) \ {v}) = Cardinality(Cached(E)) - 1
    BY <2>2, FS_RemoveElement DEF EntryMap
  <2>5. Cardinality(Cached(F)) \in Nat /\ Cardinality(Cached(E)) \in Nat
    BY <2>3, <2>4, FS_CardinalityType DEF EntryMap
  <2> QED
    BY <1>2, <2>3, <2>4, <2>5 DEF KeepsSome, EntryMap
<1> QED
  BY <1>1, <1>2

(* Putting a record into an entry map changes that record only.            *)
LEMMA PutLemma ==
  ASSUME NEW E, EntryMap(E), NEW r \in Records, NEW e \in Entry
  PROVE  /\ EntryMap(Put(E, r, e))
         /\ Cached(Put(E, r, e)) = Cached(E) \cup {r}
         /\ \A q \in Cached(Put(E, r, e)) : Put(E, r, e)[q] = IF q = r THEN e ELSE E[q]
         /\ Cardinality(Cached(E)) \in Nat
         /\ Cardinality(Cached(Put(E, r, e))) =
              IF r \in Cached(E) THEN Cardinality(Cached(E)) ELSE Cardinality(Cached(E)) + 1
<1>1. /\ Cached(Put(E, r, e)) = Cached(E) \cup {r}
      /\ \A q \in Cached(Put(E, r, e)) : Put(E, r, e)[q] = IF q = r THEN e ELSE E[q]
      /\ Put(E, r, e) = [q \in Cached(Put(E, r, e)) |-> Put(E, r, e)[q]]
  BY DEF Put, Cached
<1>2. /\ IsFiniteSet(Cached(E) \cup {r})
      /\ Cardinality(Cached(E) \cup {r}) =
           IF r \in Cached(E) THEN Cardinality(Cached(E)) ELSE Cardinality(Cached(E)) + 1
  BY FS_AddElement DEF EntryMap
<1>3. Cardinality(Cached(E)) \in Nat
  BY FS_CardinalityType DEF EntryMap
<1> QED
  BY <1>1, <1>2, <1>3 DEF EntryMap

(* Both caps hold: max_entries and the pool's own capacity.                *)
WithinCaps(E) ==
  /\ Cardinality(Cached(E)) <= MaxEntries
  /\ Cardinality(Cached(E)) <= PoolCapacity

(* Cache::bounded_insert adds the new record at most, keeps what it does   *)
(* not evict, and respects both caps, through the proactive eviction, the  *)
(* reactive one and the refused retry alike.                               *)
LEMMA BoundedInsertLemma ==
  ASSUME NEW E, EntryMap(E), WithinCaps(E), MaxEntries # 0,
         NEW r \in Records, r \notin Cached(E), NEW e \in Entry,
         NEW F \in bounded_insert(E, r, e)
  PROVE  /\ EntryMap(F)
         /\ WithinCaps(F)
         /\ Cached(F) \subseteq Cached(E) \cup {r}
         /\ \A q \in Cached(F) : F[q] = IF q = r THEN e ELSE E[q]
<1> USE CacheAssumption
<1>1. PICK E1 \in ProactivelyEvicted(E) :
        F \in IF PoolAccepts(E1) THEN {Put(E1, r, e)}
              ELSE {IF PoolAccepts(E2) THEN Put(E2, r, e) ELSE E2 : E2 \in EvictSoonest(E1)}
  BY DEF bounded_insert
<1>2. /\ EntryMap(E1)
      /\ KeepsSome(E1, E)
      /\ Cardinality(Cached(E1)) \in Nat
      /\ Cardinality(Cached(E1)) < MaxEntries
      /\ Cardinality(Cached(E1)) <= PoolCapacity
  <2>1. Cardinality(Cached(E)) \in Nat
    BY FS_CardinalityType DEF EntryMap
  <2>2. CASE Cardinality(Cached(E)) >= MaxEntries
    <3>1. E1 \in EvictSoonest(E)
      BY <2>2 DEF ProactivelyEvicted
    <3>2. Cached(E) # {}
      BY <2>1, <2>2, FS_EmptySet
    <3> QED
      BY <2>1, <3>1, <3>2, EvictionLemma DEF WithinCaps
  <2>3. CASE ~(Cardinality(Cached(E)) >= MaxEntries)
    BY <2>1, <2>3 DEF ProactivelyEvicted, WithinCaps, KeepsSome, EntryMap
  <2> QED
    BY <2>2, <2>3
<1>3. r \notin Cached(E1)
  BY <1>2 DEF KeepsSome
<1>4. CASE PoolAccepts(E1)
  <2>1. F = Put(E1, r, e)
    BY <1>1, <1>4
  <2>2. /\ EntryMap(F)
        /\ Cached(F) = Cached(E1) \cup {r}
        /\ \A q \in Cached(F) : F[q] = IF q = r THEN e ELSE E1[q]
        /\ Cardinality(Cached(F)) = Cardinality(Cached(E1)) + 1
    BY <1>2, <1>3, <2>1, PutLemma
  <2> QED
    BY <1>2, <1>4, <2>2 DEF KeepsSome, WithinCaps, PoolAccepts
<1>5. CASE ~PoolAccepts(E1)
  <2>1. PICK E2 \in EvictSoonest(E1) : F = IF PoolAccepts(E2) THEN Put(E2, r, e) ELSE E2
    BY <1>1, <1>5
  <2>2. /\ EntryMap(E2)
        /\ KeepsSome(E2, E1)
        /\ Cardinality(Cached(E2)) \in Nat
        /\ Cardinality(Cached(E2)) <= Cardinality(Cached(E1))
    BY <1>2, EvictionLemma, FS_EmptySet
  <2>3. r \notin Cached(E2)
    BY <1>3, <2>2 DEF KeepsSome
  <2>4. CASE PoolAccepts(E2)
    <3>1. F = Put(E2, r, e)
      BY <2>1, <2>4
    <3>2. /\ EntryMap(F)
          /\ Cached(F) = Cached(E2) \cup {r}
          /\ \A q \in Cached(F) : F[q] = IF q = r THEN e ELSE E2[q]
          /\ Cardinality(Cached(F)) = Cardinality(Cached(E2)) + 1
      BY <2>2, <2>3, <3>1, PutLemma
    <3> QED
      BY <1>2, <2>2, <2>4, <3>2 DEF KeepsSome, WithinCaps, PoolAccepts
  <2>5. CASE ~PoolAccepts(E2)
    BY <1>2, <2>1, <2>2, <2>3, <2>5 DEF KeepsSome, WithinCaps
  <2> QED
    BY <2>4, <2>5
<1> QED
  BY <1>4, <1>5

(* Clamping touches expiries only, and only downwards.                     *)
LEMMA ClampLemma ==
  ASSUME NEW E, EntryMap(E), NEW which, NEW deadline \in OptInstant
  PROVE  /\ EntryMap(Clamp(E, which, deadline))
         /\ Cached(Clamp(E, which, deadline)) = Cached(E)
         /\ \A q \in Cached(E) :
              LET e == Clamp(E, which, deadline)[q]
              IN /\ e.received_at = E[q].received_at
                 /\ e.expires_at <= E[q].expires_at
                 /\ \/ e.expires_at = E[q].expires_at
                    \/ q \in which /\ deadline # None /\ e.expires_at = deadline
                 /\ q \in which /\ deadline # None => e.expires_at <= deadline
<1> DEFINE C == Clamp(E, which, deadline)
<1>1. /\ Cached(C) = Cached(E)
      /\ C = [q \in Cached(C) |-> C[q]]
      /\ \A q \in Cached(E) :
           C[q] = IF q \in which /\ deadline # None /\ E[q].expires_at > deadline
                  THEN [expires_at |-> deadline, received_at |-> E[q].received_at] ELSE E[q]
  BY DEF Clamp, Cached
<1>2. ASSUME NEW q \in Cached(E)
      PROVE  /\ C[q] \in Entry
             /\ C[q].received_at = E[q].received_at
             /\ C[q].expires_at <= E[q].expires_at
             /\ \/ C[q].expires_at = E[q].expires_at
                \/ q \in which /\ deadline # None /\ C[q].expires_at = deadline
             /\ q \in which /\ deadline # None => C[q].expires_at <= deadline
  <2>1. E[q] \in Entry
    BY DEF EntryMap
  <2> QED
    BY <1>1, <2>1, ClockAssumption DEF Entry, Instant, OptInstant
<1> QED
  BY <1>1, <1>2 DEF EntryMap

(* A checked addition of a duration stays on the clock.                    *)
LEMMA CheckedAddLemma ==
  ASSUME NEW t \in Instant, NEW d \in Nat
  PROVE  /\ checked_add(t, d) \in OptInstant
         /\ checked_add(t, d) # None => checked_add(t, d) = t + d
         /\ checked_add(t, d) = None => t + d > MaxInstant
         /\ expiry(t, d) \in Instant
BY ClockAssumption DEF checked_add, expiry, Instant, OptInstant

-----------------------------------------------------------------------------
(***************************************************************************)
(* The inductive invariant.  Beyond the types and the caps it says that    *)
(* nothing cached comes from the future, and that every cached record has  *)
(* been granted an expiry it has not outgrown.                             *)
(***************************************************************************)
Dated ==
  /\ \A r \in Cached(entries) : /\ entries[r].received_at <= now
                                /\ granted[r] # None
                                /\ granted[r] >= entries[r].received_at
  /\ \A r \in Records : goodbye_at[r] # None => goodbye_at[r] <= now
  /\ \A s \in RRSets : flush_at[s] # None => flush_at[s] <= now

CacheInv ==
  /\ TypeOK
  /\ IsFiniteSet(Cached(entries))
  /\ CacheBounded
  /\ Dated
  /\ GoodbyeTakesEffect
  /\ FlushTakesEffect
  /\ CutShortOnlyWithCause

(* The empty cache satisfies the invariant.                                *)
LEMMA InitLemma == Init => CacheInv
<1> SUFFICES ASSUME Init PROVE CacheInv
  OBVIOUS
<1> USE ClockAssumption, CacheAssumption
<1>1. Cached(entries) = {} /\ entries = [r \in Cached(entries) |-> entries[r]]
  BY DEF Init, Cached
<1>2. TypeOK
  BY <1>1 DEF Init, TypeOK, Instant, OptInstant
<1>3. IsFiniteSet(Cached(entries)) /\ CacheBounded
  BY <1>1, FS_EmptySet DEF CacheBounded
<1>4. Dated
  BY <1>1 DEF Dated, Init
<1> QED
  BY <1>1, <1>2, <1>3, <1>4
     DEF CacheInv, GoodbyeTakesEffect, FlushTakesEffect, CutShortOnlyWithCause

(* A goodbye (the ttl == 0 arm of Cache::try_insert) keeps the invariant.  *)
LEMMA GoodbyeStep ==
  ASSUME CacheInv, NEW r \in Records, TryInsertGoodbye(r)
  PROVE  CacheInv'
<1> USE ClockAssumption, CacheAssumption
<1> DEFINE d == checked_add(now, OneSecond)
<1>1. /\ EntryMap(entries) /\ WithinCaps(entries)
      /\ now \in Instant /\ OneSecond \in Nat
  BY DEF CacheInv, TypeOK, EntryMap, WithinCaps, CacheBounded
<1>2. d \in OptInstant /\ (d # None => d = now + OneSecond)
      /\ (d = None => now + OneSecond > MaxInstant)
  BY <1>1, CheckedAddLemma
<1>3. /\ EntryMap(entries')
      /\ Cached(entries') = Cached(entries)
      /\ \A q \in Cached(entries) :
           /\ entries'[q].received_at = entries[q].received_at
           /\ entries'[q].expires_at <= entries[q].expires_at
           /\ \/ entries'[q].expires_at = entries[q].expires_at
              \/ q = r
           /\ q = r /\ d # None => entries'[q].expires_at <= d
  <2>1. entries' = Clamp(entries, {r}, d)
    BY DEF TryInsertGoodbye
  <2> QED
    BY <1>1, <1>2, <2>1, ClampLemma
<1>4. \A q \in Records :
        goodbye_at'[q] = IF q \in Cached(entries)
                         THEN IF q = r THEN now ELSE goodbye_at[q] ELSE None
  BY <1>3 DEF TryInsertGoodbye, OfCached, Cached, CacheInv, TypeOK
<1>5. TypeOK'
  <2>1. goodbye_at' \in [Records -> OptInstant]
    BY <1>1, <1>4 DEF TryInsertGoodbye, OfCached, CacheInv, TypeOK, OptInstant
  <2> QED
    BY <1>3, <2>1 DEF TryInsertGoodbye, CacheInv, TypeOK, EntryMap
<1>6. IsFiniteSet(Cached(entries)') /\ CacheBounded'
  BY <1>1, <1>3 DEF EntryMap, CacheBounded, WithinCaps
<1>7. Dated'
  <2>1. \A q \in Cached(entries') : /\ entries'[q].received_at <= now
                                   /\ granted'[q] # None
                                   /\ granted'[q] >= entries'[q].received_at
    BY <1>3 DEF TryInsertGoodbye, CacheInv, Dated
  <2>2. \A q \in Records : goodbye_at'[q] # None => goodbye_at'[q] <= now
    BY <1>1, <1>4 DEF CacheInv, Dated, Instant
  <2>3. now' = now /\ flush_at' = flush_at
    BY DEF TryInsertGoodbye
  <2> QED
    BY <2>1, <2>2, <2>3 DEF CacheInv, Dated
<1>8. GoodbyeTakesEffect'
  <2> SUFFICES ASSUME NEW q \in Cached(entries'), goodbye_at'[q] # None,
                      goodbye_at'[q] + OneSecond <= MaxInstant
               PROVE  entries'[q].expires_at <= goodbye_at'[q] + OneSecond
    BY DEF GoodbyeTakesEffect
  <2>1. q \in Cached(entries) /\ q \in Records /\ entries[q] \in Entry /\ entries'[q] \in Entry
    BY <1>1, <1>3 DEF EntryMap
  <2>2. CASE q = r
    <3>1. goodbye_at'[q] = now
      BY <1>4, <2>1, <2>2
    <3>2. d # None /\ d = now + OneSecond
      BY <1>1, <1>2, <3>1 DEF Instant
    <3> QED
      BY <1>3, <2>1, <2>2, <3>1, <3>2
  <2>3. CASE q # r
    BY <1>3, <1>4, <2>1, <2>3 DEF CacheInv, GoodbyeTakesEffect
  <2> QED
    BY <2>2, <2>3
<1>9. FlushTakesEffect'
  <2> SUFFICES ASSUME NEW q \in Cached(entries'), flush_at'[rrset(q)] # None,
                      flush_at'[rrset(q)] - entries'[q].received_at >= OneSecond,
                      flush_at'[rrset(q)] + OneSecond <= MaxInstant
               PROVE  entries'[q].expires_at <= flush_at'[rrset(q)] + OneSecond
    BY DEF FlushTakesEffect
  <2>1. /\ q \in Cached(entries) /\ q \in Records /\ entries[q] \in Entry /\ entries'[q] \in Entry
        /\ flush_at' = flush_at /\ rrset(q) \in RRSets /\ flush_at[rrset(q)] \in OptInstant
    BY <1>1, <1>3 DEF EntryMap, TryInsertGoodbye, Records, rrset, CacheInv, TypeOK
  <2>2. entries[q].expires_at <= flush_at[rrset(q)] + OneSecond
    BY <1>3, <2>1 DEF CacheInv, FlushTakesEffect
  <2> QED
    BY <1>1, <1>3, <2>1, <2>2 DEF Entry, Instant, OptInstant
<1>10. CutShortOnlyWithCause'
  <2> SUFFICES ASSUME NEW q \in Cached(entries')
               PROVE  \/ entries'[q].expires_at = granted'[q]
                      \/ goodbye_at'[q] # None
                      \/ /\ flush_at'[rrset(q)] # None
                         /\ flush_at'[rrset(q)] - entries'[q].received_at >= OneSecond
    BY DEF CutShortOnlyWithCause
  <2>1. q \in Cached(entries) /\ q \in Records /\ flush_at' = flush_at /\ granted' = granted
    BY <1>1, <1>3 DEF EntryMap, TryInsertGoodbye
  <2>2. CASE q = r
    BY <1>1, <1>4, <2>1, <2>2 DEF Instant
  <2>3. CASE q # r
    BY <1>3, <1>4, <2>1, <2>3 DEF CacheInv, CutShortOnlyWithCause
  <2> QED
    BY <2>2, <2>3
<1> QED
  BY <1>5, <1>6, <1>7, <1>8, <1>9, <1>10 DEF CacheInv

(* A positive-TTL record (the flush, refresh and insert arms of            *)
(* Cache::try_insert) keeps the invariant.                                 *)
LEMMA PositiveStep ==
  ASSUME CacheInv, NEW r \in Records, NEW ttl \in Ttls, NEW cache_flush \in BOOLEAN,
         TryInsertPositive(r, ttl, cache_flush)
  PROVE  CacheInv'
<1> USE ClockAssumption, CacheAssumption
<1> DEFINE do_flush == cache_flush /\ rrset(r) \notin flushed
           d == checked_add(now, OneSecond)
           V == FlushVictims(entries, r, now)
           E == IF do_flush THEN Clamp(entries, V, d) ELSE entries
           e == [expires_at |-> expiry(now, ttl), received_at |-> now]
<1>1. /\ EntryMap(entries) /\ WithinCaps(entries)
      /\ now \in Instant /\ OneSecond \in Nat /\ ttl \in Nat
      /\ rrset(r) \in RRSets
  BY DEF CacheInv, TypeOK, EntryMap, WithinCaps, CacheBounded, Records, rrset
<1>2. /\ d \in OptInstant /\ (d # None => d = now + OneSecond)
      /\ d = None => now + OneSecond > MaxInstant
      /\ e \in Entry /\ e.expires_at = expiry(now, ttl) /\ e.received_at = now
      /\ e.expires_at >= now
  BY <1>1, CheckedAddLemma DEF Entry, expiry, Instant, checked_add
<1>3. /\ EntryMap(E) /\ WithinCaps(E)
      /\ Cached(E) = Cached(entries)
      /\ \A q \in Cached(entries) :
           /\ E[q].received_at = entries[q].received_at
           /\ E[q].expires_at <= entries[q].expires_at
           /\ \/ E[q].expires_at = entries[q].expires_at
              \/ do_flush /\ q \in V
           /\ do_flush /\ q \in V /\ d # None => E[q].expires_at <= d
  <2>1. CASE do_flush
    BY <1>1, <1>2, <2>1, ClampLemma DEF WithinCaps
  <2>2. CASE ~do_flush
    BY <1>1, <2>2 DEF EntryMap, Entry, Instant
  <2> QED
    BY <2>1, <2>2
<1>4. /\ EntryMap(entries') /\ WithinCaps(entries')
      /\ Cached(entries') \subseteq Cached(entries) \cup {r}
      /\ \A q \in Cached(entries') : entries'[q] = IF q = r THEN e ELSE E[q]
  <2>1. entries' \in IF r \in Cached(E) THEN {Put(E, r, e)} ELSE bounded_insert(E, r, e)
    BY DEF TryInsertPositive
  <2>2. CASE r \in Cached(E)
    <3>1. entries' = Put(E, r, e)
      BY <2>1, <2>2
    <3> QED
      BY <1>2, <1>3, <2>2, <3>1, PutLemma DEF WithinCaps
  <2>3. CASE r \notin Cached(E)
    <3>1. entries' \in bounded_insert(E, r, e) /\ MaxEntries # 0
      BY <2>1, <2>3 DEF TryInsertPositive
    <3> QED
      BY <1>2, <1>3, <2>3, <3>1, BoundedInsertLemma
  <2> QED
    BY <2>2, <2>3
<1>5. /\ \A q \in Cached(entries') :
           /\ q \in Records /\ rrset(q) \in RRSets /\ entries'[q] \in Entry
           /\ q # r => q \in Cached(entries) /\ entries[q] \in Entry
           /\ granted'[q] = IF q = r THEN e.expires_at ELSE granted[q]
           /\ goodbye_at'[q] = IF q = r THEN None ELSE goodbye_at[q]
           /\ flush_at'[rrset(q)] = IF do_flush /\ rrset(q) = rrset(r)
                                    THEN now ELSE flush_at[rrset(q)]
           /\ flush_at[rrset(q)] \in OptInstant
      /\ \A q \in Records \ Cached(entries') : goodbye_at'[q] = None
      /\ \A s \in RRSets : flush_at'[s] \in {None, now, flush_at[s]}
      /\ now' = now
  <2>1. /\ granted' = OfCached([granted EXCEPT ![r] = e.expires_at], entries')
        /\ goodbye_at' = OfCached([goodbye_at EXCEPT ![r] = None], entries')
        /\ flush_at' = OfCachedSets(IF do_flush THEN [flush_at EXCEPT ![rrset(r)] = now]
                                    ELSE flush_at, entries')
        /\ now' = now
    BY <1>2 DEF TryInsertPositive
  <2>2. /\ granted \in [Records -> OptInstant]
        /\ goodbye_at \in [Records -> OptInstant]
        /\ flush_at \in [RRSets -> OptInstant]
    BY DEF CacheInv, TypeOK
  <2>3. \A q \in Cached(entries') :
           /\ q \in Records /\ rrset(q) \in RRSets /\ entries'[q] \in Entry
           /\ q # r => q \in Cached(entries) /\ entries[q] \in Entry
    BY <1>1, <1>4 DEF EntryMap, Records, rrset
  <2>4. \A q \in Cached(entries') :
           /\ granted'[q] = IF q = r THEN e.expires_at ELSE granted[q]
           /\ goodbye_at'[q] = IF q = r THEN None ELSE goodbye_at[q]
    BY <2>1, <2>2, <2>3 DEF OfCached, Cached
  <2>5. \A q \in Records \ Cached(entries') : goodbye_at'[q] = None
    BY <2>1 DEF OfCached, Cached
  <2>6. \A q \in Cached(entries') :
           flush_at'[rrset(q)] = IF do_flush /\ rrset(q) = rrset(r)
                                 THEN now ELSE flush_at[rrset(q)]
    BY <1>1, <2>1, <2>2, <2>3 DEF OfCachedSets, Cached
  <2>7. \A s \in RRSets : flush_at'[s] \in {None, now, flush_at[s]}
    BY <1>1, <2>1, <2>2 DEF OfCachedSets
  <2> QED
    BY <2>1, <2>2, <2>3, <2>4, <2>5, <2>6, <2>7
<1>6. TypeOK'
  <2>1. granted' \in [Records -> OptInstant]
    BY <1>1, <1>2 DEF TryInsertPositive, OfCached, CacheInv, TypeOK, OptInstant, Entry
  <2>2. goodbye_at' \in [Records -> OptInstant]
    BY <1>1 DEF TryInsertPositive, OfCached, CacheInv, TypeOK, OptInstant
  <2>3. flush_at' \in [RRSets -> OptInstant]
    BY <1>1 DEF TryInsertPositive, OfCachedSets, CacheInv, TypeOK, OptInstant
  <2>4. flushed' \subseteq RRSets /\ expired_events' = expired_events /\ now' = now
    BY <1>1 DEF TryInsertPositive, CacheInv, TypeOK
  <2> QED
    BY <1>4, <2>1, <2>2, <2>3, <2>4 DEF CacheInv, TypeOK, EntryMap
<1>7. IsFiniteSet(Cached(entries)') /\ CacheBounded'
  BY <1>4 DEF EntryMap, CacheBounded, WithinCaps
<1>8. Dated'
  <2>1. \A q \in Cached(entries') : /\ entries'[q].received_at <= now
                                   /\ granted'[q] # None
                                   /\ granted'[q] >= entries'[q].received_at
    <3> SUFFICES ASSUME NEW q \in Cached(entries')
                 PROVE  /\ entries'[q].received_at <= now
                        /\ granted'[q] # None
                        /\ granted'[q] >= entries'[q].received_at
      OBVIOUS
    <3>1. CASE q = r
      BY <1>1, <1>2, <1>4, <1>5, <3>1 DEF Entry, Instant
    <3>2. CASE q # r
      BY <1>3, <1>4, <1>5, <3>2 DEF CacheInv, Dated
    <3> QED
      BY <3>1, <3>2
  <2>2. \A q \in Records : goodbye_at'[q] # None => goodbye_at'[q] <= now
    BY <1>4, <1>5 DEF CacheInv, Dated
  <2>3. \A s \in RRSets : flush_at'[s] # None => flush_at'[s] <= now
    BY <1>1, <1>5 DEF CacheInv, Dated, Instant
  <2> QED
    BY <1>5, <2>1, <2>2, <2>3 DEF Dated
<1>9. GoodbyeTakesEffect'
  <2> SUFFICES ASSUME NEW q \in Cached(entries'), goodbye_at'[q] # None,
                      goodbye_at'[q] + OneSecond <= MaxInstant
               PROVE  entries'[q].expires_at <= goodbye_at'[q] + OneSecond
    BY DEF GoodbyeTakesEffect
  <2>1. q # r /\ goodbye_at'[q] = goodbye_at[q] /\ q \in Cached(entries)
    BY <1>5
  <2>2. entries[q].expires_at <= goodbye_at[q] + OneSecond
    BY <2>1 DEF CacheInv, GoodbyeTakesEffect
  <2>3. entries'[q].expires_at <= entries[q].expires_at
    BY <1>3, <1>4, <2>1
  <2>4. /\ entries[q].expires_at \in Int /\ entries'[q].expires_at \in Int
        /\ goodbye_at[q] \in Int
    BY <1>5, <2>1 DEF Entry, Instant, CacheInv, TypeOK, OptInstant
  <2> QED
    BY <1>1, <2>1, <2>2, <2>3, <2>4
<1>10. FlushTakesEffect'
  <2> SUFFICES ASSUME NEW q \in Cached(entries'), flush_at'[rrset(q)] # None,
                      flush_at'[rrset(q)] - entries'[q].received_at >= OneSecond,
                      flush_at'[rrset(q)] + OneSecond <= MaxInstant
               PROVE  entries'[q].expires_at <= flush_at'[rrset(q)] + OneSecond
    BY DEF FlushTakesEffect
  <2>1. q # r
    <3>1. flush_at'[rrset(q)] <= now
      BY <1>5, <1>8 DEF Dated
    <3>2. flush_at'[rrset(q)] \in Int
      BY <1>5, <1>6 DEF TypeOK, OptInstant, Instant
    <3> QED
      BY <1>1, <1>2, <1>4, <3>1, <3>2 DEF Instant
  <2>2. /\ entries'[q] = E[q] /\ q \in Cached(entries)
        /\ entries[q] \in Entry /\ entries'[q] \in Entry
        /\ entries'[q].received_at = entries[q].received_at
        /\ entries'[q].expires_at <= entries[q].expires_at
    BY <1>3, <1>4, <1>5, <2>1
  <2>3. CASE do_flush /\ rrset(q) = rrset(r)
    <3>1. flush_at'[rrset(q)] = now
      BY <1>5, <2>3
    <3>2. q \in V
      BY <2>1, <2>2, <2>3, <3>1 DEF FlushVictims
    <3>3. d # None
      BY <1>1, <1>2, <3>1 DEF Instant
    <3> QED
      BY <1>2, <1>3, <2>2, <2>3, <3>1, <3>2, <3>3
  <2>4. CASE ~(do_flush /\ rrset(q) = rrset(r))
    <3>1. flush_at'[rrset(q)] = flush_at[rrset(q)]
      BY <1>5, <2>4
    <3>2. entries[q].expires_at <= flush_at[rrset(q)] + OneSecond
      BY <2>2, <3>1 DEF CacheInv, FlushTakesEffect
    <3>3. flush_at[rrset(q)] \in Int
      BY <1>5, <3>1 DEF OptInstant, Instant
    <3> QED
      BY <1>1, <2>2, <3>1, <3>2, <3>3 DEF Entry, Instant
  <2> QED
    BY <2>3, <2>4
<1>11. CutShortOnlyWithCause'
  <2> SUFFICES ASSUME NEW q \in Cached(entries')
               PROVE  \/ entries'[q].expires_at = granted'[q]
                      \/ goodbye_at'[q] # None
                      \/ /\ flush_at'[rrset(q)] # None
                         /\ flush_at'[rrset(q)] - entries'[q].received_at >= OneSecond
    BY DEF CutShortOnlyWithCause
  <2>1. CASE q = r
    BY <1>4, <1>5, <2>1
  <2>2. CASE q # r /\ do_flush /\ q \in V
    <3>1. flush_at'[rrset(q)] = now /\ entries'[q].received_at = entries[q].received_at
      BY <1>3, <1>4, <1>5, <2>2 DEF FlushVictims
    <3>2. now - entries[q].received_at >= OneSecond
      BY <2>2 DEF FlushVictims
    <3> QED
      BY <1>1, <3>1, <3>2 DEF Instant
  <2>3. CASE q # r /\ ~(do_flush /\ q \in V)
    <3>1. /\ entries'[q].expires_at = entries[q].expires_at
          /\ entries'[q].received_at = entries[q].received_at
          /\ q \in Cached(entries) /\ entries[q] \in Entry
          /\ granted'[q] = granted[q] /\ goodbye_at'[q] = goodbye_at[q]
      BY <1>3, <1>4, <1>5, <2>3
    <3>2. CASE do_flush /\ rrset(q) = rrset(r)
      \* reached by the flush but too young for it: whatever cut it short before
      \* came with an earlier flush, and that one is not later than this
      <4>1. flush_at'[rrset(q)] = now
        BY <1>5, <3>2
      <4>2. flush_at[rrset(q)] # None => flush_at[rrset(q)] <= now /\ flush_at[rrset(q)] \in Int
        BY <1>5 DEF CacheInv, Dated, OptInstant, Instant
      <4> QED
        BY <1>1, <3>1, <4>1, <4>2 DEF CacheInv, CutShortOnlyWithCause, Entry, Instant
    <3>3. CASE ~(do_flush /\ rrset(q) = rrset(r))
      <4>1. flush_at'[rrset(q)] = flush_at[rrset(q)]
        BY <1>5, <3>3
      <4> QED
        BY <3>1, <4>1 DEF CacheInv, CutShortOnlyWithCause
    <3> QED
      BY <3>2, <3>3
  <2> QED
    BY <2>1, <2>2, <2>3
<1> QED
  BY <1>6, <1>7, <1>8, <1>9, <1>10, <1>11 DEF CacheInv

(* A sweep (Cache::sweep_expired) keeps the invariant.                     *)
LEMMA SweepStep ==
  ASSUME CacheInv, HandleTimeout
  PROVE  CacheInv'
<1> USE ClockAssumption, CacheAssumption
<1>1. /\ Cached(entries') \subseteq Cached(entries)
      /\ entries' = [q \in Cached(entries') |-> entries'[q]]
      /\ \A q \in Cached(entries') : entries'[q] = entries[q]
  BY DEF HandleTimeout, Without, Cached
<1>2. /\ IsFiniteSet(Cached(entries'))
      /\ Cardinality(Cached(entries')) <= Cardinality(Cached(entries))
      /\ Cardinality(Cached(entries')) \in Nat /\ Cardinality(Cached(entries)) \in Nat
  <2>1. IsFiniteSet(Cached(entries))
    BY DEF CacheInv
  <2> QED
    BY <1>1, <2>1, FS_Subset, FS_CardinalityType
<1>3. /\ \A q \in Cached(entries') : /\ granted'[q] = granted[q]
                                     /\ goodbye_at'[q] = goodbye_at[q]
                                     /\ flush_at'[rrset(q)] = flush_at[rrset(q)]
      /\ \A q \in Records : goodbye_at'[q] \in {None, goodbye_at[q]}
      /\ \A s \in RRSets : flush_at'[s] \in {None, flush_at[s]}
      /\ now' = now
  <2>1. \A q \in Cached(entries') : q \in Records /\ rrset(q) \in RRSets
    BY <1>1 DEF CacheInv, TypeOK, Records, rrset
  <2> QED
    BY <2>1 DEF HandleTimeout, OfCached, OfCachedSets, Cached
<1>4. TypeOK'
  <2>1. granted' \in [Records -> OptInstant] /\ goodbye_at' \in [Records -> OptInstant]
    BY DEF HandleTimeout, OfCached, CacheInv, TypeOK, OptInstant
  <2>2. flush_at' \in [RRSets -> OptInstant]
    BY DEF HandleTimeout, OfCachedSets, CacheInv, TypeOK, OptInstant
  <2>3. flushed' \subseteq RRSets /\ expired_events' \in 0 .. MaxEvents /\ now' = now
    BY DEF HandleTimeout, CacheInv, TypeOK
  <2> QED
    BY <1>1, <2>1, <2>2, <2>3 DEF CacheInv, TypeOK
<1>5. CacheBounded'
  BY <1>2 DEF CacheInv, CacheBounded
<1>6. Dated'
  BY <1>1, <1>3 DEF CacheInv, Dated
<1>7. GoodbyeTakesEffect' /\ FlushTakesEffect' /\ CutShortOnlyWithCause'
  BY <1>1, <1>3 DEF CacheInv, GoodbyeTakesEffect, FlushTakesEffect, CutShortOnlyWithCause
<1> QED
  BY <1>2, <1>4, <1>5, <1>6, <1>7 DEF CacheInv

(* The steps that leave the entries alone keep the invariant.              *)
LEMMA OtherSteps ==
  ASSUME CacheInv, NextDatagram \/ Poll \/ Tick \/ UNCHANGED vars
  PROVE  CacheInv'
<1> USE ClockAssumption, CacheAssumption
<1>1. /\ entries' = entries /\ granted' = granted
      /\ goodbye_at' = goodbye_at /\ flush_at' = flush_at
  BY DEF NextDatagram, Poll, Tick, vars
<1>2. now' \in Instant /\ now' >= now /\ now \in Instant
  BY DEF NextDatagram, Poll, Tick, vars, CacheInv, TypeOK, Instant
<1>3. flushed' \subseteq RRSets /\ expired_events' \in 0 .. MaxEvents
  BY DEF NextDatagram, Poll, Tick, vars, CacheInv, TypeOK
<1>4. TypeOK'
  BY <1>1, <1>2, <1>3 DEF CacheInv, TypeOK
<1>5. Dated'
  <2>1. \A q \in Cached(entries) : entries[q].received_at \in Int
    BY DEF CacheInv, TypeOK, Entry, Instant
  <2>2. /\ \A q \in Records : goodbye_at[q] \in OptInstant
        /\ \A s \in RRSets : flush_at[s] \in OptInstant
    BY DEF CacheInv, TypeOK
  <2> QED
    BY <1>1, <1>2, <2>1, <2>2 DEF CacheInv, Dated, Instant, OptInstant
<1> QED
  BY <1>1, <1>4, <1>5
     DEF CacheInv, CacheBounded, GoodbyeTakesEffect, FlushTakesEffect, CutShortOnlyWithCause

(* The invariant holds in every reachable state of the cache.              *)
THEOREM CacheInvariant == Spec => []CacheInv
<1>1. Init => CacheInv
  BY InitLemma
<1>2. CacheInv /\ [Next]_vars => CacheInv'
  <2> SUFFICES ASSUME CacheInv, [Next]_vars PROVE CacheInv'
    OBVIOUS
  <2>1. ASSUME NEW r \in Records, TryInsertGoodbye(r) PROVE CacheInv'
    BY <2>1, GoodbyeStep
  <2>2. ASSUME NEW r \in Records, NEW ttl \in Ttls, NEW cache_flush \in BOOLEAN,
               TryInsertPositive(r, ttl, cache_flush)
        PROVE  CacheInv'
    BY <2>2, PositiveStep
  <2>3. CASE HandleTimeout
    BY <2>3, SweepStep
  <2>4. CASE NextDatagram \/ Poll \/ Tick \/ UNCHANGED vars
    BY <2>4, OtherSteps
  <2> QED
    BY <2>1, <2>2, <2>3, <2>4 DEF Next
<1> QED
  BY <1>1, <1>2, PTL DEF Spec

(* Endpoint memory is bounded: Cache::bounded_insert never lets the cache  *)
(* outgrow max_entries or its pool, whatever the link carries.             *)
THEOREM CacheIsBounded == Spec => []CacheBounded
<1>1. CacheInv => CacheBounded
  BY DEF CacheInv
<1> QED
  BY <1>1, CacheInvariant, PTL

(* RFC 6762 section 10.1 as Cache::try_insert's goodbye branch implements  *)
(* it: a withdrawn record dies within the grace second, for every TTL.     *)
THEOREM GoodbyesAreHonoured == Spec => []GoodbyeTakesEffect
<1>1. CacheInv => GoodbyeTakesEffect
  BY DEF CacheInv
<1> QED
  BY <1>1, CacheInvariant, PTL

(* RFC 6762 section 10.2 as Cache::try_insert's flush implements it: a     *)
(* stale sibling of a flushing record dies within the grace second.        *)
THEOREM FlushesAreHonoured == Spec => []FlushTakesEffect
<1>1. CacheInv => FlushTakesEffect
  BY DEF CacheInv
<1> QED
  BY <1>1, CacheInvariant, PTL

(* Nothing but a goodbye or a flush shortens a cached record's life, for   *)
(* every TTL, clock, cap and pool.                                         *)
THEOREM ExpiryIsHonest == Spec => []CutShortOnlyWithCause
<1>1. CacheInv => CutShortOnlyWithCause
  BY DEF CacheInv
<1> QED
  BY <1>1, CacheInvariant, PTL

=============================================================================
