---------------------------- MODULE CatalogCache ----------------------------
(* The cached course list: CoursesController.list behind Nest's             *)
(* CacheInterceptor, in the store the replicas share, and                   *)
(* CatalogCacheService.invalidate.  A read that misses queries the tables,  *)
(* answers, and stores its answer under its URL for TTL; what it read may   *)
(* have been replaced in the meantime, or evicted.                          *)
EXTENDS NoValue, Integers, Sequences

CONSTANTS
    Readers,       \* requests under way, of any replica
    Urls,          \* cache keys: the query strings
    TTL,           \* CATALOG_CACHE_TTL_MS, in ticks of the clock
    SlowestRead,   \* how long a request takes at most
    MaxChanges, MaxClock   \* bounds

\* env.ts refuses a TTL that is not positive.
ASSUME CacheAssumption == TTL \in Nat \ {0} /\ SlowestRead \in Nat

VARIABLES
    clock,
    changes,   \* the times at which the numbers of the list changed
    evicting,  \* a capacity edit has committed and not yet evicted
    store,     \* url -> the entry kept for it
    reads,     \* reader -> the request it is serving
    shown      \* the last answer given, and when

cacheVars == <<clock, changes, evicting, store, reads, shown>>

Idle == [url |-> None, since |-> 0, saw |-> None]
\* The numbers now: how many changes they include.
Version == Len(changes)

CacheInit ==
    /\ clock = 0 /\ changes = <<>> /\ evicting = FALSE
    /\ store = [u \in Urls |-> None]
    /\ reads = [r \in Readers |-> Idle]
    /\ shown = None

Live(u) == store[u] # None /\ clock < store[u].expires
Show(v) == shown' = [version |-> v, at |-> clock]

HitRenewing(r, u) ==
    /\ reads[r] = Idle /\ Live(u)
    /\ Show(store[u].version)
    /\ store' = [store EXCEPT ![u].expires = clock + TTL]
    /\ UNCHANGED <<clock, changes, evicting, reads>>
Hit(r, u) ==
    /\ reads[r] = Idle /\ Live(u)
    /\ Show(store[u].version)
    /\ UNCHANGED <<clock, changes, evicting, store, reads>>

Miss(r, u) ==
    /\ reads[r] = Idle /\ ~Live(u)
    /\ reads' = [reads EXCEPT ![r] = [url |-> u, since |-> clock, saw |-> None]]
    /\ UNCHANGED <<clock, changes, evicting, store, shown>>

\* listCourses runs its queries.
Query(r) ==
    /\ reads[r] # Idle /\ reads[r].saw = None
    /\ reads' = [reads EXCEPT ![r].saw = Version]
    /\ UNCHANGED <<clock, changes, evicting, store, shown>>

\* The answer goes out and is stored; a store that cannot be reached is skipped.
Answer(r) ==
    /\ reads[r].saw # None
    /\ Show(reads[r].saw)
    /\ \/ store' = [store EXCEPT ![reads[r].url] =
                       [version |-> reads[r].saw, expires |-> clock + TTL]]
       \/ UNCHANGED store
    /\ reads' = [reads EXCEPT ![r] = Idle]
    /\ UNCHANGED <<clock, changes, evicting>>

\* Enrolls, drops and promotions ride the TTL.
SeatMovement ==
    /\ Version < MaxChanges
    /\ changes' = Append(changes, clock)
    /\ UNCHANGED <<clock, evicting, store, reads, shown>>

\* SectionsService.update commits, and then evicts.
CapacityEdit ==
    /\ ~evicting /\ Version < MaxChanges
    /\ changes' = Append(changes, clock) /\ evicting' = TRUE
    /\ UNCHANGED <<clock, store, reads, shown>>

\* A clear that fails is logged and left to the TTL.
Invalidate ==
    /\ evicting /\ evicting' = FALSE
    /\ store' \in {store, [u \in Urls |-> None]}
    /\ UNCHANGED <<clock, changes, reads, shown>>

Pass ==
    /\ clock < MaxClock
    /\ \A r \in Readers : reads[r] # Idle => clock < reads[r].since + SlowestRead
    /\ clock' = clock + 1
    /\ UNCHANGED <<changes, evicting, store, reads, shown>>

CacheNext ==
    \/ \E r \in Readers : \/ \E u \in Urls : Hit(r, u) \/ Miss(r, u)
                          \/ Query(r) \/ Answer(r)
    \/ SeatMovement \/ CapacityEdit \/ Invalidate \/ Pass

CacheSpec == CacheInit /\ [][CacheNext]_cacheVars
-----------------------------------------------------------------------------
\* Staleness is bounded: an answer never shows numbers that were replaced longer
\* ago than one TTL and the time one request takes, whatever reads, evictions
\* that fail, and stores that land after an eviction come in between ("staleness
\* bounded by the TTL"; the request's own time is the part it leaves out).
StalenessBounded ==
    shown # None /\ shown.version < Version =>
       shown.at - changes[shown.version + 1] < TTL + SlowestRead
=============================================================================
