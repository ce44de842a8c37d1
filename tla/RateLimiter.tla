------------------------------- MODULE RateLimiter -------------------------------
(***************************************************************************)
(* The rate limiter of src/src/api/rate_limit.rs: one bucket per API key,  *)
(* made at the key's first request, refilled when it is next used, and     *)
(* thrown away when the map has grown and the key has been idle.           *)
(*                                                                         *)
(* A request is one step: try_acquire reads the clock and works with the   *)
(* map's lock held, and waits for nothing else.  The unit of time is the   *)
(* time in which a bucket gains one unit; the code's quotients of floats   *)
(* are taken as exact:                                                     *)
(*   Full = max_tokens * Cost,  StaleAfter = 300 s,  one minute = Full     *)
(***************************************************************************)
EXTENDS Integers, FiniteSets

CONSTANTS
    Keys,        \* the API keys
    Full,        \* units in a full bucket, gained in one window
    Cost,        \* units a request costs
    StaleAfter,  \* idle time after which a bucket may go
    EvictAbove,  \* number of buckets above which idle ones go
    MaxTime      \* bound on the time of a behaviour

ASSUME LimiterAssumption ==
    /\ Full \in Nat
    /\ Cost \in Nat \ {0}
    /\ StaleAfter \in Nat
    /\ Full <= StaleAfter       \* 60 s of refill, 300 s of idleness
    /\ EvictAbove \in Nat
    /\ MaxTime \in Nat

VARIABLES
    now,        \* the clock
    map,        \* key -> [tokens, last], for the keys remembered
    watched,    \* the observer of TokenBucket: the key whose grants it counts,
    since,      \* since when,
    spent       \* and what they have cost

watch == <<watched, since, spent>>
vars == <<now, map, watch>>

Init ==
    /\ now = 0
    /\ map = [k \in {} |-> 0]
    /\ watched \in Keys
    /\ since = 0
    /\ spent = 0

--------------------------------------------------------------------------------
(* try_acquire                                                              *)

Fresh(k) == now - map[k].last < StaleAfter

\* Mutants of Kept: nothing is evicted; the idle time of one request suffices.
KeptAll == DOMAIN map
KeptBusy == {k \in DOMAIN map : now - map[k].last < Cost}

\* The keys whose buckets survive this request's eviction.
Kept ==
    IF Cardinality(DOMAIN map) > EvictAbove THEN {k \in DOMAIN map : Fresh(k)}
    ELSE DOMAIN map

\* Mutant of Refilled: the bucket has no limit.
RefilledUncapped(k) ==
    IF k \in Kept THEN map[k].tokens + (now - map[k].last) ELSE Full

\* What a key's bucket holds at its request: a key without one gets a full one.
Refilled(k) ==
    IF k \notin Kept \/ map[k].tokens + (now - map[k].last) > Full THEN Full
    ELSE map[k].tokens + (now - map[k].last)

\* Mutant of Allowed: any positive amount will do.
AllowedLax(k) == Refilled(k) > 0

Allowed(k) == Refilled(k) >= Cost

TryAcquire(k) ==
    /\ map' = [j \in Kept \cup {k} |->
                  IF j = k THEN [tokens |-> Refilled(k) - (IF Allowed(k) THEN Cost ELSE 0),
                                 last |-> now]
                  ELSE map[j]]
    /\ spent' = IF Allowed(k) /\ k = watched THEN spent + Cost ELSE spent
    /\ UNCHANGED <<now, watched, since>>

Pass ==
    /\ now < MaxTime
    /\ now' = now + 1
    /\ UNCHANGED <<map, watch>>

Observe(k) ==
    /\ watched' = k
    /\ since' = now
    /\ spent' = 0
    /\ UNCHANGED <<now, map>>

Next == Pass \/ \E k \in Keys : TryAcquire(k) \/ Observe(k)

Spec == Init /\ [][Next]_vars

--------------------------------------------------------------------------------
(* Properties.                                                              *)

TypeOK ==
    /\ now \in 0 .. MaxTime
    /\ DOMAIN map \subseteq Keys
    /\ map \in [DOMAIN map -> [tokens : 0 .. Full, last : 0 .. now]]
    /\ watched \in Keys
    /\ since \in 0 .. now
    /\ spent \in Nat

\* What a key could spend now.
Level(k) ==
    IF k \notin DOMAIN map \/ map[k].tokens + (now - map[k].last) > Full THEN Full
    ELSE map[k].tokens + (now - map[k].last)

Bucket == INSTANCE TokenBucket WITH level <- [k \in Keys |-> Level(k)]

\* Buckets made late, refilled late and thrown away serve every key as a bucket that
\* is always there: no key gains or loses by the eviction or by another key
\* (api/rate_limit.rs:39-66).
BucketSpec == Bucket!Spec

\* Over any interval a key is granted no more than a full bucket and what the
\* interval adds (api/rate_limit.rs:13-14, 56-64).
BurstBounded == Bucket!BurstBounded

\* "Evict stale entries (idle for > 5 minutes) to prevent unbounded growth"
\* (api/rate_limit.rs:43): above the threshold every bucket kept was used within
\* StaleAfter of every other.
MapBounded ==
    Cardinality(DOMAIN map) > EvictAbove + 1 =>
        \A j, k \in DOMAIN map : map[j].last - map[k].last < StaleAfter
================================================================================
