--------------------------- MODULE RateLimiterProofs ---------------------------
(***************************************************************************)
(* Proofs about RateLimiter, for any keys, rates and bounds: types, the    *)
(* bound on bursts, that the limiter implements TokenBucket, and how far   *)
(* eviction bounds the map.                                                *)
(*                                                                         *)
(* The first three rest on one fact: a bucket is idle for StaleAfter >=    *)
(* Full when it is evicted, and would be full by then, as a new one is.    *)
(***************************************************************************)
EXTENDS RateLimiter, TLAPS, FiniteSetTheorems

\* What the watched key has spent and what it could spend now are paid for by
\* one full bucket and the time since the watch began.
Paid == spent + Level(watched) <= Full + (now - since)

IInv == TypeOK /\ Paid

USE LimiterAssumption

\* What a key could spend is never more than a full bucket.
LEMMA LevelTyped ==
  ASSUME TypeOK, NEW k \in Keys
  PROVE  Level(k) \in 0 .. Full
  <1>1. CASE k \notin DOMAIN map
    BY <1>1 DEF Level
  <1>2. CASE k \in DOMAIN map
    <2>1. map[k].tokens \in 0 .. Full /\ map[k].last \in 0 .. now /\ now \in Nat
      BY <1>2 DEF TypeOK
    <2> QED BY <2>1, <1>2 DEF Level
  <1> QED BY <1>1, <1>2

\* A request finds in its bucket just what the key could spend: eviction makes
\* no difference.
LEMMA RefilledIsLevel ==
  ASSUME TypeOK, NEW k \in Keys
  PROVE  Refilled(k) = Level(k)
  <1>1. CASE k \notin DOMAIN map
    BY <1>1 DEF Refilled, Level, Kept
  <1>2. CASE k \in DOMAIN map
    <2>1. map[k].tokens \in 0 .. Full /\ map[k].last \in 0 .. now /\ now \in Nat
      BY <1>2 DEF TypeOK
    <2>2. CASE k \in Kept
      BY <1>2, <2>2 DEF Refilled, Level
    <2>3. CASE k \notin Kept
      <3>1. ~(now - map[k].last < StaleAfter)
        BY <1>2, <2>3 DEF Kept, Fresh
      <3>2. Level(k) = Full
        BY <1>2, <2>1, <3>1 DEF Level
      <3> QED BY <2>3, <3>2 DEF Refilled
    <2> QED BY <2>2, <2>3
  <1> QED BY <1>1, <1>2

\* What a key that did not ask could spend is the same after the request.
LEMMA OthersKeepLevel ==
  ASSUME TypeOK, NEW k \in Keys, TryAcquire(k), NEW j \in Keys, j # k
  PROVE  Level(j)' = Level(j)
  <1>1. now' = now
    BY DEF TryAcquire
  <1>2. DOMAIN map' = Kept \cup {k}
    BY DEF TryAcquire
  <1>3. CASE j \in Kept
    <2>1. map'[j] = map[j] /\ j \in DOMAIN map /\ j \in DOMAIN map'
      BY <1>3, <1>2 DEF TryAcquire, Kept
    <2> QED BY <1>1, <2>1 DEF Level
  <1>4. CASE j \notin Kept
    <2>1. Level(j)' = Full
      BY <1>2, <1>4 DEF Level
    <2>2. Refilled(j) = Full
      BY <1>4 DEF Refilled
    <2> QED BY <2>1, <2>2, RefilledIsLevel
  <1> QED BY <1>3, <1>4

\* What the asking key could spend falls by the cost of a granted request.
LEMMA AskerPays ==
  ASSUME TypeOK, NEW k \in Keys, TryAcquire(k)
  PROVE  /\ Allowed(k) <=> Level(k) >= Cost
         /\ Level(k)' = Level(k) - (IF Allowed(k) THEN Cost ELSE 0)
  <1>1. Refilled(k) = Level(k) /\ Level(k) \in 0 .. Full
    BY RefilledIsLevel, LevelTyped
  <1>2. Allowed(k) <=> Level(k) >= Cost
    BY <1>1 DEF Allowed
  <1>3. /\ now' = now /\ now \in Nat
        /\ k \in DOMAIN map'
        /\ map'[k].last = now
        /\ map'[k].tokens = Level(k) - (IF Allowed(k) THEN Cost ELSE 0)
    BY <1>1 DEF TryAcquire, TypeOK
  <1>4. Level(k) - (IF Allowed(k) THEN Cost ELSE 0) \in 0 .. Full
    BY <1>1, <1>2
  <1>5. Level(k)' = map'[k].tokens
    BY <1>3, <1>4 DEF Level
  <1> QED BY <1>2, <1>3, <1>5

\* With time every key's bucket gains one unit, up to a full one.
LEMMA TimeFills ==
  ASSUME TypeOK, Pass, NEW k \in Keys
  PROVE  Level(k)' = IF Level(k) + 1 < Full THEN Level(k) + 1 ELSE Full
  <1>1. now' = now + 1 /\ map' = map /\ now \in Nat
    BY DEF Pass, TypeOK
  <1>2. CASE k \notin DOMAIN map
    BY <1>1, <1>2 DEF Level
  <1>3. CASE k \in DOMAIN map
    <2>1. map[k].tokens \in 0 .. Full /\ map[k].last \in 0 .. now
      BY <1>3 DEF TypeOK
    <2> QED BY <1>1, <1>3, <2>1 DEF Level
  <1> QED BY <1>2, <1>3

--------------------------------------------------------------------------------

\* At the start no key has a bucket and nothing is spent.
THEOREM InitIInv == Init => IInv
  <1> SUFFICES ASSUME Init PROVE IInv
    OBVIOUS
  <1>1. DOMAIN map = {} /\ map \in [DOMAIN map -> [tokens : 0 .. Full, last : 0 .. now]]
    BY DEF Init
  <1>2. TypeOK
    BY <1>1 DEF Init, TypeOK
  <1>3. Level(watched) = Full
    BY <1>1 DEF Level
  <1> QED BY <1>2, <1>3 DEF IInv, Paid, Init

\* A request leaves its key a bucket that is not overdrawn.
LEMMA AcquireTypeOK ==
  ASSUME TypeOK, NEW k \in Keys, TryAcquire(k)
  PROVE  TypeOK'
  <1>1. Kept \subseteq DOMAIN map /\ DOMAIN map \subseteq Keys
    BY DEF Kept, TypeOK
  <1>2. DOMAIN map' = Kept \cup {k} /\ now' = now /\ now \in 0 .. MaxTime
    BY DEF TryAcquire, TypeOK
  <1>3. Refilled(k) - (IF Allowed(k) THEN Cost ELSE 0) \in 0 .. Full
    BY RefilledIsLevel, LevelTyped DEF Allowed
  <1>4. ASSUME NEW j \in Kept \cup {k}
        PROVE  map'[j] \in [tokens : 0 .. Full, last : 0 .. now]
    <2>1. CASE j = k
      BY <1>2, <1>3, <2>1 DEF TryAcquire
    <2>2. CASE j # k
      <3>1. j \in DOMAIN map /\ map'[j] = map[j]
        BY <1>1, <1>4, <2>2 DEF TryAcquire
      <3> QED BY <3>1 DEF TypeOK
    <2> QED BY <2>1, <2>2
  <1>5. map' \in [DOMAIN map' -> [tokens : 0 .. Full, last : 0 .. now']]
    BY <1>2, <1>4 DEF TryAcquire
  <1>6. spent' \in Nat /\ watched' \in Keys /\ since' \in 0 .. now'
    BY <1>2 DEF TryAcquire, TypeOK
  <1> QED BY <1>1, <1>2, <1>5, <1>6 DEF TypeOK

\* What the watched key is granted leaves its bucket.
LEMMA AcquirePaid ==
  ASSUME IInv, NEW k \in Keys, TryAcquire(k)
  PROVE  Paid'
  <1> USE DEF IInv
  <1>1. watched' = watched /\ since' = since /\ now' = now /\ watched \in Keys
    BY DEF TryAcquire, TypeOK
  <1>2. Level(watched) \in 0 .. Full /\ spent \in Nat /\ since \in 0 .. now /\ now \in Nat
    BY <1>1, LevelTyped DEF TypeOK
  <1>4. CASE k = watched
    <2>1. Level(k)' = Level(k) - (IF Allowed(k) THEN Cost ELSE 0)
      BY AskerPays
    <2>2. spent' = spent + (IF Allowed(k) THEN Cost ELSE 0)
      BY <1>2, <1>4 DEF TryAcquire
    <2> QED BY <1>1, <1>2, <1>4, <2>1, <2>2 DEF Paid
  <1>5. CASE k # watched
    <2>1. spent' = spent
      BY <1>5 DEF TryAcquire
    <2>2. \A j \in Keys : j # k => Level(j)' = Level(j)
      BY OthersKeepLevel
    <2> QED BY <1>1, <1>2, <1>5, <2>1, <2>2 DEF Paid
  <1> QED BY <1>4, <1>5

\* Time, requests and the observer keep the account.
THEOREM NextIInv == IInv /\ [Next]_vars => IInv'
  <1> SUFFICES ASSUME IInv, [Next]_vars PROVE IInv'
    OBVIOUS
  <1> USE DEF IInv
  <1>0. /\ now \in Nat /\ now \in 0 .. MaxTime
        /\ spent \in Nat /\ since \in 0 .. now /\ watched \in Keys
        /\ Level(watched) \in 0 .. Full
    BY LevelTyped DEF TypeOK
  <1>1. CASE Pass
    <2>1. TypeOK'
      <3>1. now' = now + 1 /\ map' = map /\ watch' = watch /\ now' \in 0 .. MaxTime
        BY <1>0, <1>1 DEF Pass
      <3>2. 0 .. now \subseteq 0 .. now'
        BY <1>0, <3>1
      <3>3. map' \in [DOMAIN map' -> [tokens : 0 .. Full, last : 0 .. now']]
        BY <3>1, <3>2 DEF TypeOK
      <3> QED BY <3>1, <3>2, <3>3 DEF TypeOK, watch
    <2>2. Paid'
      <3>1. \A k \in Keys :
                Level(k)' = IF Level(k) + 1 < Full THEN Level(k) + 1 ELSE Full
        BY <1>1, TimeFills
      <3>2. now' = now + 1 /\ watched' = watched /\ since' = since /\ spent' = spent
        BY <1>1 DEF Pass, watch
      <3> QED BY <1>0, <3>1, <3>2 DEF Paid
    <2> QED BY <2>1, <2>2
  <1>2. ASSUME NEW k \in Keys, TryAcquire(k) PROVE IInv'
    BY <1>2, AcquireTypeOK, AcquirePaid
  <1>3. ASSUME NEW k \in Keys, Observe(k) PROVE IInv'
    <2>1. now' = now /\ map' = map /\ watched' = k /\ since' = now /\ spent' = 0
      BY <1>3 DEF Observe
    <2>2. TypeOK'
      BY <1>0, <2>1 DEF TypeOK
    <2>3. Level(k) \in 0 .. Full
      BY LevelTyped
    <2>4. Level(watched)' = Level(k)
      BY <2>1 DEF Level
    <2> QED BY <1>0, <2>1, <2>2, <2>3, <2>4 DEF Paid
  <1>4. CASE UNCHANGED vars
    BY <1>4 DEF vars, watch, TypeOK, Paid, Level
  <1> QED BY <1>1, <1>2, <1>3, <1>4 DEF Next

\* The types of the limiter's state, and with them that no bucket is overdrawn or
\* holds more than a full one (api/rate_limit.rs:56-66).
THEOREM TypeCorrect == Spec => []TypeOK
  <1>1. IInv => TypeOK
    BY DEF IInv
  <1> QED BY InitIInv, NextIInv, <1>1, PTL DEF Spec

\* No key ever gets more than a full bucket and what the time adds, over any
\* interval, whatever the limiter forgot in between (api/rate_limit.rs:39-66).
THEOREM BurstsBounded == Spec => []BurstBounded
  <1>1. IInv => BurstBounded
    <2> SUFFICES ASSUME IInv PROVE spent <= Full + (now - since)
      BY DEF BurstBounded, Bucket!BurstBounded
    <2>1. /\ Level(watched) \in 0 .. Full /\ spent \in Nat
          /\ now \in Nat /\ since \in 0 .. now
      BY LevelTyped DEF IInv, TypeOK
    <2> QED BY <2>1 DEF IInv, Paid
  <1> QED BY InitIInv, NextIInv, <1>1, PTL DEF Spec

--------------------------------------------------------------------------------
(* Refinement.                                                              *)

\* At the start every bucket is full.
LEMMA InitRefines == Init => Bucket!Init
  <1> SUFFICES ASSUME Init PROVE Bucket!Init
    OBVIOUS
  <1>1. \A k \in Keys : Level(k) = Full
    BY DEF Init, Level
  <1> QED BY <1>1 DEF Init, Bucket!Init

\* A step is one of TokenBucket's.
LEMMA NextRefines == IInv /\ [Next]_vars => [Bucket!Next]_Bucket!vars
  <1> SUFFICES ASSUME IInv, [Next]_vars PROVE [Bucket!Next]_Bucket!vars
    OBVIOUS
  <1> USE DEF IInv
  <1> DEFINE level == [k \in Keys |-> Level(k)]
  <1>1. CASE Pass
    <2>1. \A k \in Keys : Level(k)' = Bucket!Capped(Level(k) + 1)
      BY <1>1, TimeFills DEF Bucket!Capped
    <2>2. level' = [k \in Keys |-> Bucket!Capped(level[k] + 1)]
      BY <2>1
    <2>3. Bucket!Pass
      BY <1>1, <2>2 DEF Pass, watch, Bucket!Pass, Bucket!watch
    <2> QED BY <2>3 DEF Bucket!Next
  <1>2. ASSUME NEW k \in Keys, TryAcquire(k) PROVE [Bucket!Next]_Bucket!vars
    <2>1. /\ Allowed(k) <=> Level(k) >= Cost
          /\ Level(k)' = Level(k) - (IF Allowed(k) THEN Cost ELSE 0)
      BY <1>2, AskerPays
    <2>2. \A j \in Keys : j # k => Level(j)' = Level(j)
      BY <1>2, OthersKeepLevel
    <2>3. CASE Allowed(k)
      <3>1. level' = [level EXCEPT ![k] = @ - Cost]
        BY <2>1, <2>2, <2>3
      <3>2. /\ spent' = IF k = watched THEN spent + Cost ELSE spent
            /\ now' = now /\ watched' = watched /\ since' = since
        BY <1>2, <2>3 DEF TryAcquire
      <3>3. Bucket!Grant(k)
        BY <2>1, <2>3, <3>1, <3>2 DEF Bucket!Grant
      <3> QED BY <3>3 DEF Bucket!Next
    <2>4. CASE ~Allowed(k)
      <3>1. Level(k) \in Int
        BY LevelTyped
      <3>2. level' = level
        BY <2>1, <2>2, <2>4, <3>1
      <3>3. now' = now /\ watched' = watched /\ since' = since /\ spent' = spent
        BY <1>2, <2>4 DEF TryAcquire
      <3> QED BY <3>2, <3>3 DEF Bucket!vars, Bucket!watch
    <2> QED BY <2>3, <2>4
  <1>3. ASSUME NEW k \in Keys, Observe(k) PROVE Bucket!Next
    <2>1. level' = level
      BY <1>3 DEF Observe, Level
    <2>2. Bucket!Observe(k)
      BY <1>3, <2>1 DEF Observe, Bucket!Observe
    <2> QED BY <2>2 DEF Bucket!Next
  <1>4. CASE UNCHANGED vars
    <2>1. level' = level
      BY <1>4 DEF vars, Level
    <2> QED BY <1>4, <2>1 DEF vars, watch, Bucket!vars, Bucket!watch
  <1> QED BY <1>1, <1>2, <1>3, <1>4 DEF Next

\* Eviction and late refilling are invisible: every key is served as by a bucket of
\* its own that is always there (api/rate_limit.rs:43-64).
THEOREM ImplementsBucket == Spec => BucketSpec
  BY InitIInv, NextIInv, InitRefines, NextRefines, PTL DEF Spec, BucketSpec, Bucket!Spec

--------------------------------------------------------------------------------
(* The map.                                                                 *)

\* Only keys that asked have a bucket.
MapInv == IsFiniteSet(DOMAIN map) /\ MapBounded

\* A request adds at most one key to those it keeps.
LEMMA AcquireMap ==
  ASSUME TypeOK, MapInv, NEW k \in Keys, TryAcquire(k)
  PROVE  MapInv'
  <1>1. /\ DOMAIN map' = Kept \cup {k} /\ Kept \subseteq DOMAIN map
        /\ map'[k].last = now /\ now \in Nat
        /\ \A j \in Kept \ {k} : map'[j] = map[j]
    BY DEF TryAcquire, Kept, TypeOK
  <1>2. IsFiniteSet(DOMAIN map) /\ IsFiniteSet(Kept)
    BY <1>1, FS_Subset DEF MapInv
  <1>3. /\ IsFiniteSet(Kept \cup {k}) /\ Cardinality(Kept) \in Nat
        /\ Cardinality(Kept \cup {k}) \in {Cardinality(Kept), Cardinality(Kept) + 1}
    <2>1. /\ IsFiniteSet(Kept \cup {k})
          /\ \/ Cardinality(Kept \cup {k}) = Cardinality(Kept)
             \/ Cardinality(Kept \cup {k}) = Cardinality(Kept) + 1
      BY <1>2, FS_AddElement
    <2>2. Cardinality(Kept) \in Nat
      BY <1>2, FS_CardinalityType
    <2> QED BY <2>1, <2>2
  <1>4. \A j \in DOMAIN map : map[j].last \in Nat /\ map[j].last <= now
    <2>1. \A j \in DOMAIN map : map[j].last \in 0 .. now
      BY DEF TypeOK
    <2> QED BY <1>1, <2>1
  <1>5. ASSUME Cardinality(Kept \cup {k}) > EvictAbove + 1,
               NEW i \in DOMAIN map', NEW j \in DOMAIN map'
        PROVE  map'[i].last - map'[j].last < StaleAfter
    <2>1. Cardinality(Kept) > EvictAbove
      BY <1>3, <1>5
    <2>2. Cardinality(DOMAIN map) > EvictAbove
      BY <2>1 DEF Kept
    <2>3. Kept = {x \in DOMAIN map : Fresh(x)}
      BY <2>2 DEF Kept
    <2>4. PICK x \in DOMAIN map : Fresh(x)
      <3>1. Kept # {}
        BY <2>1, FS_EmptySet
      <3> QED BY <2>3, <3>1
    <2>5. 0 < StaleAfter
      BY <1>1, <1>4, <2>4 DEF Fresh
    <2>6. \A y \in DOMAIN map' : /\ map'[y].last \in Nat /\ map'[y].last <= now
                                 /\ now - map'[y].last < StaleAfter
      <3>1. \A y \in Kept \ {k} : map'[y] = map[y] /\ y \in DOMAIN map /\ Fresh(y)
        BY <1>1, <2>3
      <3> QED BY <1>1, <1>4, <2>5, <3>1 DEF Fresh
    <2> QED BY <1>1, <2>6
  <1> QED BY <1>1, <1>3, <1>5 DEF MapInv, MapBounded

\* However many keys ask: once the map has grown beyond the threshold, all its buckets
\* were used within StaleAfter of each other (api/rate_limit.rs:43-46).
THEOREM MapIsBounded == Spec => []MapBounded
  <1>1. Init => MapInv
    BY FS_EmptySet DEF Init, MapInv, MapBounded
  <1>2. IInv /\ MapInv /\ [Next]_vars => MapInv'
    <2>1. ASSUME UNCHANGED map, MapInv PROVE MapInv'
      BY <2>1 DEF MapInv, MapBounded
    <2>2. Pass \/ (\E k \in Keys : Observe(k)) \/ UNCHANGED vars => UNCHANGED map
      BY DEF Pass, Observe, vars
    <2> QED BY <2>1, <2>2, AcquireMap DEF IInv, Next
  <1>3. MapInv => MapBounded
    BY DEF MapInv
  <1> QED BY <1>1, <1>2, <1>3, InitIInv, NextIInv, PTL DEF Spec
================================================================================
