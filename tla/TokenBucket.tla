------------------------------- MODULE TokenBucket -------------------------------
(***************************************************************************)
(* What the rate limiter promises each API key: a bucket of its own that   *)
(* fills with time, whatever the other keys do and whether or not the      *)
(* limiter remembers the key.                                              *)
(*                                                                         *)
(* The unit of time is the time in which a bucket gains one unit, so that  *)
(* a request costs Cost units and a full bucket holds Full.                *)
(*                                                                         *)
(* An observer may start to count the grants of any key at any time.       *)
(*                                                                         *)
(* RateLimiter (src/src/api/rate_limit.rs) is shown to implement this      *)
(* module.                                                                 *)
(***************************************************************************)
EXTENDS Integers

CONSTANTS Keys,     \* the API keys
          Full,     \* units in a full bucket
          Cost      \* units a request costs

VARIABLES now,      \* the time
          level,    \* per key: the units in its bucket
          watched,  \* the key whose grants the observer counts
          since,    \* since when
          spent     \* what they have cost

watch == <<watched, since, spent>>
vars == <<now, level, watch>>

Capped(units) == IF units < Full THEN units ELSE Full

Init ==
    /\ now = 0
    /\ level = [k \in Keys |-> Full]
    /\ watched \in Keys
    /\ since = 0
    /\ spent = 0

Pass ==
    /\ now' = now + 1
    /\ level' = [k \in Keys |-> Capped(level[k] + 1)]
    /\ UNCHANGED watch

Grant(k) ==
    /\ level[k] >= Cost
    /\ level' = [level EXCEPT ![k] = @ - Cost]
    /\ spent' = IF k = watched THEN spent + Cost ELSE spent
    /\ UNCHANGED <<now, watched, since>>

Refuse(k) ==
    /\ level[k] < Cost
    /\ UNCHANGED vars

Observe(k) ==
    /\ watched' = k
    /\ since' = now
    /\ spent' = 0
    /\ UNCHANGED <<now, level>>

Next == Pass \/ \E k \in Keys : Grant(k) \/ Refuse(k) \/ Observe(k)

Spec == Init /\ [][Next]_vars

--------------------------------------------------------------------------------

\* Over any interval a key is granted no more than a full bucket and what the
\* interval adds ("max_tokens per window", api/rate_limit.rs:13-14).
BurstBounded == spent <= Full + (now - since)
================================================================================
