----------------------------- MODULE RateLimiter -----------------------------
(***************************************************************************)
(* The token buckets in front of the wiki tools                            *)
(* (crates/llm-memory-server/src/rate_limit.rs): one bucket per user and   *)
(* tier, refilled by the time since its last call.  Tokens are counted in  *)
(* parts of 1/MINUTE, so that a refill is exact; the code keeps an f64.    *)
(***************************************************************************)
EXTENDS Integers, Sequences, FiniteSets

CONSTANTS
    PerMinute,  \* tier name -> per_minute of READ_TIER, WRITE_TIER, HEAVY_TIER
    MINUTE      \* ticks of the monotonic clock in a minute

ASSUME RateAssumption ==
    MINUTE \in Nat \ {0} /\ PerMinute \in [{"read", "write", "heavy"} -> Nat \ {0}]

tier_of(tool) ==
    CASE tool \in {"raw_append", "schema_update"} -> "write"
      [] tool \in {"wiki_rebuild", "export"}      -> "heavy"
      [] OTHER                                    -> "read"

\* buckets is a partial function: entry(key).or_insert(a full bucket).
Entry(buckets, key, now) ==
    IF key \in DOMAIN buckets THEN buckets[key]
    ELSE [tokens |-> PerMinute[key[2]] * MINUTE, last_refill |-> now]

\* Mutant: the refill is not capped at the budget.
RefillUncapped(b, per_minute, now) == b.tokens + (now - b.last_refill) * per_minute

Refill(b, per_minute, now) ==
    LET tokens == b.tokens + (now - b.last_refill) * per_minute
    IN  IF tokens > per_minute * MINUTE THEN per_minute * MINUTE ELSE tokens

\* One call under the mutex.  A refused call keeps what was refilled.
check(buckets, key, now) ==
    LET tokens == Refill(Entry(buckets, key, now), PerMinute[key[2]], now)
        allowed == tokens >= MINUTE
    IN  [allowed |-> allowed,
         buckets |-> [k \in DOMAIN buckets \cup {key} |->
                        IF k # key THEN buckets[k]
                        ELSE [tokens |-> IF allowed THEN tokens - MINUTE ELSE tokens,
                              last_refill |-> now]]]

KeyOf(call) == <<call.user, tier_of(call.tool)>>

\* What n calls one after the other leave behind, and which of them were
\* allowed; now never decreases (Instant).
Checked(calls) ==
    LET after[n \in 0..Len(calls)] ==
          IF n = 0 THEN [allowed |-> {}, buckets |-> <<>>]
          ELSE LET c == check(after[n - 1].buckets, KeyOf(calls[n]), calls[n].at)
               IN  [allowed |-> after[n - 1].allowed \cup (IF c.allowed THEN {n} ELSE {}),
                    buckets |-> c.buckets]
    IN  after

Allowed(calls) == Checked(calls)[Len(calls)].allowed
=============================================================================
