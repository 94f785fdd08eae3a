---------------------------- MODULE TokenBucket ----------------------------
(***************************************************************************)
(* The token bucket of one client address (internal/security/ratelimit):   *)
(* the arithmetic of Limiter.allow and of the Lua script of RedisBackend.  *)
(* Time is counted in whole seconds, the ticks, and tokens in parts, One    *)
(* parts to a token: a rate need not be a whole number of tokens per tick. *)
(***************************************************************************)
EXTENDS Integers

CONSTANTS
  Rate,      \* parts of a token added per tick, per unit of scale
  Burst,     \* capacity in parts, per unit of scale
  One,       \* parts in a token
  Unscaled,  \* the scale 1.0, in units
  Scales     \* the scales adaptive enforcement may ask for, in units

Effective(s) == IF s <= 0 THEN Unscaled ELSE s
RateAt(s) == Rate * Effective(s)
BurstAt(s) == IF Burst * Effective(s) < One THEN One
                                            ELSE Burst * Effective(s)

\* The largest scale in use: what the bounds below are about.
Top == CHOOSE t \in Scales : \A s \in Scales : Effective(s) <= Effective(t)

ASSUME BucketAssumption ==
  /\ Rate \in Nat \ {0} /\ Burst \in Nat \ {0} /\ One \in Nat \ {0}
  /\ Unscaled \in Nat \ {0}
  /\ Scales \subseteq Int
  /\ \E t \in Scales : \A s \in Scales : Effective(s) <= Effective(t)

\* An address the limiter does not track has no bucket.
NoBucket == [tokens |-> 0, last |-> -1]
Bucket == [tokens : Int, last : Nat]
Missing(b) == b.last = -1

\* Mutant: an idle bucket fills without limit.
CappedNever(t, s) == t

Capped(t, s) == IF t > BurstAt(s) THEN BurstAt(s) ELSE t

\* Tokens after the refill at time n.  n may lie before the last refill: the
\* clock is read before the lock is taken, and elapsed is then negative.
Refilled(b, n, s) == IF Missing(b)
                     THEN BurstAt(s)
                     ELSE Capped(b.tokens + RateAt(s) * (n - b.last), s)

\* The script never counts a negative elapsed time, and treats a missing key
\* as a full bucket.
ScriptRefilled(b, n, s) ==
  IF Missing(b) \/ n < b.last
  THEN Capped(IF Missing(b) THEN BurstAt(s) ELSE b.tokens, s)
  ELSE Refilled(b, n, s)

\* Mutant: a request that is refused is charged for.
LeftCharged(t, n) == [tokens |-> t - One, last |-> n]

\* What a request at time n that found t tokens leaves, if granted or not.
Left(t, n) == [tokens |-> IF t < One THEN t ELSE t - One, last |-> n]

\* What a client that is refused reads in the Retry-After header: RetryAfter,
\* the time in which what lacks of a token is refilled, cut down to whole
\* seconds (ticks), but never less than one.
Told(t, s) == LET whole == (One - t) \div RateAt(s) IN
              IF whole < 1 THEN 1 ELSE whole

\* Seconds until the script's key expires: the bucket is full by then.
KeyTTL(s) == (BurstAt(s) + RateAt(s) - 1) \div RateAt(s) + 2
=============================================================================
