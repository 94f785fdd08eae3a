-------------------------- MODULE RateLimitProofs --------------------------
(***************************************************************************)
(* The bound on what a limiter in memory grants, for any rate, burst,      *)
(* scales, addresses and requests; and what RetryAfter promises.           *)
(*                                                                         *)
(* A bucket is a line: what it would hold at time s, tokens + Rate * (s -  *)
(* last), wherever s lies.  A refill by a positive or negative elapsed     *)
(* time stays on the line, the cap and every grant lower it.  So the line  *)
(* at the start s of a window, and the tokens granted at s or later, never *)
(* add up to more than the burst; a grant leaves the line above 0 at its   *)
(* time, which bounds what was granted.                                    *)
(***************************************************************************)
EXTENDS RateLimit, TLAPS

\* Products, kept folded: the steps need no more of them than these lemmas.
Filled(x) == RateAt(Top) * x
Cost(g) == One * g
Full == BurstAt(Top)

LEMMA TopIsLargest ==
  /\ Top \in Scales
  /\ \A s \in Scales : Effective(s) <= Effective(Top)
  /\ \A s \in Int : Effective(s) \in Nat \ {0}
<1>1. \E t \in Scales : \A s \in Scales : Effective(s) <= Effective(t)
  BY BucketAssumption
<1>2. /\ Top \in Scales
      /\ \A s \in Scales : Effective(s) <= Effective(Top)
  BY <1>1 DEF Top
<1>3. \A s \in Int : Effective(s) \in Nat \ {0}
  BY BucketAssumption DEF Effective
<1> QED BY <1>2, <1>3

\* Rates and bursts are ordered as the scales are.
LEMMA RatesAndBursts ==
  /\ RateAt(Top) \in Nat \ {0} /\ Full \in Nat
  /\ \A s \in Scales : /\ RateAt(s) \in Nat /\ RateAt(s) <= RateAt(Top)
                       /\ BurstAt(s) \in Nat
                       /\ One <= BurstAt(s) /\ BurstAt(s) <= Full
<1> DEFINE E(s) == Effective(s)
<1>0. Rate \in Nat \ {0} /\ Burst \in Nat \ {0} /\ One \in Nat \ {0}
  BY BucketAssumption
<1>1. /\ Top \in Int /\ E(Top) \in Nat \ {0}
      /\ \A s \in Scales : s \in Int /\ E(s) \in Nat \ {0} /\ E(s) <= E(Top)
  BY TopIsLargest, BucketAssumption
<1>2. \A a, b, k \in Nat : a <= b => k * a <= k * b
  OBVIOUS
<1>3. \A a, k \in Nat \ {0} : k * a \in Nat \ {0}
  OBVIOUS
<1> HIDE DEF E
<1>4. ASSUME NEW s \in Scales
      PROVE  /\ Rate * E(s) \in Nat /\ Rate * E(s) <= Rate * E(Top)
             /\ Burst * E(s) \in Nat /\ Burst * E(s) <= Burst * E(Top)
  BY <1>0, <1>1, <1>2, <1>3
<1>5. Rate * E(Top) \in Nat \ {0} /\ Burst * E(Top) \in Nat
  BY <1>0, <1>1, <1>3
<1> QED BY <1>0, <1>4, <1>5 DEF RateAt, BurstAt, Full, E

LEMMA FilledIsLinear ==
  \A x, y \in Int : Filled(x - y) = Filled(x) - Filled(y)
<1> DEFINE R == RateAt(Top)
<1>1. R \in Nat \ {0}
  BY RatesAndBursts
<1> HIDE DEF R
<1>2. \A x, y \in Int : R * (x - y) = R * x - R * y
  BY <1>1
<1> QED BY <1>2 DEF R, Filled

LEMMA FilledIsMonotone ==
  /\ \A x \in Int : Filled(x) \in Int
  /\ \A x, y \in Int : x <= y => Filled(x) <= Filled(y)
  /\ Filled(0) = 0
<1> DEFINE R == RateAt(Top)
<1>1. R \in Nat \ {0}
  BY RatesAndBursts
<1> HIDE DEF R
<1>2. \A x, y \in Int : x <= y => R * x <= R * y
  BY <1>1
<1> QED BY <1>1, <1>2 DEF R, Filled

LEMMA CostFacts ==
  /\ One \in Nat \ {0}
  /\ \A g \in Nat : Cost(g) \in Nat
  /\ \A g, h \in Nat : g <= h => Cost(g) <= Cost(h)
  /\ Cost(0) = 0
  BY BucketAssumption DEF Cost

LEMMA CostOfOneMore ==
  \A g \in Nat : Cost(g + 1) = Cost(g) + One
  BY BucketAssumption DEF Cost

-----------------------------------------------------------------------------
(* The inductive invariant *)

AnyBucket == Bucket \cup {NoBucket}
Stamped == [pc : {"stamped"}, ip : IPs, scale : Scales, life : Lives,
            at : Times]
Saving == [pc : {"write", "last"}, snap : [IPs -> AnyBucket]]
Changing == [pc : {"swap", "stop"}, life : Lives]

Typing ==
  /\ clock \in Times /\ active \in Lives /\ settings \in Kinds
  /\ kind \in [Lives -> {"none", "memory", "redis", "off"}]
  /\ buckets \in [Lives -> [IPs -> AnyBucket]]
  /\ store \in [IPs -> AnyBucket]
  /\ call \in [Calls -> {Idle} \cup Stamped]
  /\ reload \in [Handlers -> [pc : {"idle", "build"}] \cup Changing]
  /\ saver \in [Lives -> [pc : {"off", "run"}] \cup Saving]
  /\ granted \in [0..MaxLives -> [IPs -> [Windows -> Nat]]]

\* A bucket never lies far below empty, and its line is at least 0 by now.
Sound(b, now) ==
  Missing(b) \/ /\ b.last <= now
                /\ 0 <= b.tokens + Filled(MaxLag)
                /\ Filled(b.last) <= b.tokens + Filled(now)
AllSound(bs, now) == \A i \in IPs : Sound(bs[i], now)

EveryBucketIsSound ==
  /\ \A l \in Lives : AllSound(buckets[l], clock)
  /\ AllSound(store, clock)
  /\ \A l \in Lives : saver[l] \in Saving => AllSound(saver[l].snap, clock)

NoCallIsLate ==
  \A c \in Calls : call[c] \in Stamped => /\ call[c].at <= clock
                                         /\ clock - call[c].at <= MaxLag

\* What was granted at s or later, and what the line says of time s.
From(s) == <<s, MaxClock>>
Spent(g, b, now, s) ==
  g >= 1 => IF Missing(b)
            THEN Cost(g) + Filled(MaxLag) + Filled(s) <= Filled(now)
            ELSE Cost(g) + b.tokens + Filled(s) <= Full + Filled(b.last)

EverySpentIsOnTheLine ==
  \A l \in Lives : \A i \in IPs : \A s \in Times :
    Spent(granted[l][i][From(s)], buckets[l][i], clock, s)

\* The window that ends last counts most.
CountsAreOrdered ==
  \A l \in Lives : \A i \in IPs : \A w \in Windows :
    granted[l][i][w] <= granted[l][i][From(w[1])]

NothingBeforeItIsBuilt ==
  \A l \in Lives : kind[l] = "none" =>
    \A i \in IPs : \A w \in Windows : granted[l][i][w] = 0

IInv ==
  /\ Typing /\ EveryBucketIsSound /\ NoCallIsLate /\ EverySpentIsOnTheLine
  /\ CountsAreOrdered /\ NothingBeforeItIsBuilt /\ MemoryBound

-----------------------------------------------------------------------------
(* Arithmetic of one bucket *)

\* A refill stays on the line or below it, and never far below empty.
LEMMA RefillIsOnTheLine ==
  ASSUME OneScaleOrNoLag,
         NEW b \in Bucket, NEW s \in Scales, NEW n \in Nat, NEW now \in Nat,
         n <= now, now - n <= MaxLag, Sound(b, now)
  PROVE  LET t == Refilled(b, n, s) IN
         /\ t \in Int /\ t <= Full
         /\ t <= b.tokens + Filled(n) - Filled(b.last)
         /\ 0 <= t + Filled(MaxLag)
         /\ t < One => Filled(n) <= t + Filled(now)
<1> DEFINE d == n - b.last
           r == RateAt(s) * d
           t == Refilled(b, n, s)
<1>0. /\ b.tokens \in Int /\ b.last \in Nat /\ ~Missing(b) /\ MaxLag \in Nat
      /\ b.last <= now /\ d \in Int
      /\ 0 <= b.tokens + Filled(MaxLag)
      /\ Filled(b.last) <= b.tokens + Filled(now)
  BY RateLimitAssumption DEF Bucket, Sound, Missing
<1>1. RateAt(s) \in Nat /\ RateAt(s) <= RateAt(Top) /\ RateAt(Top) \in Nat
  BY RatesAndBursts
<1>2. /\ r \in Int
      /\ Filled(d) \in Int /\ Filled(d) = Filled(n) - Filled(b.last)
      /\ 0 <= d => 0 <= r /\ r <= Filled(d)
  <2>1. \A x, y, z \in Nat : x <= y => 0 <= x * z /\ x * z <= y * z
    OBVIOUS
  <2>2. \A x \in Nat, z \in Int : x * z \in Int
    OBVIOUS
  <2>3. 0 <= d => 0 <= r /\ r <= Filled(d)
    <3> SUFFICES ASSUME d \in Nat PROVE 0 <= r /\ r <= Filled(d)
      BY <1>0
    <3> QED BY <1>1, <2>1 DEF Filled
  <2>4. r \in Int
    BY <1>0, <1>1, <2>2
  <2>5. Filled(d) \in Int /\ Filled(d) = Filled(n) - Filled(b.last)
    <3>1. n \in Int /\ b.last \in Int
      BY <1>0
    <3>2. Filled(d) = Filled(n) - Filled(b.last)
      BY <3>1, FilledIsLinear
    <3>3. Filled(d) \in Int
      BY <1>0, FilledIsMonotone
    <3> QED BY <3>2, <3>3
  <2> QED BY <2>3, <2>4, <2>5
<1>3. /\ Filled(n) \in Int /\ Filled(now) \in Int /\ Filled(b.last) \in Int
      /\ Filled(MaxLag) \in Int /\ Filled(now) - Filled(n) <= Filled(MaxLag)
      /\ Filled(n) <= Filled(now) /\ 0 <= Filled(MaxLag)
  <2>1. Filled(now - n) = Filled(now) - Filled(n)
    BY FilledIsLinear
  <2>2. Filled(now - n) <= Filled(MaxLag) /\ 0 <= Filled(now - n)
    BY <1>0, FilledIsMonotone
  <2> QED BY <1>0, <2>1, <2>2, FilledIsMonotone
<1>4. \/ MaxLag = 0 /\ n = now /\ 0 <= d /\ Filled(MaxLag) = 0
      \/ r = Filled(d)
  <2>1. CASE MaxLag = 0
    BY <1>0, <2>1, FilledIsMonotone
  <2>2. CASE \A z \in Scales : Effective(z) = Effective(Top)
    BY <2>2 DEF RateAt, Filled
  <2> QED BY <2>1, <2>2 DEF OneScaleOrNoLag
<1>5. /\ BurstAt(s) \in Nat /\ One <= BurstAt(s) /\ BurstAt(s) <= Full
      /\ One \in Nat /\ Full \in Nat
  BY RatesAndBursts, CostFacts
<1>6. t = IF b.tokens + r > BurstAt(s) THEN BurstAt(s) ELSE b.tokens + r
  BY <1>0 DEF Refilled, Capped
<1> HIDE DEF d, r, t
<1>7. /\ t \in Int /\ t <= Full /\ 0 <= t + Filled(MaxLag)
      /\ t <= b.tokens + Filled(n) - Filled(b.last)
      /\ t < One => Filled(n) <= t + Filled(now)
  BY <1>0, <1>2, <1>3, <1>4, <1>5, <1>6
<1> QED BY <1>7 DEF t

\* A refill of an address without a bucket always grants.
LEMMA FirstIsGranted ==
  ASSUME NEW s \in Scales, NEW n \in Nat, NEW b, Missing(b)
  PROVE  LET t == Refilled(b, n, s) IN t \in Int /\ One <= t /\ t <= Full
  BY RatesAndBursts DEF Refilled

\* Sound buckets stay so as time passes.
LEMMA SoundLater ==
  ASSUME NEW b \in AnyBucket, NEW m \in Nat, NEW n \in Nat, m <= n, Sound(b, m)
  PROVE  Sound(b, n)
<1>1. Filled(m) <= Filled(n) /\ Filled(m) \in Int /\ Filled(n) \in Int
  BY FilledIsMonotone
<1>2. CASE Missing(b)
  BY <1>2 DEF Sound
<1>3. CASE ~Missing(b)
  <2>1. b.tokens \in Int /\ b.last \in Nat /\ Filled(b.last) \in Int
    <3>1. b.tokens \in Int /\ b.last \in Nat
      BY <1>3 DEF AnyBucket, Bucket, NoBucket, Missing
    <3> QED BY <3>1, FilledIsMonotone
  <2> QED BY <1>1, <1>3, <2>1 DEF Sound
<1> QED BY <1>2, <1>3

\* A bucket that is not missing has whole tokens and a time.
LEMMA PresentIsBucket ==
  ASSUME NEW b \in AnyBucket, ~Missing(b)
  PROVE  b \in Bucket /\ b.tokens \in Int /\ b.last \in Nat
  BY DEF AnyBucket, Bucket, NoBucket, Missing

\* What is left of a bucket is sound, and what was spent still on the line.
LEMMA TakeStaysOnTheLine ==
  ASSUME OneScaleOrNoLag,
         NEW b \in AnyBucket, NEW e \in Scales, NEW n \in Nat, NEW now \in Nat,
         n <= now, now - n <= MaxLag, Sound(b, now),
         NEW s \in Nat, NEW g \in Nat, Spent(g, b, now, s)
  PROVE  LET t == Refilled(b, n, e)
             c == Left(t, n)
             h == IF ~(t < One) /\ s <= n THEN g + 1 ELSE g IN
         /\ t \in Int /\ c \in Bucket /\ Sound(c, now) /\ Spent(h, c, now, s)
         /\ ~(t < One) /\ s <= n => Cost(h) + Filled(s) <= Full + Filled(n)
<1> DEFINE t == Refilled(b, n, e)
           c == Left(t, n)
           h == IF ~(t < One) /\ s <= n THEN g + 1 ELSE g
<1>1. /\ Filled(n) \in Int /\ Filled(now) \in Int /\ Filled(s) \in Int
      /\ Filled(MaxLag) \in Int /\ 0 <= Filled(MaxLag)
      /\ Filled(n) <= Filled(now) /\ Filled(now) <= Filled(n) + Filled(MaxLag)
      /\ s <= n => Filled(s) <= Filled(n)
  <2>0. MaxLag \in Nat
    BY RateLimitAssumption
  <2>1. Filled(now - n) = Filled(now) - Filled(n)
    BY FilledIsLinear
  <2>2. Filled(now - n) <= Filled(MaxLag)
    BY <2>0, FilledIsMonotone
  <2> QED BY <2>0, <2>1, <2>2, FilledIsMonotone
<1>2. /\ One \in Nat \ {0} /\ Full \in Nat /\ h \in Nat
      /\ Cost(g) \in Nat /\ Cost(h) \in Nat /\ Cost(0) = 0
      /\ ~(t < One) /\ s <= n => Cost(h) = Cost(g) + One
      /\ ~(~(t < One) /\ s <= n) => h = g
  <2>1. h \in Nat /\ g + 1 \in Nat
    OBVIOUS
  <2>2. Cost(g + 1) = Cost(g) + One
    BY CostOfOneMore
  <2>3. One \in Nat \ {0} /\ Full \in Nat
    BY CostFacts, RatesAndBursts
  <2>4. Cost(g) \in Nat /\ Cost(h) \in Nat /\ Cost(0) = 0
    BY <2>1, CostFacts
  <2> QED BY <2>1, <2>2, <2>3, <2>4
<1>3. /\ t \in Int /\ t <= Full /\ 0 <= t + Filled(MaxLag)
      /\ t < One => Filled(n) <= t + Filled(now)
      /\ \/ Missing(b) /\ One <= t
         \/ /\ ~Missing(b) /\ b.tokens \in Int /\ Filled(b.last) \in Int
            /\ t <= b.tokens + Filled(n) - Filled(b.last)
  <2>1. CASE Missing(b)
    BY <1>1, <1>2, <2>1, FirstIsGranted
  <2>2. CASE ~Missing(b)
    <3>1. b \in Bucket /\ b.tokens \in Int /\ b.last \in Nat
      BY <2>2, PresentIsBucket
    <3>2. Filled(b.last) \in Int
      BY <3>1, FilledIsMonotone
    <3> QED BY <2>2, <3>1, <3>2, RefillIsOnTheLine
  <2> QED BY <2>1, <2>2
<1> HIDE DEF t, h
<1>4. /\ c.last = n /\ c.tokens = IF t < One THEN t ELSE t - One
      /\ c \in Bucket /\ ~Missing(c)
  BY <1>2, <1>3 DEF Left, Bucket, Missing
<1> HIDE DEF c
<1>5. Sound(c, now)
  BY <1>1, <1>2, <1>3, <1>4 DEF Sound
<1>6. ASSUME h >= 1
      PROVE  Cost(h) + c.tokens + Filled(s) <= Full + Filled(c.last)
  <2>1. CASE g >= 1 /\ Missing(b)
    <3>1. Cost(g) + Filled(MaxLag) + Filled(s) <= Filled(now)
      BY <2>1 DEF Spent
    <3> QED BY <1>1, <1>2, <1>3, <1>4, <2>1, <3>1
  <2>2. CASE g >= 1 /\ ~Missing(b)
    <3>1. Cost(g) + b.tokens + Filled(s) <= Full + Filled(b.last)
      BY <2>2 DEF Spent
    <3> QED BY <1>1, <1>2, <1>3, <1>4, <2>2, <3>1
  <2>3. CASE g = 0
    BY <1>1, <1>2, <1>3, <1>4, <1>6, <2>3
  <2> QED BY <2>1, <2>2, <2>3
<1>7. Spent(h, c, now, s)
  BY <1>4, <1>6 DEF Spent
<1>8. ASSUME ~(t < One) /\ s <= n
      PROVE  Cost(h) + Filled(s) <= Full + Filled(n)
  <2>1. h >= 1
    BY <1>8 DEF h
  <2> QED BY <1>1, <1>2, <1>3, <1>4, <1>6, <1>8, <2>1
<1> QED BY <1>3, <1>4, <1>5, <1>7, <1>8 DEF t, c, h

\* What a bucket that is evicted had spent, an idle time has refilled.
LEMMA EvictionStaysOnTheLine ==
  ASSUME SlowestRefillIsCovered,
         NEW b \in AnyBucket, ~Missing(b), NEW now \in Nat, Sound(b, now),
         b.last < now - IdleTTL,
         NEW s \in Nat, NEW g \in Nat, Spent(g, b, now, s)
  PROVE  Spent(g, NoBucket, now, s)
<1>1. b.tokens \in Int /\ b.last \in Nat
  BY PresentIsBucket
<1>2. MaxLag \in Nat /\ IdleTTL \in Nat
  BY RateLimitAssumption
<1>3. Full + 2 * Filled(MaxLag) <= Filled(IdleTTL + 1)
  <2>1. RateAt(Top) \in Nat /\ Full \in Nat
    BY RatesAndBursts
  <2>2. \A x, y \in Nat : 2 * x * y = 2 * (x * y)
    OBVIOUS
  <2> QED BY <1>2, <2>1, <2>2 DEF SlowestRefillIsCovered, Filled, Full
<1>4. /\ Filled(now - b.last) = Filled(now) - Filled(b.last)
      /\ Filled(IdleTTL + 1) <= Filled(now - b.last)
  <2>1. IdleTTL + 1 <= now - b.last /\ now \in Int /\ b.last \in Int
    BY <1>1, <1>2
  <2>2. Filled(now - b.last) = Filled(now) - Filled(b.last)
    BY <2>1, FilledIsLinear
  <2>3. Filled(IdleTTL + 1) <= Filled(now - b.last)
    BY <1>2, <2>1, FilledIsMonotone
  <2> QED BY <2>2, <2>3
<1>5. /\ Filled(now) \in Int /\ Filled(b.last) \in Int /\ Filled(s) \in Int
      /\ Filled(MaxLag) \in Int /\ Filled(IdleTTL + 1) \in Int
      /\ Full \in Nat /\ Cost(g) \in Nat
  BY <1>1, <1>2, FilledIsMonotone, RatesAndBursts, CostFacts
<1>6. g >= 1 => Cost(g) + b.tokens + Filled(s) <= Full + Filled(b.last)
  BY DEF Spent
<1>7. 0 <= b.tokens + Filled(MaxLag)
  BY DEF Sound
<1>8. g >= 1 => Cost(g) + Filled(MaxLag) + Filled(s) <= Filled(now)
  BY <1>1, <1>3, <1>4, <1>5, <1>6, <1>7
<1> QED BY <1>8 DEF Spent, Missing, NoBucket

LEMMA SpentLater ==
  ASSUME NEW b \in AnyBucket, NEW m \in Nat, NEW n \in Nat, m <= n,
         NEW s \in Nat, NEW g \in Nat, Spent(g, b, m, s)
  PROVE  Spent(g, b, n, s)
<1>1. /\ Filled(m) <= Filled(n) /\ Filled(m) \in Int /\ Filled(n) \in Int
      /\ Filled(s) \in Int /\ Filled(MaxLag) \in Int /\ Cost(g) \in Nat
  BY FilledIsMonotone, CostFacts, RateLimitAssumption
<1> QED BY <1>1 DEF Spent

-----------------------------------------------------------------------------
(* Every step keeps the invariant *)

LEMMA ConstantsAreNat ==
  /\ MaxClock \in Nat /\ MaxLag \in Nat /\ IdleTTL \in Nat /\ MaxLives \in Nat
  /\ Times \subseteq Nat /\ Lives \subseteq 0..MaxLives /\ 1 \in Lives
  /\ \A w \in Windows : /\ w[1] \in Times /\ w[2] \in Times /\ w[1] <= w[2]
                         /\ w[2] <= MaxClock /\ From(w[1]) \in Windows
  /\ \A s \in Times : From(s) \in Windows
  BY RateLimitAssumption DEF Times, Lives, Windows, From

LEMMA NoBucketIsSound ==
  /\ NoBucket \in AnyBucket /\ \A n \in Nat : Sound(NoBucket, n)
  /\ NoBuckets \in [IPs -> AnyBucket] /\ \A n \in Nat : AllSound(NoBuckets, n)
  BY DEF NoBucket, NoBuckets, AnyBucket, Sound, AllSound, Missing

LEMMA EvictedIsSound ==
  ASSUME NEW bs \in [IPs -> AnyBucket], NEW n \in Nat, AllSound(bs, n)
  PROVE  /\ WithoutIdle(bs) \in [IPs -> AnyBucket]
         /\ AllSound(WithoutIdle(bs), n)
  BY NoBucketIsSound DEF WithoutIdle, AllSound

LEMMA InitHolds == Init => IInv
<1> SUFFICES ASSUME Init PROVE IInv
  OBVIOUS
<1> USE ConstantsAreNat, NoBucketIsSound DEF Init
<1>1. Typing
  BY DEF Typing, Idle, NoSavers, Times
<1>2. EveryBucketIsSound
  BY DEF EveryBucketIsSound, NoSavers, Saving
<1>3. NoCallIsLate
  BY DEF NoCallIsLate, Idle, Stamped
<1>4. \A l \in Lives : \A i \in IPs : \A w \in Windows : granted[l][i][w] = 0
  OBVIOUS
<1>5. EverySpentIsOnTheLine
  BY <1>4 DEF EverySpentIsOnTheLine, Spent
<1>6. CountsAreOrdered /\ NothingBeforeItIsBuilt
  BY <1>4 DEF CountsAreOrdered, NothingBeforeItIsBuilt
<1>7. MemoryBound
  <2> SUFFICES ASSUME NEW l \in Lives, NEW i \in IPs, NEW w \in Windows
               PROVE  One * granted[l][i][w] <=
                        BurstAt(Top) + RateAt(Top) * (w[2] - w[1])
    BY DEF MemoryBound, Bounded
  <2>1. Cost(granted[l][i][w]) = 0
    BY <1>4, CostFacts
  <2>2. 0 <= Full /\ Full \in Nat
    BY RatesAndBursts
  <2>3. w[2] - w[1] \in Nat
    <3>1. w[1] \in Times /\ w[2] \in Times /\ w[1] <= w[2]
      BY ConstantsAreNat
    <3> QED BY <3>1 DEF Times
  <2>4. 0 <= Filled(w[2] - w[1]) /\ Filled(w[2] - w[1]) \in Int
    BY <2>3, FilledIsMonotone
  <2> QED BY <2>1, <2>2, <2>4 DEF Cost, Full, Filled
<1> QED BY <1>1, <1>2, <1>3, <1>5, <1>6, <1>7 DEF IInv

\* What a new back end starts with.
LEMMA NewIsTyped ==
  ASSUME IInv, NEW l \in Lives,
         NEW savers \in [Lives -> [pc : {"off", "run"}] \cup Saving],
         New(l, savers)
  PROVE  /\ kind' \in [Lives -> {"none", "memory", "redis", "off"}]
         /\ \A j \in Lives \ {l} : kind'[j] = kind[j] /\ buckets'[j] = buckets[j]
         /\ buckets' \in [Lives -> [IPs -> AnyBucket]]
         /\ AllSound(buckets'[l], clock)
         /\ saver' \in [Lives -> [pc : {"off", "run"}] \cup Saving]
         /\ \A j \in Lives : saver'[j] \in Saving => saver'[j] = savers[j]
<1>1. Restored \in [IPs -> AnyBucket] /\ AllSound(Restored, clock)
  BY NoBucketIsSound, ConstantsAreNat
     DEF IInv, Typing, EveryBucketIsSound, Restored, AllSound
<1>2. PICK k \in Connected(settings) :
        /\ kind' = [kind EXCEPT ![l] = k]
        /\ \E bs \in IF k = "memory" THEN Loaded ELSE {NoBuckets} :
             buckets' = [buckets EXCEPT ![l] = bs]
        /\ saver' = IF k = "memory" THEN [savers EXCEPT ![l] = [pc |-> "run"]]
                                    ELSE savers
  BY DEF New
<1>3. PICK bs \in {Restored, NoBuckets} : buckets' = [buckets EXCEPT ![l] = bs]
  BY <1>2 DEF Loaded
<1>4. k \in {"memory", "redis", "off"}
  BY <1>2, RateLimitAssumption DEF IInv, Typing, Connected
<1>5. bs \in [IPs -> AnyBucket] /\ AllSound(bs, clock)
  BY <1>1, <1>3, NoBucketIsSound, ConstantsAreNat DEF IInv, Typing
<1>6. [pc |-> "run"] \in [pc : {"off", "run"}] /\ [pc |-> "run"] \notin Saving
  BY DEF Saving
<1>7. /\ kind' \in [Lives -> {"none", "memory", "redis", "off"}]
      /\ \A j \in Lives \ {l} : kind'[j] = kind[j]
  BY <1>2, <1>4 DEF IInv, Typing
<1>8. /\ buckets' \in [Lives -> [IPs -> AnyBucket]]
      /\ buckets'[l] = bs /\ \A j \in Lives \ {l} : buckets'[j] = buckets[j]
  BY <1>3, <1>5 DEF IInv, Typing
<1>9. /\ saver' \in [Lives -> [pc : {"off", "run"}] \cup Saving]
      /\ \A j \in Lives : saver'[j] \in Saving => saver'[j] = savers[j]
  BY <1>2, <1>6
<1> QED BY <1>5, <1>7, <1>8, <1>9

\* A decision never counts for a life that is not built, and keeps the type
\* of what it counts.
LEMMA CountIsTyped ==
  ASSUME Typing, NEW l \in 0..MaxLives, NEW i \in IPs, NEW n \in Nat, Count(l, i, n)
  PROVE  /\ granted' \in [0..MaxLives -> [IPs -> [Windows -> Nat]]]
         /\ \A j \in 0..MaxLives, k \in IPs : \A w \in Windows :
              granted'[j][k][w] =
                IF j = l /\ k = i /\ w[1] <= n /\ n <= w[2]
                THEN granted[j][k][w] + 1 ELSE granted[j][k][w]
<1> DEFINE old == granted[l][i]
           new == [w \in Windows |-> IF w[1] <= n /\ n <= w[2]
                                     THEN old[w] + 1 ELSE old[w]]
<1>1. granted \in [0..MaxLives -> [IPs -> [Windows -> Nat]]]
  BY DEF Typing
<1>2. granted' = [granted EXCEPT ![l] = [granted[l] EXCEPT ![i] = new]]
  BY <1>1 DEF Count
<1>3. old \in [Windows -> Nat]
  BY <1>1
<1>4. new \in [Windows -> Nat]
  BY <1>3
<1>5. \A w \in Windows : new[w] = IF w[1] <= n /\ n <= w[2]
                                  THEN old[w] + 1 ELSE old[w]
  OBVIOUS
<1> HIDE DEF new
<1>6. /\ granted' \in [0..MaxLives -> [IPs -> [Windows -> Nat]]]
      /\ \A j \in 0..MaxLives, k \in IPs :
           granted'[j][k] = IF j = l /\ k = i THEN new ELSE granted[j][k]
  BY <1>1, <1>2, <1>4
<1> QED BY <1>5, <1>6

\* Requests and tools that touch neither buckets nor what was granted.
LEMMA QuietStep ==
  ASSUME IInv, Typing', NoCallIsLate', UNCHANGED <<clock, buckets, store>>,
         \A l \in Lives : kind'[l] = "none" => kind[l] = "none",
         \A l \in Lives : saver'[l] \in Saving => saver'[l] = saver[l],
         \A l \in Lives : granted'[l] = granted[l]
  PROVE  IInv'
<1>1. EveryBucketIsSound'
  BY DEF IInv, EveryBucketIsSound, AllSound, Sound, Filled, RateAt, Effective,
         Top
<1>2. EverySpentIsOnTheLine' /\ CountsAreOrdered' /\ NothingBeforeItIsBuilt'
  BY DEF IInv, EverySpentIsOnTheLine, CountsAreOrdered, NothingBeforeItIsBuilt
<1>3. MemoryBound'
  BY DEF IInv, MemoryBound, Bounded
<1> QED BY <1>1, <1>2, <1>3 DEF IInv

LEMMA BeginKeeps == ASSUME IInv, NEW c \in Calls, Begin(c) PROVE IInv'
<1>1. PICK i \in IPs, s \in Scales :
        call' = [call EXCEPT ![c] = [pc |-> "stamped", ip |-> i, scale |-> s,
                                     life |-> active, at |-> clock]]
  BY DEF Begin
<1> DEFINE q == [pc |-> "stamped", ip |-> i, scale |-> s, life |-> active,
                 at |-> clock]
<1>2. q \in Stamped /\ q.at = clock
  BY DEF IInv, Typing, Stamped
<1> HIDE DEF q
<1>3. call' = [call EXCEPT ![c] = q]
  BY <1>1 DEF q
<1>4. /\ UNCHANGED <<clock, active, settings, kind, buckets, store, saver,
                     granted, reload>>
  BY DEF Begin, limiterVars, ghosts
<1>5. Typing'
  BY <1>2, <1>3, <1>4 DEF IInv, Typing
<1>6. NoCallIsLate'
  <2> SUFFICES ASSUME NEW d \in Calls, call'[d] \in Stamped
               PROVE  call'[d].at <= clock' /\ clock' - call'[d].at <= MaxLag
    BY DEF NoCallIsLate
  <2>1. CASE d = c
    <3>1. call'[d] = q
      BY <1>3, <2>1 DEF IInv, Typing
    <3>2. clock \in Nat /\ MaxLag \in Nat /\ clock - clock = 0
      BY ConstantsAreNat DEF IInv, Typing
    <3> QED BY <1>2, <1>4, <3>1, <3>2
  <2>2. CASE d # c
    BY <1>3, <1>4, <2>2 DEF IInv, Typing, NoCallIsLate
  <2> QED BY <2>1, <2>2
<1> QED BY <1>4, <1>5, <1>6, QuietStep

\* A call that ends leaves none that is late.
LEMMA EndedCall ==
  ASSUME IInv, NEW c \in Calls, call' = [call EXCEPT ![c] = Idle],
         UNCHANGED clock
  PROVE  /\ call' \in [Calls -> {Idle} \cup Stamped]
         /\ NoCallIsLate'
<1>1. Idle \notin Stamped
  BY DEF Idle, Stamped
<1> QED BY <1>1 DEF IInv, Typing, NoCallIsLate

LEMMA FailOpenKeeps == ASSUME IInv, NEW c \in Calls, FailOpen(c) PROVE IInv'
<1>1. /\ UNCHANGED <<clock, active, settings, kind, buckets, store, saver,
                     granted, reload>>
      /\ call' = [call EXCEPT ![c] = Idle]
  BY DEF FailOpen, limiterVars, ghosts
<1>2. Typing' /\ NoCallIsLate'
  BY <1>1, EndedCall DEF IInv, Typing
<1> QED BY <1>1, <1>2, QuietStep

LEMMA StampedCall ==
  ASSUME IInv, NEW c \in Calls, call[c].pc = "stamped"
  PROVE  /\ call[c] \in Stamped
         /\ call[c].ip \in IPs /\ call[c].scale \in Scales
         /\ call[c].life \in Lives /\ call[c].at \in Times
         /\ call[c].at <= clock /\ clock - call[c].at <= MaxLag
<1>1. call[c] \in Stamped
  BY DEF IInv, Typing, Idle
<1> QED BY <1>1 DEF IInv, NoCallIsLate, Stamped

LEMMA ScriptKeeps == ASSUME IInv, NEW c \in Calls, Script(c) PROVE IInv'
<1> DEFINE q == call[c]
<1>1. /\ UNCHANGED <<clock, active, settings, kind, buckets, store, saver,
                     reload>>
      /\ call' = [call EXCEPT ![c] = Idle] /\ q.pc = "stamped"
      /\ granted' = granted \/ Count(0, q.ip, q.at)
  BY DEF Script, limiterVars, Decide
<1>2. q.ip \in IPs /\ q.at \in Nat
  BY <1>1, StampedCall, ConstantsAreNat
<1>3. /\ granted' \in [0..MaxLives -> [IPs -> [Windows -> Nat]]]
      /\ \A l \in Lives : granted'[l] = granted[l]
  <2>1. CASE granted' = granted
    BY <2>1 DEF IInv, Typing
  <2>2. CASE Count(0, q.ip, q.at)
    <3>1. 0 \in 0..MaxLives
      BY ConstantsAreNat
    <3>2. granted' \in [0..MaxLives -> [IPs -> [Windows -> Nat]]]
      BY <1>2, <2>2, <3>1, CountIsTyped DEF IInv
    <3>3. \A l \in Lives : granted'[l] = granted[l]
      BY <2>2 DEF Count, IInv, Typing, Lives
    <3> QED BY <3>2, <3>3
  <2> QED BY <1>1, <2>1, <2>2
<1>4. Typing' /\ NoCallIsLate'
  BY <1>1, <1>3, EndedCall DEF IInv, Typing
<1> QED BY <1>1, <1>3, <1>4, QuietStep

LEMMA TakeKeeps ==
  ASSUME OneScaleOrNoLag, IInv, NEW c \in Calls, Take(c)
  PROVE  IInv'
<1> DEFINE q == call[c]
           L == q.life
           I == q.ip
           n == q.at
           b == buckets[L][I]
           t == Refilled(b, n, q.scale)
<1>1. /\ q.pc = "stamped" /\ kind[L] = "memory"
      /\ buckets' = [buckets EXCEPT ![L][I] = Left(t, n)]
      /\ IF t < One THEN granted' = granted ELSE Count(L, I, n)
      /\ call' = [call EXCEPT ![c] = Idle]
      /\ UNCHANGED <<clock, active, settings, kind, store, saver, reload>>
  BY DEF Take, Decide
<1>2. /\ I \in IPs /\ q.scale \in Scales /\ L \in Lives /\ n \in Times
      /\ n <= clock /\ clock - n <= MaxLag
  BY <1>1, StampedCall
<1>3. clock \in Times /\ n \in Nat /\ clock \in Nat /\ L \in 0..MaxLives
  BY <1>2, ConstantsAreNat DEF IInv, Typing
<1>4. b \in AnyBucket /\ Sound(b, clock)
  BY <1>2 DEF IInv, Typing, EveryBucketIsSound, AllSound
<1>5. \A l \in Lives, i \in IPs : \A w \in Windows :
        /\ granted[l][i][w] \in Nat
        /\ granted'[l][i][w] =
             IF ~(t < One) /\ l = L /\ i = I /\ w[1] <= n /\ n <= w[2]
             THEN granted[l][i][w] + 1 ELSE granted[l][i][w]
  <2>1. \A l \in Lives, i \in IPs : \A w \in Windows : granted[l][i][w] \in Nat
    BY ConstantsAreNat DEF IInv, Typing
  <2>2. CASE t < One
    BY <1>1, <2>1, <2>2
  <2>3. CASE ~(t < One)
    <3>1. Count(L, I, n)
      BY <1>1, <2>3
    <3>2. \A j \in 0..MaxLives, k \in IPs : \A w \in Windows :
            granted'[j][k][w] =
              IF j = L /\ k = I /\ w[1] <= n /\ n <= w[2]
              THEN granted[j][k][w] + 1 ELSE granted[j][k][w]
      BY <1>2, <1>3, <3>1, CountIsTyped DEF IInv
    <3>3. Lives \subseteq 0..MaxLives
      BY ConstantsAreNat
    <3> HIDE DEF t, n, I, L, q, b
    <3> SUFFICES ASSUME NEW l \in Lives, NEW i \in IPs, NEW w \in Windows
                 PROVE  /\ granted[l][i][w] \in Nat
                        /\ granted'[l][i][w] =
                             IF ~(t < One) /\ l = L /\ i = I
                                /\ w[1] <= n /\ n <= w[2]
                             THEN granted[l][i][w] + 1 ELSE granted[l][i][w]
      OBVIOUS
    <3>4. granted'[l][i][w] = IF l = L /\ i = I /\ w[1] <= n /\ n <= w[2]
                              THEN granted[l][i][w] + 1
                              ELSE granted[l][i][w]
      BY <3>2, <3>3
    <3> QED BY <2>1, <2>3, <3>4
  <2> QED BY <2>2, <2>3
<1>6. granted' \in [0..MaxLives -> [IPs -> [Windows -> Nat]]]
  <2>1. CASE t < One
    BY <1>1, <2>1 DEF IInv, Typing
  <2>2. CASE ~(t < One)
    BY <1>1, <1>2, <1>3, <2>2, CountIsTyped DEF IInv
  <2> QED BY <2>1, <2>2
\* The bucket the request took from, and the windows that start at s.
<1> DEFINE g(s) == granted[L][I][From(s)]
           h(s) == IF ~(t < One) /\ s <= n THEN g(s) + 1 ELSE g(s)
<1>7. ASSUME NEW s \in Times
      PROVE  /\ Left(t, n) \in Bucket /\ Sound(Left(t, n), clock)
             /\ Spent(h(s), Left(t, n), clock, s)
             /\ ~(t < One) /\ s <= n => Cost(h(s)) + Filled(s) <= Full + Filled(n)
             /\ h(s) = granted'[L][I][From(s)]
  <2>1. s \in Nat /\ From(s) \in Windows /\ From(s)[1] = s
        /\ From(s)[2] = MaxClock /\ n <= MaxClock
    BY <1>2, ConstantsAreNat DEF From, Times
  <2>2. g(s) \in Nat /\ Spent(g(s), b, clock, s)
    BY <1>2, <1>5, <2>1 DEF IInv, EverySpentIsOnTheLine
  <2>3. h(s) = granted'[L][I][From(s)]
    <3> HIDE DEF t, b, n
    <3> QED BY <1>2, <1>5, <2>1
  <2>4. /\ Left(t, n) \in Bucket /\ Sound(Left(t, n), clock)
        /\ Spent(h(s), Left(t, n), clock, s)
        /\ ~(t < One) /\ s <= n => Cost(h(s)) + Filled(s) <= Full + Filled(n)
    <3> HIDE DEF b, n, g, L, I, q
    <3> QED BY <1>2, <1>3, <1>4, <2>1, <2>2, TakeStaysOnTheLine
  <2> QED BY <2>3, <2>4
<1>8. \A l \in Lives, i \in IPs :
        buckets'[l][i] = IF l = L /\ i = I THEN Left(t, n) ELSE buckets[l][i]
  BY <1>1, <1>2 DEF IInv, Typing
<1>9. Left(t, n) \in AnyBucket /\ Sound(Left(t, n), clock)
  BY <1>3, <1>7 DEF AnyBucket
<1> HIDE DEF t, b, n, I, L, q, g, h
<1>10. Typing' /\ NoCallIsLate'
  <2>1. buckets' \in [Lives -> [IPs -> AnyBucket]]
    BY <1>1, <1>2, <1>9 DEF IInv, Typing
  <2> QED BY <1>1, <1>6, <2>1, EndedCall DEF IInv, Typing
<1>11. EveryBucketIsSound'
  <2>1. \A l \in Lives : \A i \in IPs : Sound(buckets'[l][i], clock)
    BY <1>8, <1>9 DEF IInv, EveryBucketIsSound, AllSound
  <2> QED BY <1>1, <2>1 DEF IInv, EveryBucketIsSound, AllSound
<1>12. EverySpentIsOnTheLine'
  <2> SUFFICES ASSUME NEW l \in Lives, NEW i \in IPs, NEW s \in Times
               PROVE  Spent(granted'[l][i][From(s)], buckets'[l][i], clock, s)
    BY <1>1 DEF EverySpentIsOnTheLine
  <2>1. CASE l = L /\ i = I
    BY <1>2, <1>7, <1>8, <2>1
  <2>2. CASE ~(l = L /\ i = I)
    <3>1. From(s) \in Windows
      BY ConstantsAreNat
    <3>2. /\ granted'[l][i][From(s)] = granted[l][i][From(s)]
          /\ buckets'[l][i] = buckets[l][i]
      BY <1>5, <1>8, <2>2, <3>1
    <3> QED BY <3>2 DEF IInv, EverySpentIsOnTheLine
  <2> QED BY <2>1, <2>2
<1>13. CountsAreOrdered'
  <2> SUFFICES ASSUME NEW l \in Lives, NEW i \in IPs, NEW w \in Windows
               PROVE  granted'[l][i][w] <= granted'[l][i][From(w[1])]
    BY DEF CountsAreOrdered
  <2>1. /\ From(w[1]) \in Windows /\ From(w[1])[1] = w[1]
        /\ From(w[1])[2] = MaxClock /\ n <= MaxClock
    BY <1>2, ConstantsAreNat DEF From, Times
  <2>2. granted[l][i][w] <= granted[l][i][From(w[1])]
    BY DEF IInv, CountsAreOrdered
  <2> QED BY <1>5, <2>1, <2>2
<1>14. NothingBeforeItIsBuilt'
  BY <1>1, <1>2, <1>5 DEF IInv, NothingBeforeItIsBuilt
<1>15. MemoryBound'
  <2> SUFFICES ASSUME NEW l \in Lives, NEW i \in IPs, NEW w \in Windows
               PROVE  One * granted'[l][i][w] <=
                        BurstAt(Top) + RateAt(Top) * (w[2] - w[1])
    BY DEF MemoryBound, Bounded
  <2>1. CASE ~(~(t < One) /\ l = L /\ i = I /\ w[1] <= n /\ n <= w[2])
    BY <1>5, <2>1 DEF IInv, MemoryBound, Bounded
  <2>2. CASE ~(t < One) /\ l = L /\ i = I /\ w[1] <= n /\ n <= w[2]
    <3> DEFINE few == granted'[l][i][w]
               all == granted'[l][i][From(w[1])]
    <3>1. few <= all /\ few \in Nat /\ all \in Nat
      BY <1>5, <1>13, ConstantsAreNat DEF CountsAreOrdered
    <3>2. w[1] \in Times /\ w[2] \in Times /\ w[1] \in Int /\ w[2] \in Int
      <4>1. w[1] \in Times /\ w[2] \in Times
        BY ConstantsAreNat
      <4> QED BY <4>1 DEF Times
    <3>3. Cost(all) + Filled(w[1]) <= Full + Filled(n)
      BY <1>7, <2>2, <3>2
    <3>4. Cost(few) <= Cost(all) /\ Cost(few) \in Nat /\ Cost(all) \in Nat
      BY <3>1, CostFacts
    <3>5. /\ Filled(n) <= Filled(w[2]) /\ Filled(n) \in Int
          /\ Filled(w[1]) \in Int /\ Filled(w[2]) \in Int /\ Full \in Nat
      BY <1>3, <2>2, <3>2, FilledIsMonotone, RatesAndBursts
    <3>6. Filled(w[2] - w[1]) = Filled(w[2]) - Filled(w[1])
      BY <3>2, FilledIsLinear
    <3>7. Cost(few) <= Full + Filled(w[2] - w[1])
      <4> HIDE DEF few, all
      <4> QED BY <3>3, <3>4, <3>5, <3>6
    <3> QED BY <3>7 DEF Cost, Full, Filled
  <2> QED BY <2>1, <2>2
<1> QED BY <1>10, <1>11, <1>12, <1>13, <1>14, <1>15 DEF IInv

LEMMA EvictKeeps ==
  ASSUME SlowestRefillIsCovered, IInv, NEW L \in Lives, Evict(L)
  PROVE  IInv'
<1> DEFINE bs == WithoutIdle(buckets[L])
<1>1. /\ buckets' = [buckets EXCEPT ![L] = bs]
      /\ UNCHANGED <<clock, active, settings, kind, store, saver, reload, call,
                     granted>>
  BY DEF Evict, ghosts
<1>2. clock \in Nat
  BY ConstantsAreNat DEF IInv, Typing
<1>3. bs \in [IPs -> AnyBucket] /\ AllSound(bs, clock)
  BY <1>2, EvictedIsSound DEF IInv, Typing, EveryBucketIsSound
<1>4. ASSUME NEW i \in IPs, NEW s \in Times
      PROVE  Spent(granted[L][i][From(s)], bs[i], clock, s)
  <2> DEFINE b == buckets[L][i]
             g == granted[L][i][From(s)]
  <2>1. b \in AnyBucket /\ Sound(b, clock) /\ Spent(g, b, clock, s)
    BY DEF IInv, Typing, EveryBucketIsSound, AllSound, EverySpentIsOnTheLine
  <2>2. g \in Nat /\ s \in Nat
    BY ConstantsAreNat DEF IInv, Typing
  <2>3. bs[i] = IF IdleBucket(b) THEN NoBucket ELSE b
    BY DEF WithoutIdle
  <2>4. CASE IdleBucket(b)
    <3>1. ~Missing(b) /\ b.last < clock - IdleTTL
      BY <2>4 DEF IdleBucket
    <3> HIDE DEF b, g
    <3>2. Spent(g, NoBucket, clock, s)
      BY <1>2, <2>1, <2>2, <3>1, EvictionStaysOnTheLine
    <3> QED BY <2>3, <2>4, <3>2 DEF g
  <2>5. CASE ~IdleBucket(b)
    BY <2>1, <2>3, <2>5
  <2> QED BY <2>4, <2>5
<1> HIDE DEF bs
<1>5. \A l \in Lives : buckets'[l] = IF l = L THEN bs ELSE buckets[l]
  BY <1>1 DEF IInv, Typing
<1>6. Typing' /\ NoCallIsLate'
  BY <1>1, <1>3 DEF IInv, Typing, NoCallIsLate
<1>7. EveryBucketIsSound'
  <2>1. \A l \in Lives : AllSound(buckets'[l], clock)
    BY <1>3, <1>5 DEF IInv, EveryBucketIsSound
  <2> QED BY <1>1, <2>1 DEF IInv, EveryBucketIsSound, AllSound
<1>8. EverySpentIsOnTheLine'
  BY <1>1, <1>4, <1>5 DEF IInv, EverySpentIsOnTheLine
<1>9. CountsAreOrdered' /\ NothingBeforeItIsBuilt' /\ MemoryBound'
  BY <1>1 DEF IInv, CountsAreOrdered, NothingBeforeItIsBuilt, MemoryBound,
              Bounded
<1> QED BY <1>6, <1>7, <1>8, <1>9 DEF IInv

\* What the saver has read, and what a write makes of the table.
LEMMA SnapshotKeeps ==
  ASSUME IInv, NEW l \in Lives, NEW last \in BOOLEAN, Snapshot(l, last)
  PROVE  IInv'
<1> DEFINE v == [pc |-> IF last THEN "last" ELSE "write", snap |-> buckets[l]]
<1>1. /\ saver' = [saver EXCEPT ![l] = v]
      /\ UNCHANGED <<clock, active, settings, kind, buckets, store, reload, call,
                     granted>>
  BY DEF Snapshot, limiterVars, ghosts
<1>2. v \in Saving /\ v.snap = buckets[l]
  BY DEF Saving, IInv, Typing
<1> HIDE DEF v
<1>3. Typing' /\ NoCallIsLate'
  BY <1>1, <1>2 DEF IInv, Typing, NoCallIsLate
<1>4. EveryBucketIsSound'
  <2>1. \A j \in Lives : saver'[j] \in Saving => AllSound(saver'[j].snap, clock)
    BY <1>1, <1>2 DEF IInv, Typing, EveryBucketIsSound
  <2> QED BY <1>1, <2>1 DEF IInv, EveryBucketIsSound, AllSound
<1>5. /\ EverySpentIsOnTheLine' /\ CountsAreOrdered'
      /\ NothingBeforeItIsBuilt' /\ MemoryBound'
  BY <1>1 DEF IInv, EverySpentIsOnTheLine, CountsAreOrdered,
              NothingBeforeItIsBuilt, MemoryBound, Bounded
<1> QED BY <1>3, <1>4, <1>5 DEF IInv

LEMMA WriteKeeps ==
  ASSUME IInv, NEW l \in Lives, NEW ok \in BOOLEAN, NEW purge \in BOOLEAN,
         Write(l, ok, purge)
  PROVE  IInv'
<1> DEFINE v == [pc |-> IF saver[l].pc = "last" THEN "off" ELSE "run"]
<1>1. /\ store' = Purged(Saved(saver[l].snap, ok), purge)
      /\ saver' = [saver EXCEPT ![l] = v]
      /\ saver[l].pc \in {"write", "last"}
      /\ UNCHANGED <<clock, active, settings, kind, buckets, reload, call, granted>>
  BY DEF Write, limiterVars, ghosts, IInv, Typing
<1>2. saver[l] \in Saving
  BY <1>1 DEF IInv, Typing
<1>3. clock \in Nat
  BY ConstantsAreNat DEF IInv, Typing
<1>4. /\ Saved(saver[l].snap, ok) \in [IPs -> AnyBucket]
      /\ AllSound(Saved(saver[l].snap, ok), clock)
  BY <1>2 DEF Saved, Saving, IInv, Typing, EveryBucketIsSound
<1>5. store' \in [IPs -> AnyBucket] /\ AllSound(store', clock)
  BY <1>1, <1>3, <1>4, EvictedIsSound DEF Purged
<1>6. v \in [pc : {"off", "run"}] /\ v \notin Saving
  BY DEF Saving
<1> HIDE DEF v
<1>7. Typing' /\ NoCallIsLate'
  BY <1>1, <1>5, <1>6 DEF IInv, Typing, NoCallIsLate
<1>8. EveryBucketIsSound'
  <2>1. \A j \in Lives : saver'[j] \in Saving => AllSound(saver'[j].snap, clock)
    BY <1>1, <1>6 DEF IInv, Typing, EveryBucketIsSound
  <2> QED BY <1>1, <1>5, <2>1 DEF IInv, EveryBucketIsSound, AllSound
<1>9. /\ EverySpentIsOnTheLine' /\ CountsAreOrdered'
      /\ NothingBeforeItIsBuilt' /\ MemoryBound'
  BY <1>1 DEF IInv, EverySpentIsOnTheLine, CountsAreOrdered,
              NothingBeforeItIsBuilt, MemoryBound, Bounded
<1> QED BY <1>7, <1>8, <1>9 DEF IInv

LEMMA ChangesKeep ==
  ASSUME IInv, NEW h \in Handlers,
         \/ \E k \in Kinds : SaveSettings(h, k)
         \/ Swap(h) \/ StopOld(h)
  PROVE  IInv'
<1>1. UNCHANGED <<clock, kind, buckets, store, saver, call, granted>>
  BY DEF SaveSettings, Swap, StopOld, limiterVars, ghosts
<1>2. NoCallIsLate'
  BY <1>1 DEF IInv, NoCallIsLate
<1>3. ASSUME NEW v \in [pc : {"idle", "build"}] \cup Changing,
             reload' = [reload EXCEPT ![h] = v],
             settings' \in Kinds, active' \in Lives
      PROVE  Typing'
  BY <1>1, <1>3 DEF IInv, Typing
<1>4. ASSUME NEW k \in Kinds, SaveSettings(h, k)
      PROVE  Typing'
  <2>1. [pc |-> "build"] \in [pc : {"idle", "build"}] \cup Changing
    OBVIOUS
  <2> QED BY <1>3, <1>4, <2>1 DEF SaveSettings, limiterVars, IInv, Typing
<1>5. ASSUME Swap(h) PROVE Typing'
  <2>1. [pc |-> "stop", life |-> active] \in Changing
    BY DEF IInv, Typing, Changing
  <2>2. reload[h].life \in Lives
    BY <1>5 DEF Swap, IInv, Typing, Changing
  <2> QED BY <1>3, <1>5, <2>1, <2>2 DEF Swap, IInv, Typing
<1>6. ASSUME StopOld(h) PROVE Typing'
  <2>1. Idle \in [pc : {"idle", "build"}]
    BY DEF Idle
  <2> QED BY <1>3, <1>6, <2>1 DEF StopOld, IInv, Typing
<1>7. Typing'
  BY <1>4, <1>5, <1>6
<1> QED BY <1>1, <1>2, <1>7, QuietStep

\* A life that was not built has granted nothing: whatever it starts with is
\* not too much.
LEMMA NewLifeKeeps ==
  ASSUME IInv, NEW l \in Lives, kind[l] = "none",
         UNCHANGED <<clock, store, granted>>, Typing', NoCallIsLate',
         \A j \in Lives \ {l} : kind'[j] = kind[j] /\ buckets'[j] = buckets[j],
         AllSound(buckets'[l], clock),
         \A j \in Lives : saver'[j] \in Saving => saver'[j] = saver[j]
  PROVE  IInv'
<1>1. EveryBucketIsSound'
  <2>1. \A j \in Lives : AllSound(buckets'[j], clock)
    BY DEF IInv, EveryBucketIsSound
  <2>2. \A j \in Lives : saver'[j] \in Saving => AllSound(saver'[j].snap, clock)
    BY DEF IInv, EveryBucketIsSound
  <2> QED BY <2>1, <2>2 DEF IInv, EveryBucketIsSound, AllSound
<1>2. EverySpentIsOnTheLine'
  <2> SUFFICES ASSUME NEW j \in Lives, NEW i \in IPs, NEW s \in Times
               PROVE  Spent(granted[j][i][From(s)], buckets'[j][i], clock, s)
    BY DEF EverySpentIsOnTheLine
  <2>1. CASE j = l
    <3>1. granted[j][i][From(s)] = 0
      BY <2>1, ConstantsAreNat DEF IInv, NothingBeforeItIsBuilt
    <3> QED BY <3>1 DEF Spent
  <2>2. CASE j # l
    BY <2>2 DEF IInv, EverySpentIsOnTheLine
  <2> QED BY <2>1, <2>2
<1>3. CountsAreOrdered' /\ MemoryBound'
  BY DEF IInv, CountsAreOrdered, MemoryBound, Bounded
<1>4. NothingBeforeItIsBuilt'
  BY DEF IInv, NothingBeforeItIsBuilt
<1> QED BY <1>1, <1>2, <1>3, <1>4 DEF IInv

LEMMA BuildKeeps == ASSUME IInv, NEW h \in Handlers, Build(h) PROVE IInv'
<1>1. PICK l \in Unbuilt :
        /\ New(l, saver)
        /\ reload' = [reload EXCEPT ![h] = [pc |-> "swap", life |-> l]]
  BY DEF Build
<1>2. l \in Lives /\ kind[l] = "none"
  BY DEF Unbuilt
<1>3. UNCHANGED <<clock, active, settings, store, call, granted>>
  BY DEF Build, ghosts
<1>4. saver \in [Lives -> [pc : {"off", "run"}] \cup Saving]
  BY DEF IInv, Typing
<1>5. /\ kind' \in [Lives -> {"none", "memory", "redis", "off"}]
      /\ \A j \in Lives \ {l} : kind'[j] = kind[j] /\ buckets'[j] = buckets[j]
      /\ buckets' \in [Lives -> [IPs -> AnyBucket]]
      /\ AllSound(buckets'[l], clock)
      /\ saver' \in [Lives -> [pc : {"off", "run"}] \cup Saving]
      /\ \A j \in Lives : saver'[j] \in Saving => saver'[j] = saver[j]
  BY <1>1, <1>2, <1>4, NewIsTyped
<1>6. [pc |-> "swap", life |-> l] \in Changing
  BY <1>2 DEF Changing
<1>7. Typing' /\ NoCallIsLate'
  BY <1>1, <1>3, <1>5, <1>6 DEF IInv, Typing, NoCallIsLate
<1> QED BY <1>2, <1>3, <1>5, <1>7, NewLifeKeeps

LEMMA BootKeeps == ASSUME IInv, Boot PROVE IInv'
<1>1. PICK l \in Unbuilt : New(l, NoSavers) /\ active' = l
  BY DEF Boot
<1>2. l \in Lives /\ kind[l] = "none"
  BY DEF Unbuilt
<1>3. /\ UNCHANGED <<clock, settings, store, granted>>
      /\ call' = [c \in Calls |-> Idle] /\ reload' = [h \in Handlers |-> Idle]
  BY DEF Boot, ghosts
<1>4. /\ NoSavers \in [Lives -> [pc : {"off", "run"}] \cup Saving]
      /\ \A j \in Lives : NoSavers[j] \notin Saving
  BY DEF NoSavers, Saving
<1>5. /\ kind' \in [Lives -> {"none", "memory", "redis", "off"}]
      /\ \A j \in Lives \ {l} : kind'[j] = kind[j] /\ buckets'[j] = buckets[j]
      /\ buckets' \in [Lives -> [IPs -> AnyBucket]]
      /\ AllSound(buckets'[l], clock)
      /\ saver' \in [Lives -> [pc : {"off", "run"}] \cup Saving]
      /\ \A j \in Lives : saver'[j] \in Saving => saver'[j] = NoSavers[j]
  BY <1>1, <1>2, <1>4, NewIsTyped
<1>6. Typing' /\ NoCallIsLate'
  <2>1. Idle \in [pc : {"idle", "build"}] /\ Idle \notin Stamped
    BY DEF Idle, Stamped
  <2> QED BY <1>1, <1>2, <1>3, <1>5, <2>1 DEF IInv, Typing, NoCallIsLate
<1> QED BY <1>2, <1>3, <1>4, <1>5, <1>6, NewLifeKeeps

LEMMA ExitKeeps == ASSUME IInv, Exit PROVE IInv'
<1>1. UNCHANGED <<clock, active, settings, kind, buckets, store, reload, saver,
                 call, granted>>
  BY DEF Exit, ghosts
<1>2. Typing' /\ NoCallIsLate'
  BY <1>1 DEF IInv, Typing, NoCallIsLate
<1> QED BY <1>1, <1>2, QuietStep

LEMMA TickKeeps == ASSUME IInv, Tick PROVE IInv'
<1> DEFINE m == clock
           n == clock + 1
<1>1. /\ clock < MaxClock /\ clock' = n
      /\ \A c \in Calls : call[c].pc = "stamped" => m - call[c].at < MaxLag
      /\ UNCHANGED <<active, settings, kind, buckets, store, reload, saver,
                     call, granted>>
  BY DEF Tick, limiterVars, ghosts
<1>2. m \in Nat /\ n \in Nat /\ m <= n /\ n \in Times
  BY <1>1, ConstantsAreNat DEF IInv, Typing, Times
<1>3. Typing'
  BY <1>1, <1>2 DEF IInv, Typing
<1>4. NoCallIsLate'
  <2> SUFFICES ASSUME NEW c \in Calls, call[c] \in Stamped
               PROVE  call[c].at <= n /\ n - call[c].at <= MaxLag
    BY <1>1 DEF NoCallIsLate
  <2>1. call[c].pc = "stamped" /\ call[c].at \in Nat
    BY ConstantsAreNat DEF Stamped
  <2>2. call[c].at <= m
    BY DEF IInv, NoCallIsLate
  <2>3. m - call[c].at < MaxLag /\ MaxLag \in Nat
    BY <1>1, <2>1, ConstantsAreNat
  <2> QED BY <1>2, <2>1, <2>2, <2>3
<1> HIDE DEF m, n
<1>5. \A bs \in [IPs -> AnyBucket] : AllSound(bs, m) => AllSound(bs, n)
  BY <1>2, SoundLater DEF AllSound
<1>6. EveryBucketIsSound'
  <2>1. /\ \A l \in Lives : AllSound(buckets[l], m) /\ buckets[l] \in [IPs -> AnyBucket]
        /\ AllSound(store, m) /\ store \in [IPs -> AnyBucket]
        /\ \A l \in Lives : saver[l] \in Saving =>
             AllSound(saver[l].snap, m) /\ saver[l].snap \in [IPs -> AnyBucket]
    BY DEF IInv, Typing, EveryBucketIsSound, Saving, m
  <2>2. /\ \A l \in Lives : AllSound(buckets[l], n)
        /\ AllSound(store, n)
        /\ \A l \in Lives : saver[l] \in Saving => AllSound(saver[l].snap, n)
    BY <1>5, <2>1
  <2> QED BY <1>1, <2>2 DEF EveryBucketIsSound, AllSound
<1>7. EverySpentIsOnTheLine'
  <2> SUFFICES ASSUME NEW l \in Lives, NEW i \in IPs, NEW s \in Times
               PROVE  Spent(granted[l][i][From(s)], buckets[l][i], n, s)
    BY <1>1 DEF EverySpentIsOnTheLine
  <2>1. /\ granted[l][i][From(s)] \in Nat /\ s \in Nat
        /\ buckets[l][i] \in AnyBucket
    BY ConstantsAreNat DEF IInv, Typing
  <2>2. Spent(granted[l][i][From(s)], buckets[l][i], m, s)
    BY DEF IInv, EverySpentIsOnTheLine, m
  <2> QED BY <1>2, <2>1, <2>2, SpentLater
<1>8. CountsAreOrdered' /\ NothingBeforeItIsBuilt' /\ MemoryBound'
  BY <1>1 DEF IInv, CountsAreOrdered, NothingBeforeItIsBuilt, MemoryBound,
              Bounded
<1> QED BY <1>3, <1>4, <1>6, <1>7, <1>8 DEF IInv

LEMMA StutterKeeps == ASSUME IInv, UNCHANGED vars PROVE IInv'
<1>1. UNCHANGED <<clock, active, settings, kind, buckets, store, reload, saver,
                 call, granted>>
  BY DEF vars
<1>2. Typing' /\ NoCallIsLate'
  BY <1>1 DEF IInv, Typing, NoCallIsLate
<1> QED BY <1>1, <1>2, QuietStep

\* What no limiter in memory exceeds, whatever the order of calls, evictions,
\* saves, changes of the settings and restarts (Limiter.allow, evictIdle,
\* RestoreFrom, buildRateLimit): the burst and what is refilled meanwhile.
THEOREM MemoryBoundHolds ==
  ASSUME SlowestRefillIsCovered, OneScaleOrNoLag
  PROVE  Spec => []MemoryBound
<1>1. Init => IInv
  BY InitHolds
<1>2. IInv /\ [Next]_vars => IInv'
  <2> SUFFICES ASSUME IInv, [Next]_vars PROVE IInv'
    OBVIOUS
  <2>1. ASSUME NEW c \in Calls, Request(c) PROVE IInv'
    BY <2>1, BeginKeeps, FailOpenKeeps, TakeKeeps, ScriptKeeps DEF Request
  <2>2. ASSUME NEW h \in Handlers, Change(h) PROVE IInv'
    BY <2>2, ChangesKeep, BuildKeeps DEF Change
  <2>3. ASSUME NEW l \in Lives, Background(l) PROVE IInv'
    BY <2>3, EvictKeeps, SnapshotKeeps, WriteKeeps DEF Background
  <2> QED BY <2>1, <2>2, <2>3, ExitKeeps, BootKeeps, TickKeeps, StutterKeeps
          DEF Next
<1>3. IInv => MemoryBound
  BY DEF IInv
<1> QED BY <1>1, <1>2, <1>3, PTL DEF Spec

-----------------------------------------------------------------------------
(***************************************************************************)
(* What Retry-After promises.  A denial leaves the bucket on the line that *)
(* reaches one token by a second after the time told, and a later denial   *)
(* at the same scale does not leave that line, however late it is: less    *)
(* than a token is never cut by the cap.  Every other decision about the   *)
(* address ends the promise, and a bucket that was evicted is full.        *)
(***************************************************************************)

Kept(p, b) ==
  Missing(b) \/ One <= b.tokens + RateAt(p.scale) * ((p.told + 1) - b.last)

PromisesKept ==
  \A i \in IPs : promise[i].life \in Lives =>
    /\ promise[i].scale \in Scales /\ promise[i].told \in Int
    /\ kind[promise[i].life] # "none"
    /\ Kept(promise[i], buckets[promise[i].life][i])

RetryInv == Typing /\ promise = [i \in IPs |-> promise[i]] /\ PromisesKept

LEMMA RateIsPositive ==
  \A s \in Scales : RateAt(s) \in Nat \ {0} /\ BurstAt(s) \in Nat /\ One <= BurstAt(s)
                    /\ One \in Nat \ {0}
<1> SUFFICES ASSUME NEW s \in Scales
             PROVE  RateAt(s) \in Nat \ {0} /\ BurstAt(s) \in Nat
                    /\ One <= BurstAt(s) /\ One \in Nat \ {0}
  OBVIOUS
<1>1. Effective(s) \in Nat \ {0}
  BY TopIsLargest, BucketAssumption
<1>2. \A a, k \in Nat \ {0} : k * a \in Nat \ {0}
  OBVIOUS
<1>3. RateAt(s) \in Nat \ {0}
  BY <1>1, <1>2, BucketAssumption DEF RateAt
<1> QED BY <1>3, RatesAndBursts, CostFacts

\* A second more than what a client is told is long enough.
LEMMA ToldIsNearlyEnough ==
  ASSUME NEW s \in Scales, NEW t \in Int
  PROVE  /\ Told(t, s) \in Int
         /\ One <= t + RateAt(s) * (Told(t, s) + 1)
<1> DEFINE R == RateAt(s)
           x == One - t
           q == x \div R
<1>1. R \in Nat \ {0} /\ One \in Nat
  BY RateIsPositive
<1> HIDE DEF R
<1>2. x \in Int
  BY <1>1
<1> HIDE DEF x
<1>3. q \in Int /\ x < R * q + R /\ R * q \in Int
  BY <1>1, <1>2
<1> HIDE DEF q
<1>4. R * (q + 1) = R * q + R
  BY <1>1, <1>3
<1>5. One <= t + R * (q + 1)
  BY <1>1, <1>3, <1>4 DEF x
<1>6. CASE q < 1
  <2>1. Told(t, s) = 1
    BY <1>6 DEF Told, R, x, q
  <2>2. R * q <= 0
    BY <1>1, <1>3, <1>6
  <2>3. One <= t + R * 2
    BY <1>1, <1>3, <2>2 DEF x
  <2> QED BY <2>1, <2>3 DEF R
<1>7. CASE ~(q < 1)
  <2>1. Told(t, s) = q
    BY <1>7 DEF Told, R, x, q
  <2> QED BY <1>3, <1>5, <2>1 DEF R
<1> QED BY <1>6, <1>7

\* A line at three points.
LEMMA LineMoves ==
  ASSUME NEW s \in Scales, NEW a \in Int, NEW b \in Int, NEW d \in Int
  PROVE  /\ RateAt(s) * (b - a) \in Int
         /\ RateAt(s) * (b - a) + RateAt(s) * (d - b) = RateAt(s) * (d - a)
         /\ b <= d => RateAt(s) * (b - a) <= RateAt(s) * (d - a)
<1> DEFINE R == RateAt(s)
<1>1. R \in Nat
  BY RateIsPositive
<1> HIDE DEF R
<1>2. \A x, y \in Int : /\ R * x \in Int /\ R * x + R * y = R * (x + y)
                        /\ x <= y => R * x <= R * y
  BY <1>1
<1>3. /\ b - a \in Int /\ d - b \in Int /\ d - a \in Int
      /\ (b - a) + (d - b) = d - a /\ (b <= d => b - a <= d - a)
  OBVIOUS
<1>4. R * (b - a) + R * (d - b) = R * ((b - a) + (d - b))
  BY <1>2, <1>3
<1>5. R * (b - a) \in Int /\ (b <= d => R * (b - a) <= R * (d - a))
  BY <1>2, <1>3
<1> QED BY <1>3, <1>4, <1>5 DEF R

\* What a decision at time n finds, and what it leaves.
LEMMA RefillKeepsPromise ==
  ASSUME NEW b \in AnyBucket, NEW s \in Scales, NEW n \in Nat, NEW D \in Int,
         Missing(b) \/ One <= b.tokens + RateAt(s) * (D - b.last)
  PROVE  LET t == Refilled(b, n, s) IN
         /\ n >= D => ~(t < One)
         /\ t < One => One <= t + RateAt(s) * (D - n)
<1> DEFINE t == Refilled(b, n, s)
           r == RateAt(s) * (n - b.last)
           rest == RateAt(s) * (D - n)
           all == RateAt(s) * (D - b.last)
<1>1. BurstAt(s) \in Nat /\ One <= BurstAt(s) /\ One \in Nat \ {0}
  BY RateIsPositive
<1>2. CASE Missing(b)
  BY <1>1, <1>2 DEF Refilled
<1>3. CASE ~Missing(b)
  <2>1. b.tokens \in Int /\ b.last \in Nat
    BY <1>3, PresentIsBucket
  <2>2. r \in Int /\ rest \in Int /\ r + rest = all /\ (D <= n => all <= r)
    <3>1. b.last \in Int /\ n \in Int
      BY <2>1
    <3>2. r \in Int /\ r + rest = all
      BY <3>1, LineMoves
    <3>3. rest \in Int
      BY <3>1, LineMoves
    <3>4. D <= n => all <= r
      BY <3>1, LineMoves
    <3> QED BY <3>2, <3>3, <3>4
  <2>3. One <= b.tokens + all
    BY <1>3
  <2>4. t = IF b.tokens + r > BurstAt(s) THEN BurstAt(s) ELSE b.tokens + r
    BY <1>3 DEF Refilled, Capped
  <2> HIDE DEF t, r, rest, all
  <2>5. (n >= D => ~(t < One)) /\ (t < One => One <= t + rest)
    BY <1>1, <2>1, <2>2, <2>3, <2>4
  <2> QED BY <2>5 DEF t, rest
<1> QED BY <1>2, <1>3

-----------------------------------------------------------------------------
(* The types alone, whatever the scales and the rates.                      *)

LEMMA StampedIs ==
  ASSUME Typing, NEW c \in Calls, call[c].pc = "stamped"
  PROVE  /\ call[c] \in Stamped
         /\ call[c].ip \in IPs /\ call[c].scale \in Scales
         /\ call[c].life \in Lives /\ call[c].at \in Nat
<1>1. call[c] \in Stamped
  BY DEF Typing, Idle
<1> QED BY <1>1, ConstantsAreNat DEF Stamped

LEMMA LeftIsBucket ==
  ASSUME NEW t \in Int, NEW n \in Nat
  PROVE  Left(t, n) \in AnyBucket /\ ~Missing(Left(t, n))
<1>1. (IF t < One THEN t ELSE t - One) \in Int
  BY CostFacts
<1> QED BY <1>1 DEF Left, AnyBucket, Bucket, Missing

LEMMA RefilledIsInt ==
  ASSUME NEW b \in AnyBucket, NEW s \in Scales, NEW n \in Nat
  PROVE  Refilled(b, n, s) \in Int
<1>1. BurstAt(s) \in Nat
  BY RateIsPositive
<1>2. CASE Missing(b)
  BY <1>1, <1>2 DEF Refilled
<1>3. CASE ~Missing(b)
  <2>1. b.tokens \in Int /\ b.last \in Int /\ n \in Int
    BY <1>3, PresentIsBucket
  <2>2. RateAt(s) * (n - b.last) \in Int
    BY <2>1, LineMoves
  <2> DEFINE r == RateAt(s) * (n - b.last)
  <2>3. Refilled(b, n, s) = IF b.tokens + r > BurstAt(s) THEN BurstAt(s) ELSE b.tokens + r
    BY <1>3 DEF Refilled, Capped
  <2> HIDE DEF r
  <2>4. r \in Int
    BY <2>2 DEF r
  <2> QED BY <1>1, <2>1, <2>3, <2>4
<1> QED BY <1>2, <1>3

LEMMA BucketsTyped ==
  /\ NoBuckets \in [IPs -> AnyBucket]
  /\ \A bs \in [IPs -> AnyBucket] : WithoutIdle(bs) \in [IPs -> AnyBucket]
  BY DEF NoBuckets, NoBucket, AnyBucket, WithoutIdle

LEMMA NewKeepsTypes ==
  ASSUME Typing, NEW l \in Lives,
         NEW savers \in [Lives -> [pc : {"off", "run"}] \cup Saving],
         New(l, savers)
  PROVE  /\ kind' \in [Lives -> {"none", "memory", "redis", "off"}]
         /\ kind'[l] # "none"
         /\ \A j \in Lives \ {l} : kind'[j] = kind[j] /\ buckets'[j] = buckets[j]
         /\ buckets' \in [Lives -> [IPs -> AnyBucket]]
         /\ saver' \in [Lives -> [pc : {"off", "run"}] \cup Saving]
<1>1. Restored \in [IPs -> AnyBucket]
  BY DEF Typing, Restored, AnyBucket
<1>2. PICK k \in Connected(settings) :
        /\ kind' = [kind EXCEPT ![l] = k]
        /\ \E bs \in IF k = "memory" THEN Loaded ELSE {NoBuckets} :
             buckets' = [buckets EXCEPT ![l] = bs]
        /\ saver' = IF k = "memory" THEN [savers EXCEPT ![l] = [pc |-> "run"]]
                                    ELSE savers
  BY DEF New
<1>3. PICK bs \in {Restored, NoBuckets} : buckets' = [buckets EXCEPT ![l] = bs]
  BY <1>2 DEF Loaded
<1>4. k \in {"memory", "redis", "off"}
  BY <1>2, RateLimitAssumption DEF Typing, Connected
<1>5. bs \in [IPs -> AnyBucket]
  BY <1>1, <1>3, BucketsTyped
<1>6. /\ kind' \in [Lives -> {"none", "memory", "redis", "off"}]
      /\ kind'[l] # "none" /\ \A j \in Lives \ {l} : kind'[j] = kind[j]
  BY <1>2, <1>4 DEF Typing
<1>7. /\ buckets' \in [Lives -> [IPs -> AnyBucket]]
      /\ \A j \in Lives \ {l} : buckets'[j] = buckets[j]
  BY <1>3, <1>5 DEF Typing
<1>8. [pc |-> "run"] \in [pc : {"off", "run"}]
  OBVIOUS
<1>9. saver' \in [Lives -> [pc : {"off", "run"}] \cup Saving]
  BY <1>2, <1>8
<1> QED BY <1>6, <1>7, <1>9

\* Steps by groups of the variables they leave alone.
LEMMA TypesOfCalls ==
  ASSUME Typing, NEW c \in Calls, Request(c) PROVE Typing'
<1>1. Idle \in {Idle} \cup Stamped
  OBVIOUS
<1>2. CASE Begin(c)
  <2>1. PICK i \in IPs, s \in Scales :
          call' = [call EXCEPT ![c] = [pc |-> "stamped", ip |-> i, scale |-> s,
                                       life |-> active, at |-> clock]]
    BY <1>2 DEF Begin
  <2> DEFINE q == [pc |-> "stamped", ip |-> i, scale |-> s, life |-> active,
                   at |-> clock]
  <2>2. q \in {Idle} \cup Stamped
    BY DEF Typing, Stamped
  <2>3. call' = [call EXCEPT ![c] = q]
    BY <2>1
  <2> HIDE DEF q
  <2>4. call' \in [Calls -> {Idle} \cup Stamped]
    BY <2>2, <2>3 DEF Typing
  <2> QED BY <1>2, <2>4 DEF Begin, limiterVars, ghosts, Typing
<1>3. ASSUME call' = [call EXCEPT ![c] = Idle]
      PROVE  call' \in [Calls -> {Idle} \cup Stamped]
  BY <1>1, <1>3 DEF Typing
<1>4. CASE FailOpen(c)
  BY <1>3, <1>4 DEF FailOpen, limiterVars, ghosts, Typing
<1>5. ASSUME NEW l \in 0..MaxLives, call[c].pc = "stamped",
             granted' = granted \/ Count(l, call[c].ip, call[c].at)
      PROVE  granted' \in [0..MaxLives -> [IPs -> [Windows -> Nat]]]
  <2>1. call[c].ip \in IPs /\ call[c].at \in Nat
    BY <1>5, StampedIs
  <2>2. CASE granted' = granted
    BY <2>2 DEF Typing
  <2>3. CASE Count(l, call[c].ip, call[c].at)
    BY <2>1, <2>3, CountIsTyped
  <2> QED BY <1>5, <2>2, <2>3
<1>6. CASE Take(c)
  <2> DEFINE q == call[c]
             b == buckets[q.life][q.ip]
             t == Refilled(b, q.at, q.scale)
  <2>1. /\ q.pc = "stamped" /\ call' = [call EXCEPT ![c] = Idle]
        /\ buckets' = [buckets EXCEPT ![q.life][q.ip] = Left(t, q.at)]
        /\ granted' = granted \/ Count(q.life, q.ip, q.at)
        /\ UNCHANGED <<clock, active, settings, kind, store, reload, saver>>
    BY <1>6 DEF Take, Decide
  <2>2. q.ip \in IPs /\ q.scale \in Scales /\ q.life \in Lives /\ q.at \in Nat
    BY <2>1, StampedIs
  <2>3. b \in AnyBucket
    BY <2>2 DEF Typing
  <2>4. Left(t, q.at) \in AnyBucket
    <3>1. t \in Int
      BY <2>2, <2>3, RefilledIsInt
    <3> HIDE DEF t
    <3> QED BY <2>2, <3>1, LeftIsBucket
  <2>5. granted' \in [0..MaxLives -> [IPs -> [Windows -> Nat]]]
    <3>1. q.life \in 0..MaxLives
      BY <2>2, ConstantsAreNat
    <3> QED BY <1>5, <2>1, <3>1
  <2>6. call' \in [Calls -> {Idle} \cup Stamped]
    BY <1>3, <2>1
  <2> HIDE DEF t, b, q
  <2>7. buckets' \in [Lives -> [IPs -> AnyBucket]]
    BY <2>1, <2>2, <2>4 DEF Typing
  <2> QED BY <2>1, <2>5, <2>6, <2>7 DEF Typing
<1>7. CASE Script(c)
  <2>1. /\ call[c].pc = "stamped" /\ call' = [call EXCEPT ![c] = Idle]
        /\ granted' = granted \/ Count(0, call[c].ip, call[c].at)
        /\ UNCHANGED <<clock, active, settings, kind, buckets, store, reload,
                       saver>>
    BY <1>7 DEF Script, Decide, limiterVars
  <2>2. granted' \in [0..MaxLives -> [IPs -> [Windows -> Nat]]]
    <3>1. 0 \in 0..MaxLives
      BY ConstantsAreNat
    <3> QED BY <1>5, <2>1, <3>1
  <2>3. call' \in [Calls -> {Idle} \cup Stamped]
    BY <1>3, <2>1
  <2> QED BY <2>1, <2>2, <2>3 DEF Typing
<1> QED BY <1>2, <1>4, <1>6, <1>7 DEF Request

LEMMA TypesOfChanges ==
  ASSUME Typing, NEW h \in Handlers, Change(h) PROVE Typing'
<1>1. ASSUME NEW v \in [pc : {"idle", "build"}] \cup Changing,
             reload' = [reload EXCEPT ![h] = v]
      PROVE  reload' \in [Handlers -> [pc : {"idle", "build"}] \cup Changing]
  BY <1>1 DEF Typing
<1>2. ASSUME NEW k \in Kinds, SaveSettings(h, k) PROVE Typing'
  <2>1. [pc |-> "build"] \in [pc : {"idle", "build"}] \cup Changing
    OBVIOUS
  <2> QED BY <1>1, <1>2, <2>1 DEF SaveSettings, limiterVars, ghosts, Typing
<1>3. CASE Build(h)
  <2>1. PICK l \in Unbuilt :
          /\ New(l, saver)
          /\ reload' = [reload EXCEPT ![h] = [pc |-> "swap", life |-> l]]
    BY <1>3 DEF Build
  <2>2. l \in Lives
    BY DEF Unbuilt
  <2>3. [pc |-> "swap", life |-> l] \in [pc : {"idle", "build"}] \cup Changing
    BY <2>2 DEF Changing
  <2>4. saver \in [Lives -> [pc : {"off", "run"}] \cup Saving]
    BY DEF Typing
  <2>5. /\ kind' \in [Lives -> {"none", "memory", "redis", "off"}]
        /\ buckets' \in [Lives -> [IPs -> AnyBucket]]
        /\ saver' \in [Lives -> [pc : {"off", "run"}] \cup Saving]
    BY <2>1, <2>2, <2>4, NewKeepsTypes
  <2>6. reload' \in [Handlers -> [pc : {"idle", "build"}] \cup Changing]
    BY <1>1, <2>1, <2>3
  <2> QED BY <1>3, <2>5, <2>6 DEF Build, ghosts, Typing
<1>4. CASE Swap(h)
  <2>1. [pc |-> "stop", life |-> active] \in [pc : {"idle", "build"}] \cup Changing
    BY DEF Typing, Changing
  <2>2. reload[h].life \in Lives
    BY <1>4 DEF Swap, Typing, Changing
  <2> QED BY <1>1, <1>4, <2>1, <2>2 DEF Swap, ghosts, Typing
<1>5. CASE StopOld(h)
  <2>1. Idle \in [pc : {"idle", "build"}] \cup Changing
    BY DEF Idle
  <2> QED BY <1>1, <1>5, <2>1 DEF StopOld, ghosts, Typing
<1> QED BY <1>2, <1>3, <1>4, <1>5 DEF Change

LEMMA TypesInBackground ==
  ASSUME Typing, NEW l \in Lives, Background(l) PROVE Typing'
<1>1. buckets[l] \in [IPs -> AnyBucket] /\ store \in [IPs -> AnyBucket]
  BY DEF Typing
<1>2. CASE Evict(l)
  <2>1. WithoutIdle(buckets[l]) \in [IPs -> AnyBucket]
    BY <1>1, BucketsTyped
  <2>2. buckets' = [buckets EXCEPT ![l] = WithoutIdle(buckets[l])]
    BY <1>2 DEF Evict
  <2> QED BY <1>2, <2>1, <2>2 DEF Evict, ghosts, Typing
<1>3. ASSUME NEW v \in [pc : {"off", "run"}] \cup Saving,
             saver' = [saver EXCEPT ![l] = v]
      PROVE  saver' \in [Lives -> [pc : {"off", "run"}] \cup Saving]
  BY <1>3 DEF Typing
<1>4. ASSUME NEW last \in BOOLEAN, Snapshot(l, last) PROVE Typing'
  <2> DEFINE v == [pc |-> IF last THEN "last" ELSE "write", snap |-> buckets[l]]
  <2>1. v \in [pc : {"off", "run"}] \cup Saving
    BY <1>1 DEF Saving
  <2>2. saver' = [saver EXCEPT ![l] = v]
    BY <1>4 DEF Snapshot
  <2> HIDE DEF v
  <2> QED BY <1>3, <1>4, <2>1, <2>2 DEF Snapshot, limiterVars, ghosts, Typing
<1>5. ASSUME NEW ok \in BOOLEAN, NEW purge \in BOOLEAN, Write(l, ok, purge)
      PROVE  Typing'
  <2> DEFINE v == [pc |-> IF saver[l].pc = "last" THEN "off" ELSE "run"]
  <2>1. v \in [pc : {"off", "run"}] \cup Saving
    OBVIOUS
  <2>2. /\ saver' = [saver EXCEPT ![l] = v]
        /\ saver[l].pc \in {"write", "last"}
        /\ store' = Purged(Saved(saver[l].snap, ok), purge)
    BY <1>5 DEF Write, Typing
  <2>3. saver[l].snap \in [IPs -> AnyBucket]
    BY <2>2 DEF Typing, Saving
  <2>4. store' \in [IPs -> AnyBucket]
    BY <1>1, <2>2, <2>3, BucketsTyped DEF Purged, Saved
  <2> HIDE DEF v
  <2> QED BY <1>3, <1>5, <2>1, <2>2, <2>4 DEF Write, limiterVars, ghosts, Typing
<1> QED BY <1>2, <1>4, <1>5 DEF Background

LEMMA TypesElsewhere ==
  ASSUME Typing, Exit \/ Boot \/ Tick \/ UNCHANGED vars PROVE Typing'
<1>1. CASE Exit
  BY <1>1 DEF Exit, ghosts, Typing
<1>2. CASE Boot
  <2>1. PICK l \in Unbuilt : New(l, NoSavers) /\ active' = l
    BY <1>2 DEF Boot
  <2>2. l \in Lives
    BY DEF Unbuilt
  <2>3. NoSavers \in [Lives -> [pc : {"off", "run"}] \cup Saving]
    BY DEF NoSavers
  <2>4. /\ kind' \in [Lives -> {"none", "memory", "redis", "off"}]
        /\ buckets' \in [Lives -> [IPs -> AnyBucket]]
        /\ saver' \in [Lives -> [pc : {"off", "run"}] \cup Saving]
    BY <2>1, <2>2, <2>3, NewKeepsTypes
  <2>5. Idle \in [pc : {"idle", "build"}]
    BY DEF Idle
  <2> QED BY <1>2, <2>1, <2>2, <2>4, <2>5 DEF Boot, ghosts, Typing
<1>3. CASE Tick
  <2>1. clock' \in Times
    BY <1>3, ConstantsAreNat DEF Tick, Typing, Times
  <2> QED BY <1>3, <2>1 DEF Tick, limiterVars, ghosts, Typing
<1>4. CASE UNCHANGED vars
  BY <1>4 DEF vars, Typing
<1> QED BY <1>1, <1>2, <1>3, <1>4

\* Steps that decide nothing and change no bucket but those of a life that is
\* just built.
LEMMA PromisesRest ==
  ASSUME RetryInv, Typing', promise' = promise,
         \A l \in Lives : kind[l] # "none" =>
           /\ kind'[l] # "none"
           /\ \A i \in IPs : buckets'[l][i] \in {buckets[l][i], NoBucket}
  PROVE  RetryInv'
<1>1. Missing(NoBucket)
  BY DEF Missing, NoBucket
<1>2. ASSUME NEW i \in IPs, promise[i].life \in Lives
      PROVE  /\ promise[i].scale \in Scales /\ promise[i].told \in Int
             /\ kind'[promise[i].life] # "none"
             /\ Kept(promise[i], buckets'[promise[i].life][i])
  BY <1>1, <1>2 DEF RetryInv, PromisesKept, Kept
<1>3. PromisesKept'
  BY <1>2 DEF PromisesKept, Kept, RateAt, Effective
<1> QED BY <1>3 DEF RetryInv

\* The new promise, if a decision on t tokens at time n makes one.
LEMMA DecidePromises ==
  ASSUME RetryInv, NEW L, NEW I \in IPs, NEW s, NEW n, NEW t, Decide(L, I, s, n, t)
  PROVE  /\ promise' = [i \in IPs |-> promise'[i]]
         /\ \A i \in IPs \ {I} : promise'[i] = promise[i]
         /\ ~(t < One) => promise'[I] = NoPromise
         /\ t < One => \/ /\ promise'[I] = promise[I]
                          /\ promise[I].life = L /\ promise[I].scale = s
                       \/ promise'[I] =
                            [life |-> L, scale |-> s, told |-> n + Told(t, s)]
<1>1. promise = [i \in IPs |-> promise[i]]
  BY DEF RetryInv
<1>2. ASSUME NEW p, promise' = [promise EXCEPT ![I] = p]
      PROVE  /\ promise' = [i \in IPs |-> promise'[i]]
             /\ promise'[I] = p /\ \A i \in IPs \ {I} : promise'[i] = promise[i]
  BY <1>1, <1>2
<1>3. CASE t < One
  <2> DEFINE p == [life |-> L, scale |-> s, told |-> n + Told(t, s)]
  <2>1. \/ promise' = promise /\ promise[I].life = L /\ promise[I].scale = s
        \/ promise' = [promise EXCEPT ![I] = p]
    BY <1>3 DEF Decide
  <2> HIDE DEF p
  <2>2. CASE promise' = promise /\ promise[I].life = L /\ promise[I].scale = s
    BY <1>1, <1>3, <2>2
  <2>3. CASE promise' = [promise EXCEPT ![I] = p]
    <3>1. /\ promise' = [i \in IPs |-> promise'[i]]
          /\ promise'[I] = p /\ \A i \in IPs \ {I} : promise'[i] = promise[i]
      BY <1>2, <2>3
    <3> QED BY <1>3, <3>1 DEF p
  <2> QED BY <2>1, <2>2, <2>3
<1>4. CASE ~(t < One)
  <2>1. promise' = [promise EXCEPT ![I] = NoPromise]
    BY <1>4 DEF Decide
  <2> QED BY <1>2, <1>4, <2>1
<1> QED BY <1>3, <1>4

LEMMA TakeKeepsPromises ==
  ASSUME RetryInv, NEW c \in Calls, Take(c)
  PROVE  /\ PromisesKept' /\ promise' = [i \in IPs |-> promise'[i]]
         /\ Due(call[c]) => promise'[call[c].ip] = NoPromise
<1> DEFINE q == call[c]
           L == q.life
           I == q.ip
           n == q.at
           s == q.scale
           b == buckets[L][I]
           t == Refilled(b, n, s)
<1>0. Typing
  BY DEF RetryInv
<1>1. /\ q.pc = "stamped" /\ kind[L] = "memory" /\ kind' = kind
      /\ buckets' = [buckets EXCEPT ![L][I] = Left(t, n)]
      /\ Decide(L, I, s, n, t)
  BY DEF Take
<1>2. I \in IPs /\ s \in Scales /\ L \in Lives /\ n \in Nat /\ L \in 0..MaxLives
  BY <1>0, <1>1, StampedIs, ConstantsAreNat
<1>3. b \in AnyBucket
  BY <1>0, <1>2 DEF Typing
<1>4. t \in Int
  BY <1>2, <1>3, RefilledIsInt
<1>5. \A l \in Lives, i \in IPs :
        buckets'[l][i] = IF l = L /\ i = I THEN Left(t, n) ELSE buckets[l][i]
  BY <1>0, <1>1, <1>2 DEF Typing
\* What the bucket says of a promise made before.
<1>6. ASSUME promise[I].life = L, promise[I].scale = s
      PROVE  /\ n > promise[I].told => ~(t < One)
             /\ t < One => One <= t + RateAt(s) * ((promise[I].told + 1) - n)
  <2>1. promise[I].told \in Int
    BY <1>2, <1>6 DEF RetryInv, PromisesKept
  <2>2. Missing(b) \/ One <= b.tokens + RateAt(s) * ((promise[I].told + 1) - b.last)
    BY <1>2, <1>6 DEF RetryInv, PromisesKept, Kept
  <2> HIDE DEF b, n, s, q, L, I
  <2>3. PICK D \in Int : D = promise[I].told + 1
    BY <2>1
  <2>4. (n >= D => ~(t < One)) /\ (t < One => One <= t + RateAt(s) * (D - n))
    BY <1>2, <1>3, <2>2, <2>3, RefillKeepsPromise DEF t
  <2>5. n > promise[I].told => n >= D
    BY <1>2, <2>1, <2>3
  <2> QED BY <2>3, <2>4, <2>5
<1> HIDE DEF t
<1>7. /\ promise' = [i \in IPs |-> promise'[i]]
      /\ \A i \in IPs \ {I} : promise'[i] = promise[i]
      /\ ~(t < One) => promise'[I] = NoPromise
      /\ t < One => \/ /\ promise'[I] = promise[I]
                       /\ promise[I].life = L /\ promise[I].scale = s
                    \/ promise'[I] =
                         [life |-> L, scale |-> s, told |-> n + Told(t, s)]
  <2> HIDE DEF n, s, q, L, I
  <2> QED BY <1>1, <1>2, DecidePromises
<1>8. One \in Nat
  BY CostFacts
<1>9. Due(q) => promise'[I] = NoPromise
  <2> SUFFICES ASSUME Due(q) PROVE ~(t < One)
    BY <1>7
  <2>1. promise[I].life = L /\ promise[I].scale = s /\ n > promise[I].told
    BY DEF Due
  <2> QED BY <1>4, <1>6, <1>8, <2>1
<1>10. ASSUME t < One
       PROVE  /\ promise'[I].scale = s /\ promise'[I].life = L
              /\ promise'[I].told \in Int
              /\ One <= t + RateAt(s) * ((promise'[I].told + 1) - n)
  <2>1. CASE promise'[I] = promise[I] /\ promise[I].life = L /\ promise[I].scale = s
    <3>1. promise[I].told \in Int
      BY <1>2, <2>1 DEF RetryInv, PromisesKept
    <3> QED BY <1>6, <1>10, <2>1, <3>1
  <2>2. CASE promise'[I] = [life |-> L, scale |-> s, told |-> n + Told(t, s)]
    <3>1. Told(t, s) \in Int /\ One <= t + RateAt(s) * (Told(t, s) + 1)
      BY <1>2, <1>4, ToldIsNearlyEnough
    <3>2. promise'[I].told = n + Told(t, s) /\ promise'[I].scale = s /\ promise'[I].life = L
      BY <2>2
    <3> HIDE DEF n, s, q, L, I
    <3>3. (promise'[I].told + 1) - n = Told(t, s) + 1 /\ promise'[I].told \in Int
      BY <1>2, <3>1, <3>2
    <3> QED BY <3>1, <3>2, <3>3
  <2> QED BY <1>7, <1>10, <2>1, <2>2
<1>11. PromisesKept'
  <2> HIDE DEF n, s, q, L, I, b
  <2>1. ASSUME NEW i \in IPs, promise'[i].life \in Lives
        PROVE  /\ promise'[i].scale \in Scales /\ promise'[i].told \in Int
               /\ kind'[promise'[i].life] # "none"
               /\ Kept(promise'[i], buckets'[promise'[i].life][i])
    <3>1. CASE i = I
      <4>1. t < One
        <5>1. 0 \notin Lives
          BY DEF Lives
        <5> QED BY <1>7, <2>1, <3>1, <5>1 DEF NoPromise
      <4>2. promise'[i].scale = s /\ promise'[i].life = L
            /\ promise'[i].told \in Int
            /\ One <= t + RateAt(s) * ((promise'[i].told + 1) - n)
        BY <1>10, <3>1, <4>1
      <4>3. Left(t, n).tokens = t /\ Left(t, n).last = n
        BY <4>1 DEF Left
      <4>4. buckets'[L][i] = Left(t, n)
        BY <1>2, <1>5, <3>1
      <4>5. Kept(promise'[i], buckets'[L][i])
        BY <4>2, <4>3, <4>4 DEF Kept
      <4> QED BY <1>1, <1>2, <4>2, <4>5
    <3>2. CASE i # I
      <4>1. promise'[i] = promise[i]
        BY <1>7, <3>2
      <4>2. buckets'[promise[i].life][i] = buckets[promise[i].life][i]
        BY <1>5, <2>1, <3>2, <4>1
      <4> QED BY <1>1, <2>1, <4>1, <4>2 DEF RetryInv, PromisesKept
    <3> QED BY <3>1, <3>2
  <2> QED BY <2>1 DEF PromisesKept, Kept, RateAt, Effective
<1> QED BY <1>7, <1>9, <1>11

\* A decision of Redis ends what a limiter in memory promised, or leaves it.
LEMMA ScriptKeepsPromises ==
  ASSUME RetryInv, Typing', NEW c \in Calls, Script(c)
  PROVE  RetryInv'
<1> DEFINE q == call[c]
           I == q.ip
<1>1. PICK t : /\ q.pc = "stamped" /\ kind' = kind /\ buckets' = buckets
               /\ Decide(0, I, q.scale, q.at, t)
  BY DEF Script, limiterVars
<1>2. I \in IPs
  BY <1>1, StampedIs DEF RetryInv
<1>3. /\ promise' = [i \in IPs |-> promise'[i]]
      /\ \A i \in IPs \ {I} : promise'[i] = promise[i]
      /\ promise'[I] = promise[I] \/ promise'[I].life = 0
  <2> HIDE DEF q, I
  <2>1. NoPromise.life = 0
    BY DEF NoPromise
  <2>2. /\ promise' = [i \in IPs |-> promise'[i]]
        /\ \A i \in IPs \ {I} : promise'[i] = promise[i]
        /\ ~(t < One) => promise'[I] = NoPromise
        /\ t < One => \/ promise'[I] = promise[I]
                      \/ promise'[I] = [life |-> 0, scale |-> q.scale,
                                        told |-> q.at + Told(t, q.scale)]
    BY <1>1, <1>2, DecidePromises
  <2> QED BY <2>1, <2>2
<1>4. 0 \notin Lives
  BY DEF Lives
<1>5. PromisesKept'
  BY <1>1, <1>2, <1>3, <1>4 DEF RetryInv, PromisesKept, Kept, RateAt, Effective
<1> QED BY <1>3, <1>5 DEF RetryInv

LEMMA PromisesAtFirst == Init => RetryInv
<1> SUFFICES ASSUME Init PROVE RetryInv
  OBVIOUS
<1>1. Typing
  BY InitHolds DEF IInv
<1>2. 0 \notin Lives
  BY DEF Lives
<1>3. promise = [i \in IPs |-> NoPromise]
  BY DEF Init
<1> QED BY <1>1, <1>2, <1>3 DEF RetryInv, PromisesKept, NoPromise

LEMMA PromisesNext ==
  ASSUME RetryInv, [Next]_vars PROVE RetryInv'
<1>1. Typing
  BY DEF RetryInv
<1>2. Typing'
  BY <1>1, TypesOfCalls, TypesOfChanges, TypesInBackground, TypesElsewhere
     DEF Next
<1>3. CASE promise' = promise /\ kind' = kind /\ buckets' = buckets
  BY <1>2, <1>3, PromisesRest
<1>4. ASSUME NEW c \in Calls, Request(c) PROVE RetryInv'
  <2>1. CASE Begin(c) \/ FailOpen(c)
    BY <1>3, <2>1 DEF Begin, FailOpen, limiterVars, ghosts
  <2>2. CASE Take(c)
    BY <1>2, <2>2, TakeKeepsPromises DEF RetryInv
  <2>3. CASE Script(c)
    BY <1>2, <2>3, ScriptKeepsPromises
  <2> QED BY <1>4, <2>1, <2>2, <2>3 DEF Request
<1>5. ASSUME NEW l \in Unbuilt,
             promise' = promise,
             kind'[l] # "none",
             \A j \in Lives \ {l} : kind'[j] = kind[j] /\ buckets'[j] = buckets[j]
      PROVE  RetryInv'
  <2>1. kind[l] = "none"
    BY DEF Unbuilt
  <2>2. \A j \in Lives : kind[j] # "none" =>
          /\ kind'[j] # "none"
          /\ \A i \in IPs : buckets'[j][i] \in {buckets[j][i], NoBucket}
    BY <1>5, <2>1
  <2> QED BY <1>2, <1>5, <2>2, PromisesRest
<1>6. ASSUME NEW h \in Handlers, Change(h) PROVE RetryInv'
  <2>1. ASSUME NEW k \in Kinds, SaveSettings(h, k) PROVE RetryInv'
    BY <1>3, <2>1 DEF SaveSettings, limiterVars, ghosts
  <2>2. CASE Swap(h) \/ StopOld(h)
    BY <1>3, <2>2 DEF Swap, StopOld, ghosts
  <2>3. CASE Build(h)
    <3>1. PICK l \in Unbuilt : New(l, saver)
      BY <2>3 DEF Build
    <3>2. l \in Lives /\ saver \in [Lives -> [pc : {"off", "run"}] \cup Saving]
      BY <1>1 DEF Unbuilt, Typing
    <3>3. /\ kind'[l] # "none"
          /\ \A j \in Lives \ {l} : kind'[j] = kind[j] /\ buckets'[j] = buckets[j]
      BY <1>1, <3>1, <3>2, NewKeepsTypes
    <3> QED BY <1>5, <2>3, <3>3 DEF Build, ghosts
  <2> QED BY <1>6, <2>1, <2>2, <2>3 DEF Change
<1>7. ASSUME NEW l \in Lives, Background(l) PROVE RetryInv'
  <2>1. CASE Evict(l)
    <3>1. /\ kind' = kind /\ promise' = promise
          /\ buckets' = [buckets EXCEPT ![l] = WithoutIdle(buckets[l])]
      BY <2>1 DEF Evict, ghosts
    <3>2. \A j \in Lives, i \in IPs : buckets'[j][i] \in {buckets[j][i], NoBucket}
      BY <1>1, <3>1 DEF Typing, WithoutIdle
    <3> QED BY <1>2, <3>1, <3>2, PromisesRest
  <2>2. ASSUME NEW b \in BOOLEAN, Snapshot(l, b) PROVE RetryInv'
    BY <1>3, <2>2 DEF Snapshot, limiterVars, ghosts
  <2>3. ASSUME NEW b \in BOOLEAN, NEW p \in BOOLEAN, Write(l, b, p) PROVE RetryInv'
    BY <1>3, <2>3 DEF Write, limiterVars, ghosts
  <2> QED BY <1>7, <2>1, <2>2, <2>3 DEF Background
<1>8. CASE Boot
  <2>1. PICK l \in Unbuilt : New(l, NoSavers)
    BY <1>8 DEF Boot
  <2>2. l \in Lives /\ NoSavers \in [Lives -> [pc : {"off", "run"}] \cup Saving]
    BY DEF Unbuilt, NoSavers
  <2>3. /\ kind'[l] # "none"
        /\ \A j \in Lives \ {l} : kind'[j] = kind[j] /\ buckets'[j] = buckets[j]
    BY <1>1, <2>1, <2>2, NewKeepsTypes
  <2> QED BY <1>5, <1>8, <2>3 DEF Boot, ghosts
<1>9. CASE Exit \/ Tick \/ UNCHANGED vars
  BY <1>3, <1>9 DEF Exit, Tick, vars, limiterVars, ghosts
<1> QED BY <1>4, <1>6, <1>7, <1>8, <1>9 DEF Next

\* A client that waits longer than it was told, if only by a second, is let
\* in, for any rates, bursts and scales, whatever late calls, evictions,
\* reloads and restarts come in between (the Retry-After header, Limiter.allow):
\* neither the bound on the grants nor what it rests on is needed here.
THEOREM RetryAfterNearlyHonouredHolds == Spec => RetryAfterNearlyHonoured
<1>1. RetryInv /\ [Next]_vars
        => [\A c \in Calls : Take(c) /\ Due(call[c])
                               => promise'[call[c].ip] = NoPromise]_vars
  <2> SUFFICES ASSUME RetryInv, NEW c \in Calls, Take(c), Due(call[c])
               PROVE  promise'[call[c].ip] = NoPromise
    OBVIOUS
  <2> QED BY TakeKeepsPromises
<1>2. Init => RetryInv
  BY PromisesAtFirst
<1>3. RetryInv /\ [Next]_vars => RetryInv'
  BY PromisesNext
<1> QED BY <1>1, <1>2, <1>3, PTL DEF Spec, RetryAfterNearlyHonoured
=============================================================================
