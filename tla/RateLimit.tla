----------------------------- MODULE RateLimit -----------------------------
(***************************************************************************)
(* The global rate limit: requests that fetch the current back end, read   *)
(* the clock and then take from a bucket; the janitor that evicts idle     *)
(* buckets; the goroutine that saves the buckets to the rate_state table;  *)
(* settings changes that build a back end, swap it in and stop the old     *)
(* one; and restarts, which restore the buckets last saved.                *)
(*                                                                         *)
(* Every back end built has a number, its life.  Redis outlives them all.  *)
(***************************************************************************)
EXTENDS TokenBucket

CONSTANTS
  IPs,        \* client addresses
  Calls,      \* requests that may be in AllowScaled at once
  Handlers,   \* goroutines that save the settings
  Kinds,      \* back ends the settings may choose: memory, redis, off
  IdleTTL,    \* ticks after which an untouched bucket is evicted
  MaxLag,     \* bound on the ticks between reading the clock and the bucket
  MaxClock,   \* bound on time
  MaxLives,   \* bound on the back ends built
  MaxCalls    \* bound on the requests

Lives == 1..MaxLives
Times == 0..MaxClock
Windows == {w \in Times \X Times : w[1] <= w[2]}

\* A bucket that is evicted would be full again, even if a call that was late
\* had touched it last and the next one is late too; and either no call is
\* late or every call has the same scale.
ASSUME RateLimitAssumption ==
  /\ IdleTTL \in Nat /\ MaxLag \in Nat /\ MaxClock \in Nat
  /\ MaxLives \in Nat \ {0} /\ MaxCalls \in Nat
  /\ Kinds \subseteq {"memory", "redis", "off"}

SlowestRefillIsCovered ==
  BurstAt(Top) + 2 * RateAt(Top) * MaxLag <= RateAt(Top) * (IdleTTL + 1)
OneScaleOrNoLag == MaxLag = 0 \/ \A s \in Scales : Effective(s) = Effective(Top)

VARIABLES
  clock,     \* the wall clock
  up,        \* whether the process accepts requests
  settings,  \* the back end the stored settings choose
  kind,      \* life -> kind of that back end, "none" before it is built
  buckets,   \* life -> address -> bucket
  stopped,   \* lives that have been stopped
  active,    \* the life in the handler
  redis,     \* address -> bucket and expiry in Redis
  store,     \* the rate_state table: address -> bucket
  writer,    \* the life that wrote it last, 0 if none
  call,      \* request -> its progress
  arrived,   \* requests so far
  reload,    \* handler -> its progress
  saver,     \* life -> its persistence goroutine
  granted,   \* life (0: Redis) -> address -> window -> requests granted in it
  promise    \* address -> what the last denial said of retrying

vars == <<clock, up, settings, kind, buckets, stopped, active, redis, store,
          writer, call, arrived, reload, saver, granted, promise>>

limiterVars == <<kind, buckets, stopped, active>>
ghosts == <<granted, promise>>

built == {l \in Lives : kind[l] # "none"}
Unbuilt == {l \in Lives : kind[l] = "none" /\ \A j \in 1..l-1 : j \in built}
NoBuckets == [i \in IPs |-> NoBucket]
Idle == [pc |-> "idle"]
NoSavers == [l \in Lives |-> [pc |-> "off"]]
NoPromise == [life |-> 0, scale |-> 0, told |-> 0]

IdleBucket(b) == ~Missing(b) /\ b.last < clock - IdleTTL
WithoutIdle(bs) == [i \in IPs |-> IF IdleBucket(bs[i]) THEN NoBucket
                                                       ELSE bs[i]]

-----------------------------------------------------------------------------
(* Requests *)

\* Handle takes the back end under the lock, and AllowScaled of that back end
\* reads the clock; both before any bucket is locked or the script runs.  A
\* disabled limiter returns at once.
Begin(c) ==
  /\ up /\ call[c] = Idle /\ arrived < MaxCalls
  /\ arrived' = arrived + 1
  /\ kind[active] # "off"
  /\ \E i \in IPs, s \in Scales :
       call' = [call EXCEPT ![c] = [pc |-> "stamped", ip |-> i, scale |-> s,
                                    life |-> active, at |-> clock]]
  /\ UNCHANGED <<clock, up, settings, limiterVars, redis, store, writer,
                 reload, saver, ghosts>>

\* Redis cannot be reached, answers too late or its client has been closed:
\* the request is allowed.
FailOpen(c) ==
  /\ call[c].pc = "stamped" /\ kind[call[c].life] = "redis"
  /\ call' = [call EXCEPT ![c] = Idle]
  /\ UNCHANGED <<clock, up, settings, limiterVars, redis, store, writer,
                 arrived, reload, saver, ghosts>>

Count(l, i, n) ==
  granted' = [granted EXCEPT ![l][i] =
                [w \in Windows |-> IF w[1] <= n /\ n <= w[2] THEN @[w] + 1
                                                             ELSE @[w]]]

\* What a decision at time n on a bucket with t tokens says to the client: the
\* time at which its Retry-After header lets it come back.
Decide(l, i, s, n, t) ==
  IF t < One
  THEN /\ promise' = IF promise[i].life = l /\ promise[i].scale = s
                     THEN promise
                     ELSE [promise EXCEPT ![i] =
                             [life |-> l, scale |-> s, told |-> n + Told(t, s)]]
       /\ UNCHANGED granted
  ELSE /\ promise' = [promise EXCEPT ![i] = NoPromise]
       /\ Count(l, i, n)

\* Limiter.allow, from the lock on.
Take(c) ==
  LET q == call[c]
      t == Refilled(buckets[q.life][q.ip], q.at, q.scale) IN
  /\ q.pc = "stamped" /\ kind[q.life] = "memory"
  /\ buckets' = [buckets EXCEPT ![q.life][q.ip] = Left(t, q.at)]
  /\ Decide(q.life, q.ip, q.scale, q.at, t)
  /\ call' = [call EXCEPT ![c] = Idle]
  /\ UNCHANGED <<clock, up, settings, kind, stopped, active, redis, store,
                 writer, arrived, reload, saver>>

\* The script: one atomic step of Redis, whose keys expire.
Script(c) ==
  LET q == call[c]
      key == redis[q.ip]
      b == IF key.until < clock THEN NoBucket ELSE key.bucket
      t == ScriptRefilled(b, q.at, q.scale) IN
  /\ q.pc = "stamped" /\ kind[q.life] = "redis" /\ q.life \notin stopped
  /\ redis' = [redis EXCEPT ![q.ip] = [bucket |-> Left(t, q.at),
                                       until |-> clock + KeyTTL(q.scale)]]
  /\ Decide(0, q.ip, q.scale, q.at, t)
  /\ call' = [call EXCEPT ![c] = Idle]
  /\ UNCHANGED <<clock, up, settings, limiterVars, store, writer, arrived,
                 reload, saver>>

-----------------------------------------------------------------------------
(* The limiter's own goroutines *)

\* evictIdle.
Evict(l) ==
  /\ kind[l] = "memory" /\ l \notin stopped
  /\ buckets[l] # WithoutIdle(buckets[l])
  /\ buckets' = [buckets EXCEPT ![l] = WithoutIdle(@)]
  /\ UNCHANGED <<clock, up, settings, kind, stopped, active, redis, store,
                 writer, call, arrived, reload, saver, ghosts>>

\* StartPersistence: a tick of the saver, or its stop, whichever the select
\* takes when both are ready.
Snapshot(l, last) ==
  /\ saver[l].pc = "run" /\ (last => l \in stopped)
  /\ saver' = [saver EXCEPT ![l] = [pc |-> IF last THEN "last" ELSE "write",
                                    snap |-> buckets[l]]]
  /\ UNCHANGED <<clock, up, settings, limiterVars, redis, store, writer, call,
                 arrived, reload, ghosts>>

\* SaveRateLimitState replaces the whole table in one transaction.
Saved(bs, ok) == IF ok THEN bs ELSE store

\* PurgeRateLimitState deletes what is idle.
Purged(table, ok) == IF ok THEN WithoutIdle(table) ELSE table

\* The save, and the purge that follows every save but the last one.  Either
\* may fail; errors are dropped.  That another save may come in between is
\* left out: what a purge deletes, a restore would skip.
Write(l, ok, purge) ==
  /\ saver[l].pc \in {"write", "last"}
  /\ purge => saver[l].pc = "write"
  /\ store' = Purged(Saved(saver[l].snap, ok), purge)
  /\ writer' = IF ok THEN l ELSE writer
  /\ saver' = [saver EXCEPT ![l] = [pc |-> IF @.pc = "last" THEN "off"
                                                            ELSE "run"]]
  /\ UNCHANGED <<clock, up, settings, limiterVars, redis, call, arrived,
                 reload, ghosts>>

-----------------------------------------------------------------------------
(* Changes of the settings, and restarts *)

\* SaveRateLimitConfig up to the reload: the settings are stored.
SaveSettings(h, k) ==
  /\ up /\ reload[h] = Idle /\ built # Lives
  /\ settings' = k
  /\ reload' = [reload EXCEPT ![h] = [pc |-> "build"]]
  /\ UNCHANGED <<clock, up, limiterVars, redis, store, writer, call, arrived,
                 saver, ghosts>>

\* RestoreFrom, on what LoadRateLimitState returned.
Restored == [i \in IPs |-> IF store[i].last > clock - IdleTTL
                           THEN store[i] ELSE NoBucket]

\* LoadRateLimitState, which may fail, and what becomes of its rows.
Loaded == {Restored, NoBuckets}

\* A Redis that does not answer leaves the limiter in memory.
Connected(k) == IF k = "redis" THEN {"redis", "memory"} ELSE {k}

\* buildRateLimit makes life l.
New(l, savers) ==
  \E k \in Connected(settings) :
    /\ kind' = [kind EXCEPT ![l] = k]
    /\ \E bs \in IF k = "memory" THEN Loaded ELSE {NoBuckets} :
         buckets' = [buckets EXCEPT ![l] = bs]
    /\ saver' = IF k = "memory" THEN [savers EXCEPT ![l] = [pc |-> "run"]]
                                ELSE savers

Build(h) ==
  /\ reload[h].pc = "build"
  /\ \E l \in Unbuilt :
       /\ New(l, saver)
       /\ reload' = [reload EXCEPT ![h] = [pc |-> "swap", life |-> l]]
  /\ UNCHANGED <<clock, up, settings, stopped, active, redis, store, writer,
                 call, arrived, ghosts>>

\* ReloadRateLimit: swapped under the lock, the old one stopped after it.
Swap(h) ==
  /\ reload[h].pc = "swap"
  /\ active' = reload[h].life
  /\ reload' = [reload EXCEPT ![h] = [pc |-> "stop", life |-> active]]
  /\ UNCHANGED <<clock, up, settings, kind, buckets, stopped, redis, store,
                 writer, call, arrived, saver, ghosts>>

\* Mutant: the old one is left to the garbage collector.
StopOldForgets(h) ==
  /\ reload[h].pc = "stop"
  /\ reload' = [reload EXCEPT ![h] = Idle]
  /\ UNCHANGED <<clock, up, settings, limiterVars, redis, store, writer, call,
                 arrived, saver, ghosts>>

StopOld(h) ==
  /\ reload[h].pc = "stop"
  /\ stopped' = stopped \cup {reload[h].life}
  /\ reload' = [reload EXCEPT ![h] = Idle]
  /\ UNCHANGED <<clock, up, settings, kind, buckets, active, redis, store,
                 writer, call, arrived, saver, ghosts>>

\* main returns and runs StopRateLimit; nothing waits for the last save, and
\* the process may be killed at any time instead.
Exit ==
  /\ up /\ built # Lives
  /\ up' = FALSE
  /\ stopped' \in {stopped, stopped \cup {active}}
  /\ UNCHANGED <<clock, settings, kind, buckets, active, redis, store, writer,
                 call, arrived, reload, saver, ghosts>>

\* The process is gone, with all it kept in memory, and starts again.
Boot ==
  /\ ~up /\ up' = TRUE
  /\ \E l \in Unbuilt :
       /\ New(l, NoSavers)
       /\ active' = l
       /\ stopped' = stopped \cup built
  /\ call' = [c \in Calls |-> Idle]
  /\ reload' = [h \in Handlers |-> Idle]
  /\ UNCHANGED <<clock, settings, redis, store, writer, arrived, ghosts>>

\* A request is never later than MaxLag with what it does with the time.
Tick ==
  /\ clock < MaxClock
  /\ \A c \in Calls : call[c].pc = "stamped" => clock - call[c].at < MaxLag
  /\ clock' = clock + 1
  /\ UNCHANGED <<up, settings, limiterVars, redis, store, writer, call,
                 arrived, reload, saver, ghosts>>

\* The first life is built, from an empty table, before the server starts.
Init ==
  /\ clock = 0 /\ up = FALSE /\ settings \in Kinds
  /\ kind = [l \in Lives |-> "none"]
  /\ buckets = [l \in Lives |-> NoBuckets]
  /\ stopped = {} /\ active = 1
  /\ redis = [i \in IPs |-> [bucket |-> NoBucket, until |-> -1]]
  /\ store = NoBuckets /\ writer = 0
  /\ call = [c \in Calls |-> Idle] /\ arrived = 0
  /\ reload = [h \in Handlers |-> Idle]
  /\ saver = NoSavers
  /\ granted = [l \in 0..MaxLives |-> [i \in IPs |-> [w \in Windows |-> 0]]]
  /\ promise = [i \in IPs |-> NoPromise]

Request(c) == Begin(c) \/ FailOpen(c) \/ Take(c) \/ Script(c)
Change(h) == (\E k \in Kinds : SaveSettings(h, k))
             \/ Build(h) \/ Swap(h) \/ StopOld(h)
Background(l) ==
  Evict(l) \/ \E b \in BOOLEAN : Snapshot(l, b) \/ \E p \in BOOLEAN : Write(l, b, p)

Next ==
  \/ \E c \in Calls : Request(c)
  \/ \E h \in Handlers : Change(h)
  \/ \E l \in Lives : Background(l)
  \/ Exit \/ Boot \/ Tick

Spec == Init /\ [][Next]_vars

\* What keeps running: the handler of a change, the save loop (its select is
\* fair and the database answers now and then), and the supervisor that starts
\* the process again.
FairSpec ==
  /\ Spec
  /\ WF_vars(Boot)
  /\ \A h \in Handlers : WF_vars(Build(h)) /\ WF_vars(Swap(h) \/ StopOld(h))
  /\ \A l \in Lives :
       /\ SF_vars(Snapshot(l, FALSE)) /\ SF_vars(Snapshot(l, TRUE))
       /\ SF_vars(\E p \in BOOLEAN : Write(l, TRUE, p))

-----------------------------------------------------------------------------
TypeOK ==
  /\ clock \in Times /\ up \in BOOLEAN /\ settings \in Kinds
  /\ kind \in [Lives -> {"none", "memory", "redis", "off"}]
  /\ buckets \in [Lives -> [IPs -> Bucket \cup {NoBucket}]]
  /\ stopped \subseteq Lives /\ active \in Lives
  /\ \A i \in IPs : redis[i].bucket \in Bucket \cup {NoBucket}
  /\ store \in [IPs -> Bucket \cup {NoBucket}] /\ writer \in 0..MaxLives
  /\ arrived \in 0..MaxCalls
  /\ \A c \in Calls : call[c].pc = "stamped" =>
       call[c].at \in clock - MaxLag .. clock
  /\ \A l \in Lives : saver[l].pc \in {"off", "run", "write", "last"}
  /\ \A h \in Handlers : reload[h].pc \in {"idle", "build", "swap", "stop"}
  /\ granted \in [0..MaxLives -> [IPs -> [Windows -> Nat]]]

Bounded(l) ==
  \A i \in IPs : \A w \in Windows :
    One * granted[l][i][w] <= BurstAt(Top) + RateAt(Top) * (w[2] - w[1])

\* No limiter in memory grants an address more, in any stretch of time, than
\* the burst and what is refilled meanwhile: not when calls reach the bucket
\* in another order than they read the clock, nor when the janitor evicts the
\* bucket, nor when it was restored from the table (ratelimit.go).
MemoryBound == \A l \in Lives : Bounded(l)

\* The same of the buckets in Redis (redis.go).
RedisBound == Bounded(0)

\* The Retry-After header is cut down to whole seconds, so that a client that
\* comes back when it says may be refused again; but it is less than a second
\* short.  After a denial a request that comes later than it was told is
\* granted, whatever late calls, evictions and changes of the settings come in
\* between, if the same back end decides and no other request got the token
\* (Limiter.allow, Handle).
Due(q) == LET p == promise[q.ip] IN
          p.life = q.life /\ p.scale = q.scale /\ q.at > p.told
RetryAfterNearlyHonoured ==
  [][\A c \in Calls : Take(c) /\ Due(call[c])
                        => promise'[call[c].ip] = NoPromise]_vars

\* Once the settings are left alone, only the limiter in use saves to the
\* table: those it replaced have ended, and none of them, whose stop makes it
\* save once more, has the last word.
LastWordIsTheActiveOnes ==
  <>[](/\ \A l \in Lives \ {active} : saver[l].pc = "off"
       /\ kind[active] = "memory" => writer = active)
=============================================================================
