--------------------------- MODULE BackendsProofs ---------------------------
(***************************************************************************)
(* The one retry of a proxied request: whatever happens to pools, health   *)
(* and checks meanwhile, a request is sent to two backends at most, and to *)
(* one if repeating it could repeat its effect; who is told "bad gateway"  *)
(* for a safe one was refused by two.  And what a Reload installs in three *)
(* steps: unless it failed or met another, the pool, the health objects    *)
(* and the checks of the saved settings.                                   *)
(***************************************************************************)
EXTENDS Backends, FiniteSetTheorems, TLAPS

\* A request that is out has all its fields.
SentRecord(q) ==
  q = [step |-> "sent", pool |-> q.pool, safe |-> q.safe, tried |-> q.tried,
       sends |-> q.sends, to |-> q.to, was |-> q.was]

\* A request that waits for a backend was sent at most once before, and then
\* it is safe: this is what makes the bound on the sends inductive.
Attempts(q) ==
  /\ q.step \in {"none", "pick", "sent", "over"}
  /\ q.step = "pick" => q.sends = 0 \/ (q.sends = 1 /\ q.safe)
  /\ q.step = "sent" => q.sends = 1 \/ (q.sends = 2 /\ q.safe)
  /\ q.step = "sent" => SentRecord(q)

RetryInv ==
  /\ req = [r \in Requests |-> req[r]]
  /\ \A r \in Requests : Attempts(req[r])

LEMMA RetryInit == Init => RetryInv
  BY DEF Init, RetryInv, Attempts, NoReq

\* The steps of requests; every other step leaves them alone.
LEMMA RetryStep == RetryInv /\ [Next]_vars => RetryInv'
<1> SUFFICES ASSUME RetryInv, [Next]_vars PROVE RetryInv'
  OBVIOUS
<1> USE DEF RetryInv
<1>0. UNCHANGED req => RetryInv'
  OBVIOUS
<1>1. ASSUME NEW conf \in Configs, Save(conf) PROVE RetryInv'
  BY <1>0, <1>1 DEF Save
<1>2. ASSUME NEW c \in Changes, ReloadStep(c) PROVE RetryInv'
  BY <1>0, <1>2
     DEF ReloadStep, ReadList, ReadFails, Build, Install, Register, SwapChecks
<1>3. ASSUME NEW p \in PoolIds, StartRound(p) \/ StopChecks(p)
      PROVE  RetryInv'
  BY <1>0, <1>3 DEF StartRound, StopChecks
<1>4. ASSUME NEW b \in probes, NEW ok \in BOOLEAN, ProbeEnds(b, ok)
      PROVE  RetryInv'
  BY <1>0, <1>4 DEF ProbeEnds
<1>5. ASSUME NEW o \in ObjIds, CooldownEnds(o) PROVE RetryInv'
  BY <1>0, <1>5 DEF CooldownEnds
<1>6. ASSUME NEW u \in URLs, Flip(u) PROVE RetryInv'
  BY <1>0, <1>6 DEF Flip
<1>7. ASSUME NEW r \in Requests, NEW safe \in BOOLEAN, Begin(r, safe)
      PROVE  RetryInv'
  <2>1. req'[r].step = "pick" /\ req'[r].sends = 0
    BY <1>7 DEF Begin
  <2>2. Attempts(req'[r])
    BY <2>1 DEF Attempts
  <2>3. /\ req' = [q \in Requests |-> req'[q]]
        /\ \A q \in Requests \ {r} : req'[q] = req[q]
    BY <1>7 DEF Begin
  <2> QED BY <2>2, <2>3
<1>8. ASSUME NEW r \in Requests, NEW u \in URLs, Send(r, u)
      PROVE  RetryInv'
  <2>1. /\ req' = [req EXCEPT ![r] =
             [step |-> "sent", pool |-> req[r].pool, safe |-> req[r].safe,
              tried |-> {u}, sends |-> req[r].sends + 1, to |-> u,
              was |-> alive[u]]]
        /\ req[r].step = "pick"
    BY <1>8 DEF Send
  <2>2. /\ req'[r].step = "sent"
        /\ req'[r].sends = req[r].sends + 1
        /\ req'[r].safe = req[r].safe
        /\ SentRecord(req'[r])
    BY <2>1 DEF SentRecord
  <2>3. Attempts(req'[r])
    BY <2>1, <2>2 DEF Attempts
  <2>4. /\ req' = [q \in Requests |-> req'[q]]
        /\ \A q \in Requests \ {r} : req'[q] = req[q]
    BY <2>1
  <2> QED BY <2>3, <2>4
<1>9. ASSUME NEW r \in Requests, Over(r) PROVE RetryInv'
  BY <1>9 DEF Over, Attempts, SentRecord
<1>10. ASSUME NEW r \in Requests, NoneLeft(r) \/ Answered(r) \/ HungUp(r)
       PROVE  RetryInv'
  BY <1>9, <1>10 DEF NoneLeft, Answered, HungUp
<1>11. ASSUME NEW r \in Requests, Failed(r) PROVE RetryInv'
  <2>1. CASE req[r].safe /\ req[r].sends = 1
    <3>1. req' = [req EXCEPT ![r].step = "pick"] /\ req[r].step = "sent"
      BY <1>11, <2>1 DEF Failed
    <3>2. req'[r].step = "pick" /\ req'[r].sends = 1 /\ req'[r].safe
      BY <2>1, <3>1 DEF Attempts, SentRecord
    <3> QED BY <3>1, <3>2 DEF Attempts
  <2>2. CASE ~(req[r].safe /\ req[r].sends = 1)
    BY <1>9, <1>11, <2>2 DEF Failed
  <2> QED BY <2>1, <2>2
<1>12. CASE UNCHANGED vars
  BY <1>0, <1>12 DEF vars
<1> QED
  BY <1>1, <1>2, <1>3, <1>4, <1>5, <1>6, <1>7, <1>8, <1>10, <1>11, <1>12
  DEF Next, RequestStep

\* A request with side effects reaches one backend at most, a safe one two,
\* for any number of backends, requests, reloads and failures.
THEOREM SentAtMostTwiceHolds == Spec => []SentAtMostTwice
<1>1. RetryInv => SentAtMostTwice
  BY DEF RetryInv, Attempts, SentAtMostTwice
<1> QED BY <1>1, RetryInit, RetryStep, PTL DEF Spec

-----------------------------------------------------------------------------
(* What a Reload installs. *)

ConfOf(p) == [urls |-> pools[p].urls, active |-> pools[p].active]

Steps == {[step |-> "idle"], [step |-> "list"]}
         \cup [step : {"health"}, conf : Configs]
         \cup [step : {"install", "register", "checks"}, pool : Nat]

Holds(c) == reload[c].step \in {"install", "register", "checks"}

ReloadShape ==
  /\ saved \in Configs
  /\ saves \in 0..MaxSaves
  /\ \E S : pools \in Seq(S)
  /\ round \in Seq({"none", "alive"}) /\ Len(round) = Len(pools)
  /\ installed \in PoolIds /\ checked \in PoolIds /\ stopped \subseteq PoolIds
  /\ reload \in [Changes -> Steps]

\* Every pool is checked under one stop channel, its own: one that runs on has
\* been told to stop, or is the last; and a pool that a Reload holds has not
\* been checked yet, by this Reload or another.
ChecksApart ==
  /\ \A q \in PoolIds : round[q] = "alive" =>
       pools[q].active /\ (q \in stopped \/ q = checked)
  /\ checked \notin stopped
  /\ pools[checked].active => round[checked] = "alive"
  /\ \A c \in Changes : Holds(c) =>
       /\ reload[c].pool \in PoolIds \ (stopped \cup {checked})
       /\ round[reload[c].pool] = "none"
       /\ \A d \in Changes : Holds(d) /\ reload[d].pool = reload[c].pool => d = c

\* While no reload failed or met another, there is one at most, and each of its
\* steps finds what the one before left.
InOrder ==
  ~troubled =>
    /\ \A c, d \in Changes : reload[c] # NoReload /\ reload[d] # NoReload => c = d
    /\ ReloadsDone => ConfOf(installed) = saved
    /\ (\A c \in Changes : reload[c].step \notin {"register", "checks"}) =>
         installed = checked /\ registered = pools[installed].health
    /\ \A c \in Changes :
         /\ reload[c].step = "health" => reload[c].conf = saved
         /\ Holds(c) => ConfOf(reload[c].pool) = saved
         /\ reload[c].step \in {"register", "checks"} => installed = reload[c].pool
         /\ reload[c].step = "checks" => registered = pools[installed].health

ReloadInv == ReloadShape /\ ChecksApart /\ InOrder

LEMMA ReloadInit == Init => ReloadInv
<1> SUFFICES ASSUME Init PROVE ReloadInv
  OBVIOUS
<1> DEFINE p == [urls |-> saved.urls, active |-> saved.active, health |-> registered]
           s == IF saved.active THEN "alive" ELSE "none"
<1>1. /\ saved \in Configs /\ saves = 0 /\ pools = <<p>> /\ installed = 1 /\ checked = 1
      /\ stopped = {} /\ round = <<s>> /\ reload = [c \in Changes |-> NoReload]
  BY DEF Init
<1>2. saved.active \in BOOLEAN /\ saved = [urls |-> saved.urls, active |-> saved.active]
  BY <1>1, BackendsAssumption
<1>3. /\ p.urls = saved.urls /\ p.active = saved.active /\ p.health = registered
      /\ s \in {"none", "alive"} /\ (s = "alive" <=> saved.active)
  BY <1>2
<1> HIDE DEF p, s
<1>4. /\ pools \in Seq({p}) /\ Len(pools) = 1 /\ pools[1] = p
      /\ round \in Seq({"none", "alive"}) /\ Len(round) = 1 /\ round[1] = s
  BY <1>1, <1>3
<1>5. \A c \in Changes : reload[c] = NoReload /\ reload[c].step = "idle"
  BY <1>1 DEF NoReload
<1>6. ReloadShape
  <2>1. PoolIds = {1}
    BY <1>4 DEF PoolIds
  <2>2. reload \in [Changes -> Steps]
    BY <1>1 DEF Steps, NoReload
  <2>3. \E S : pools \in Seq(S)
    BY <1>4
  <2>4. saves \in 0..MaxSaves
    BY <1>1, BackendsAssumption
  <2> QED
    BY <1>1, <1>4, <2>1, <2>2, <2>3, <2>4 DEF ReloadShape
<1>7. ChecksApart
  <2>1. PoolIds = {1}
    BY <1>4 DEF PoolIds
  <2>2. round[1] = "alive" <=> pools[1].active
    BY <1>3, <1>4
  <2>3. \A c \in Changes : ~ Holds(c)
    BY <1>5 DEF Holds
  <2> QED
    BY <1>1, <2>1, <2>2, <2>3 DEF ChecksApart
<1>8. InOrder
  BY <1>1, <1>2, <1>3, <1>4, <1>5 DEF InOrder, Holds, ConfOf
<1> QED
  BY <1>6, <1>7, <1>8 DEF ReloadInv

\* What the probes, the cooldowns and the requests do changes none of it.
LEMMA ReloadStays ==
  ReloadInv /\ UNCHANGED <<saved, saves, pools, installed, registered, checked, stopped,
                           round, reload, troubled>> => ReloadInv'
BY DEF ReloadInv, ReloadShape, ChecksApart, InOrder, ConfOf, Holds, ReloadsDone, PoolIds

LEMMA SaveKept ==
  ASSUME ReloadInv, NEW conf \in Configs, Save(conf) PROVE ReloadInv'
<1> DEFINE c == saves'
           n == [step |-> "list"]
<1>1. /\ saves < MaxSaves /\ saves' = saves + 1 /\ saved' = conf
      /\ troubled' = (troubled \/ ~ReloadsDone)
      /\ reload' = [reload EXCEPT ![c] = n]
      /\ UNCHANGED <<pools, installed, registered, checked, stopped, round>>
  BY DEF Save, Goto, poolVars, checkVars
<1>2. saves \in 0..MaxSaves /\ reload \in [Changes -> Steps]
  BY DEF ReloadInv, ReloadShape
<1>3. c \in Changes /\ saves' \in 0..MaxSaves
  BY <1>1, <1>2, BackendsAssumption DEF Changes
<1>4. n \in Steps /\ n.step = "list" /\ n # NoReload
  BY DEF Steps, NoReload
<1> HIDE DEF c, n
<1>5. /\ reload' \in [Changes -> Steps] /\ reload'[c] = n
      /\ \A d \in Changes : d # c => reload'[d] = reload[d]
  BY <1>1, <1>2, <1>3, <1>4
<1>6. ReloadShape'
  BY <1>1, <1>3, <1>5 DEF ReloadInv, ReloadShape, PoolIds
<1>7. \A d \in Changes : Holds(d)' => Holds(d) /\ reload'[d] = reload[d]
  BY <1>4, <1>5 DEF Holds
<1>8. ChecksApart'
  BY <1>1, <1>7 DEF ReloadInv, ChecksApart, PoolIds
<1>9. InOrder'
  <2> SUFFICES ASSUME ~troubled' PROVE InOrder'
    BY DEF InOrder
  <2>1. ~troubled /\ ReloadsDone
    BY <1>1
  <2>2. \A d \in Changes : reload[d] = NoReload /\ reload[d].step = "idle"
    BY <2>1 DEF ReloadsDone, NoReload
  <2>3. installed = checked /\ registered = pools[installed].health
    BY <2>1, <2>2 DEF ReloadInv, InOrder
  <2>4. \A d \in Changes : d # c => reload'[d] = NoReload /\ reload'[d].step = "idle"
    BY <1>5, <2>2
  <2>5. ~ReloadsDone'
    BY <1>3, <1>4, <1>5 DEF ReloadsDone
  <2> QED
    BY <1>1, <1>4, <1>5, <2>3, <2>4, <2>5 DEF InOrder, Holds
<1> QED
  BY <1>6, <1>8, <1>9 DEF ReloadInv

\* A Reload that goes on: the others stay where they are.
LEMMA Onward ==
  ASSUME ReloadInv, NEW c \in Changes, NEW n \in Steps, reload[c].step # "idle",
         reload' = [reload EXCEPT ![c] = n]
  PROVE  /\ reload' \in [Changes -> Steps] /\ reload'[c] = n
         /\ \A d \in Changes : d # c => reload'[d] = reload[d]
         /\ ~troubled => \A d \in Changes : d # c => reload[d] = NoReload /\ reload[d].step = "idle"
         /\ ~ReloadsDone
<1>1. reload \in [Changes -> Steps]
  BY DEF ReloadInv, ReloadShape
<1>2. reload[c] # NoReload
  BY DEF NoReload
<1>3. \A d \in Changes : ~troubled /\ d # c => reload[d] = NoReload
  BY <1>2 DEF ReloadInv, InOrder
<1> QED
  BY <1>1, <1>2, <1>3 DEF ReloadsDone, NoReload

LEMMA ReadKept ==
  ASSUME ReloadInv, NEW c \in Changes, ReadFails(c) \/ ReadList(c) PROVE ReloadInv'
<1>1. PICK n \in Steps :
        /\ reload' = [reload EXCEPT ![c] = n]
        /\ \/ n = NoReload /\ troubled'
           \/ n.step = "health" /\ n.conf = saved /\ troubled' = troubled
  <2>1. NoReload \in Steps
    BY DEF Steps, NoReload
  <2>2. /\ [step |-> "health", conf |-> saved] \in Steps
        /\ [step |-> "health", conf |-> saved].step = "health"
        /\ [step |-> "health", conf |-> saved].conf = saved
    BY DEF Steps, ReloadInv, ReloadShape
  <2> QED
    BY <2>1, <2>2 DEF ReadFails, ReadList, Goto
<1>2. /\ reload[c].step = "list"
      /\ UNCHANGED <<saved, saves, pools, installed, registered, checked, stopped, round>>
  BY DEF ReadFails, ReadList, confVars, poolVars, checkVars
<1>3. /\ reload' \in [Changes -> Steps] /\ reload'[c] = n
      /\ \A d \in Changes : d # c => reload'[d] = reload[d]
      /\ ~troubled => \A d \in Changes : d # c => reload[d] = NoReload /\ reload[d].step = "idle"
  BY <1>1, <1>2, Onward
<1>4. n.step \in {"idle", "health"}
  BY <1>1 DEF NoReload
<1>5. ReloadShape'
  BY <1>2, <1>3 DEF ReloadInv, ReloadShape, PoolIds
<1>6. \A d \in Changes : Holds(d)' => Holds(d) /\ reload'[d] = reload[d]
  BY <1>3, <1>4 DEF Holds
<1>7. ChecksApart'
  BY <1>2, <1>6 DEF ReloadInv, ChecksApart, PoolIds
<1>8. InOrder'
  <2> SUFFICES ASSUME ~troubled' PROVE InOrder'
    BY DEF InOrder
  <2>1. ~troubled /\ n.step = "health" /\ n.conf = saved
    BY <1>1
  <2>2. \A d \in Changes : d # c => reload'[d] = NoReload /\ reload'[d].step = "idle"
    BY <1>3, <2>1
  <2>3. installed = checked /\ registered = pools[installed].health
    <3>1. \A d \in Changes : reload[d].step \notin {"register", "checks"}
      BY <1>2, <1>3, <2>1
    <3> QED
      BY <2>1, <3>1 DEF ReloadInv, InOrder
  <2>4. ~ReloadsDone'
    BY <1>3, <2>1 DEF ReloadsDone, NoReload
  <2> QED
    BY <1>2, <1>3, <2>1, <2>2, <2>3, <2>4 DEF InOrder, Holds
<1> QED
  BY <1>5, <1>7, <1>8 DEF ReloadInv

LEMMA BuildKept ==
  ASSUME ReloadInv, NEW c \in Changes, Build(c) PROVE ReloadInv'
<1> DEFINE k == Len(pools) + 1
           n == [step |-> "install", pool |-> k]
           conf == reload[c].conf
<1>1. PICK h : pools' = Append(pools, [urls |-> conf.urls, active |-> conf.active, health |-> h])
  BY DEF Build
<1> DEFINE p == [urls |-> conf.urls, active |-> conf.active, health |-> h]
<1>2. /\ reload[c].step = "health" /\ pools' = Append(pools, p)
      /\ round' = Append(round, "none")
      /\ reload' = [reload EXCEPT ![c] = [step |-> "install", pool |-> Len(pools')]]
      /\ UNCHANGED <<saved, saves, installed, registered, checked, stopped, troubled>>
  BY <1>1 DEF Build, Goto, confVars
<1>3. PICK S : pools \in Seq(S)
  BY DEF ReloadInv, ReloadShape
<1>4. conf \in Configs /\ conf = [urls |-> conf.urls, active |-> conf.active]
  <2>1. reload[c] \in Steps
    BY DEF ReloadInv, ReloadShape
  <2>2. conf \in Configs
    BY <1>2, <2>1 DEF Steps
  <2> QED
    BY <2>2, BackendsAssumption
<1>5. p.urls = conf.urls /\ p.active = conf.active
  OBVIOUS
<1> HIDE DEF p, conf
<1>6. /\ pools' \in Seq(S \cup {p}) /\ Len(pools') = k /\ pools'[k] = p /\ Len(pools) \in Nat
      /\ \A q \in PoolIds : pools'[q] = pools[q]
  BY <1>2, <1>3 DEF PoolIds
<1>7. /\ round' \in Seq({"none", "alive"}) /\ Len(round') = k /\ round'[k] = "none"
      /\ \A q \in PoolIds : round'[q] = round[q]
  <2>1. round \in Seq({"none", "alive"}) /\ Len(round) = Len(pools)
    BY DEF ReloadInv, ReloadShape
  <2> QED
    BY <1>2, <1>6, <2>1 DEF PoolIds
<1>8. PoolIds' = PoolIds \cup {k} /\ k \notin PoolIds /\ k \in Nat
  BY <1>6 DEF PoolIds
<1>9. n \in Steps /\ n.step = "install" /\ n.pool = k
  BY <1>8 DEF Steps
<1>10. reload' = [reload EXCEPT ![c] = n]
  BY <1>2, <1>6
<1> HIDE DEF n, k
<1>11. /\ reload' \in [Changes -> Steps] /\ reload'[c] = n
       /\ \A d \in Changes : d # c => reload'[d] = reload[d]
       /\ ~troubled => \A d \in Changes : d # c => reload[d] = NoReload /\ reload[d].step = "idle"
  BY <1>2, <1>9, <1>10, Onward
<1>12. ReloadShape'
  <2>1. \E T : pools' \in Seq(T)
    BY <1>6
  <2> QED
    BY <1>2, <1>6, <1>7, <1>8, <1>11, <2>1 DEF ReloadInv, ReloadShape
<1>13. ChecksApart'
  <2>1. installed \in PoolIds /\ checked \in PoolIds /\ stopped \subseteq PoolIds
    BY DEF ReloadInv, ReloadShape
  <2>2. \A d \in Changes : d # c => (Holds(d)' <=> Holds(d)) /\ reload'[d] = reload[d]
    BY <1>11 DEF Holds
  <2>3. \A d \in Changes : Holds(d) => reload[d].pool \in PoolIds
    BY DEF ReloadInv, ChecksApart
  <2>4. ASSUME NEW d \in Changes, Holds(d)'
        PROVE  /\ reload'[d].pool \in PoolIds' \ (stopped \cup {checked})
               /\ round'[reload'[d].pool] = "none"
               /\ \A e \in Changes : Holds(e)' /\ reload'[e].pool = reload'[d].pool => e = d
    <3>1. CASE d = c
      BY <1>7, <1>8, <1>9, <1>11, <2>1, <2>2, <2>3, <3>1
    <3>2. CASE d # c
      <4>1. Holds(d) /\ reload'[d] = reload[d]
        BY <2>2, <2>4, <3>2
      <4>2. /\ reload[d].pool \in PoolIds \ (stopped \cup {checked})
            /\ round[reload[d].pool] = "none"
            /\ \A e \in Changes : Holds(e) /\ reload[e].pool = reload[d].pool => e = d
        BY <4>1 DEF ReloadInv, ChecksApart
      <4> QED
        BY <1>7, <1>8, <1>9, <1>11, <2>2, <4>1, <4>2
    <3> QED
      BY <3>1, <3>2
  <2>5. \A q \in PoolIds' : round'[q] = "alive" =>
          pools'[q].active /\ (q \in stopped \/ q = checked)
    BY <1>6, <1>7, <1>8 DEF ReloadInv, ChecksApart
  <2>6. checked \notin stopped /\ (pools'[checked].active => round'[checked] = "alive")
    BY <1>6, <1>7, <2>1 DEF ReloadInv, ChecksApart
  <2> HIDE DEF Holds
  <2> QED
    BY <1>2, <2>4, <2>5, <2>6 DEF ChecksApart
<1>14. InOrder'
  <2> SUFFICES ASSUME ~troubled PROVE InOrder'
    BY <1>2 DEF InOrder
  <2>1. \A d \in Changes : d # c => reload'[d] = NoReload /\ reload'[d].step = "idle"
    BY <1>11
  <2>2. \A d \in Changes : reload[d].step \notin {"register", "checks"}
    BY <1>2, <1>11
  <2>3. /\ installed = checked /\ registered = pools[installed].health
        /\ conf = saved /\ installed \in PoolIds
    BY <1>2, <2>2 DEF ReloadInv, ReloadShape, InOrder, conf
  <2>4. pools'[k].urls = saved.urls /\ pools'[k].active = saved.active
    BY <1>5, <1>6, <2>3
  <2>5. ConfOf(reload[c].pool)' = saved
    BY <1>4, <1>9, <1>11, <2>3, <2>4 DEF ConfOf
  <2>6. ~ReloadsDone'
    BY <1>9, <1>11 DEF ReloadsDone, NoReload
  <2>7. \A d \in Changes : Holds(d)' => d = c
    BY <2>1 DEF Holds
  <2>8. \A d \in Changes : reload'[d].step \notin {"health", "register", "checks"}
    BY <1>9, <1>11, <2>1
  <2>9. pools'[installed] = pools[installed]
    BY <1>6, <2>3
  <2> HIDE DEF ConfOf, Holds, ReloadsDone
  <2> QED
    BY <1>2, <2>1, <2>3, <2>5, <2>6, <2>7, <2>8, <2>9 DEF InOrder
<1> QED
  BY <1>12, <1>13, <1>14 DEF ReloadInv

LEMMA InstallKept ==
  ASSUME ReloadInv, NEW c \in Changes, Install(c) \/ Register(c) PROVE ReloadInv'
<1> DEFINE k == reload[c].pool
           n == [reload[c] EXCEPT !.step = IF reload[c].step = "install" THEN "register" ELSE "checks"]
<1>1. /\ reload[c].step \in {"install", "register"}
      /\ reload' = [reload EXCEPT ![c] = n]
      /\ reload[c].step = "install" => installed' = k /\ registered' = registered
      /\ reload[c].step = "register" => installed' = installed /\ registered' = pools[k].health
      /\ UNCHANGED <<saved, saves, pools, checked, stopped, round, troubled>>
  BY DEF Install, Register, Goto, confVars, checkVars
<1>2. reload[c] \in Steps
  BY DEF ReloadInv, ReloadShape
<1>3. /\ n \in Steps /\ n.pool = k
      /\ n.step = IF reload[c].step = "install" THEN "register" ELSE "checks"
  BY <1>1, <1>2 DEF Steps
<1>4. Holds(c) /\ k \in PoolIds /\ installed \in PoolIds
  BY <1>1 DEF Holds, ReloadInv, ReloadShape, ChecksApart
<1> HIDE DEF n
<1>5. /\ reload' \in [Changes -> Steps] /\ reload'[c] = n
      /\ \A d \in Changes : d # c => reload'[d] = reload[d]
      /\ ~troubled => \A d \in Changes : d # c => reload[d] = NoReload /\ reload[d].step = "idle"
      /\ ~ReloadsDone
  BY <1>1, <1>3, Onward
<1>6. ReloadShape'
  BY <1>1, <1>4, <1>5 DEF ReloadInv, ReloadShape, PoolIds
<1>7. \A d \in Changes : (Holds(d)' <=> Holds(d)) /\ (Holds(d) => reload'[d].pool = reload[d].pool)
  BY <1>3, <1>4, <1>5 DEF Holds
<1>8. ChecksApart'
  <2> HIDE DEF Holds
  <2> QED
    BY <1>1, <1>7 DEF ReloadInv, ChecksApart, PoolIds
<1>9. InOrder'
  <2> SUFFICES ASSUME ~troubled PROVE InOrder'
    BY <1>1 DEF InOrder
  <2>1. \A d \in Changes : d # c => reload'[d] = NoReload /\ reload'[d].step = "idle"
    BY <1>5
  <2>2. ConfOf(reload[c].pool)' = saved
    BY <1>1, <1>3, <1>4, <1>5 DEF ConfOf, ReloadInv, InOrder
  <2>3. ~ReloadsDone'
    BY <1>3, <1>5 DEF ReloadsDone, NoReload
  <2>4. reload[c].step = "register" => installed = k
    BY DEF ReloadInv, InOrder
  <2>5. installed' = k /\ (reload[c].step = "register" => registered' = pools'[installed'].health)
    BY <1>1, <2>4
  <2>6. n.step \in {"register", "checks"} /\ (n.step = "checks" => reload[c].step = "register")
    BY <1>1, <1>3
  <2>7. \A d \in Changes : Holds(d)' => d = c
    BY <2>1 DEF Holds
  <2>8. \A d \in Changes : reload'[d].step # "idle" => d = c
    BY <2>1
  <2>9. \A d, e \in Changes : reload'[d] # NoReload /\ reload'[e] # NoReload => d = e
    BY <2>1
  <2> HIDE DEF ConfOf, Holds, ReloadsDone, k
  <2> QED
    BY <1>1, <1>3, <1>5, <2>2, <2>3, <2>5, <2>6, <2>7, <2>8, <2>9 DEF InOrder
<1> QED
  BY <1>6, <1>8, <1>9 DEF ReloadInv

LEMMA SwapKept ==
  ASSUME ReloadInv, NEW c \in Changes, SwapChecks(c) PROVE ReloadInv'
<1> DEFINE k == reload[c].pool
<1>1. /\ reload[c].step = "checks" /\ stopped' = stopped \cup {checked} /\ checked' = k
      /\ round' = IF pools[k].active THEN [round EXCEPT ![k] = "alive"] ELSE round
      /\ reload' = [reload EXCEPT ![c] = NoReload]
      /\ UNCHANGED <<saved, saves, pools, installed, registered, troubled>>
  BY DEF SwapChecks, StartChecks, Goto, confVars, poolVars
<1>2. /\ k \in PoolIds \ (stopped \cup {checked}) /\ round[k] = "none"
      /\ \A d \in Changes : Holds(d) /\ reload[d].pool = k => d = c
      /\ checked \in PoolIds /\ stopped \subseteq PoolIds
      /\ round \in Seq({"none", "alive"}) /\ Len(round) = Len(pools)
  BY <1>1 DEF Holds, ReloadInv, ReloadShape, ChecksApart
<1>3. NoReload \in Steps /\ NoReload.step = "idle"
  BY DEF Steps, NoReload
<1>4. /\ reload' \in [Changes -> Steps] /\ reload'[c] = NoReload
      /\ \A d \in Changes : d # c => reload'[d] = reload[d]
      /\ ~troubled => \A d \in Changes : d # c => reload[d] = NoReload /\ reload[d].step = "idle"
  BY <1>1, <1>3, Onward
<1> HIDE DEF k
<1>5. /\ round' \in Seq({"none", "alive"}) /\ Len(round') = Len(round)
      /\ \A q \in PoolIds : q # k => round'[q] = round[q]
      /\ round'[k] = IF pools[k].active THEN "alive" ELSE "none"
  <2>1. k \in 1..Len(round)
    BY <1>2 DEF PoolIds
  <2>2. CASE pools[k].active
    <3>1. round' = [round EXCEPT ![k] = "alive"]
      BY <1>1, <2>2
    <3>2. Len(round') = Len(round) /\ round' \in Seq({"none", "alive"})
      BY <1>2, <2>1, <3>1
    <3>3. \A q \in 1..Len(round) : round'[q] = IF q = k THEN "alive" ELSE round[q]
      BY <1>2, <3>1
    <3> QED
      BY <1>2, <2>1, <2>2, <3>2, <3>3 DEF PoolIds
  <2>3. CASE ~ pools[k].active
    BY <1>1, <1>2, <2>3
  <2> QED
    BY <2>2, <2>3
<1>6. ReloadShape'
  BY <1>1, <1>2, <1>4, <1>5 DEF ReloadInv, ReloadShape, PoolIds
<1>7. ChecksApart'
  <2>1. PoolIds' = PoolIds /\ pools' = pools
    BY <1>1 DEF PoolIds
  <2>2. \A d \in Changes : Holds(d)' => d # c /\ Holds(d) /\ reload'[d] = reload[d]
    BY <1>3, <1>4 DEF Holds
  <2>3. \A q \in PoolIds : round'[q] = "alive" => pools[q].active /\ (q \in stopped' \/ q = checked')
    <3> SUFFICES ASSUME NEW q \in PoolIds, round'[q] = "alive"
                 PROVE  pools[q].active /\ (q \in stopped' \/ q = checked')
      OBVIOUS
    <3>1. CASE q = k
      BY <1>1, <1>5, <3>1
    <3>2. CASE q # k
      BY <1>1, <1>5, <3>2 DEF ReloadInv, ChecksApart
    <3> QED
      BY <3>1, <3>2
  <2>4. checked' \notin stopped' /\ (pools[checked'].active => round'[checked'] = "alive")
    BY <1>1, <1>2, <1>5
  <2>5. \A d \in Changes : Holds(d) /\ d # c =>
          /\ reload[d].pool \in PoolIds \ (stopped' \cup {checked'})
          /\ round'[reload[d].pool] = "none"
          /\ \A e \in Changes : Holds(e) /\ reload[e].pool = reload[d].pool => e = d
    BY <1>1, <1>2, <1>5 DEF ReloadInv, ChecksApart
  <2> HIDE DEF Holds
  <2> QED
    BY <2>1, <2>2, <2>3, <2>4, <2>5 DEF ChecksApart
<1>8. InOrder'
  <2> SUFFICES ASSUME ~troubled PROVE InOrder'
    BY <1>1 DEF InOrder
  <2>1. \A d \in Changes : reload'[d] = NoReload /\ reload'[d].step = "idle"
    BY <1>3, <1>4
  <2>2. installed = k /\ registered = pools[installed].health /\ ConfOf(k) = saved
    BY <1>1 DEF ReloadInv, InOrder, Holds, k
  <2>3. ConfOf(installed)' = saved'
    BY <1>1, <2>2 DEF ConfOf
  <2> HIDE DEF ConfOf
  <2> QED
    BY <1>1, <2>1, <2>2, <2>3 DEF InOrder, Holds
<1> QED
  BY <1>6, <1>7, <1>8 DEF ReloadInv

LEMMA StopKept ==
  ASSUME ReloadInv, NEW p \in PoolIds, StopChecks(p) PROVE ReloadInv'
<1>1. /\ p \in stopped /\ round' = [round EXCEPT ![p] = "none"]
      /\ UNCHANGED <<saved, saves, pools, installed, registered, checked, stopped, reload, troubled>>
  BY DEF StopChecks, confVars, poolVars
<1>2. /\ round \in Seq({"none", "alive"}) /\ Len(round) = Len(pools)
      /\ p \in 1..Len(round)
  BY DEF ReloadInv, ReloadShape, PoolIds
<1>3. round' \in Seq({"none", "alive"}) /\ Len(round') = Len(round)
  BY <1>1, <1>2
<1>4. \A q \in PoolIds : round'[q] = IF q = p THEN "none" ELSE round[q]
  BY <1>1, <1>2 DEF ReloadInv, ReloadShape, PoolIds
<1>5. ReloadShape'
  BY <1>1, <1>3 DEF ReloadInv, ReloadShape, PoolIds
<1>6. ChecksApart'
  <2>1. checked \in PoolIds /\ checked # p
    BY <1>1 DEF ReloadInv, ReloadShape, ChecksApart
  <2> HIDE DEF Holds
  <2>2. \A c \in Changes : Holds(c)' <=> Holds(c)
    BY <1>1 DEF Holds
  <2>3. PoolIds' = PoolIds
    BY <1>1 DEF PoolIds
  <2> QED
    BY <1>1, <1>4, <2>1, <2>2, <2>3 DEF ReloadInv, ChecksApart
<1>7. InOrder'
  BY <1>1 DEF ReloadInv, InOrder, ConfOf, Holds, ReloadsDone
<1> QED
  BY <1>5, <1>6, <1>7 DEF ReloadInv

LEMMA ReloadNext == ReloadInv /\ [Next]_vars => ReloadInv'
<1> SUFFICES ASSUME ReloadInv, [Next]_vars PROVE ReloadInv'
  OBVIOUS
<1>1. ASSUME NEW conf \in Configs, Save(conf) PROVE ReloadInv'
  BY <1>1, SaveKept
<1>2. ASSUME NEW c \in Changes, ReloadStep(c) PROVE ReloadInv'
  BY <1>2, ReadKept, BuildKept, InstallKept, SwapKept DEF ReloadStep
<1>3. ASSUME NEW p \in PoolIds, StopChecks(p) PROVE ReloadInv'
  BY <1>3, StopKept
<1>4. ASSUME NEW p \in PoolIds, StartRound(p) PROVE ReloadInv'
  BY <1>4, ReloadStays DEF StartRound, confVars, poolVars
<1>5. ASSUME NEW b \in probes, NEW ok \in BOOLEAN, ProbeEnds(b, ok) PROVE ReloadInv'
  BY <1>5, ReloadStays DEF ProbeEnds, confVars
<1>6. ASSUME NEW o \in ObjIds, CooldownEnds(o) PROVE ReloadInv'
  BY <1>6, ReloadStays DEF CooldownEnds, confVars, checkVars
<1>7. ASSUME NEW u \in URLs, Flip(u) PROVE ReloadInv'
  BY <1>7, ReloadStays DEF Flip, confVars, poolVars, checkVars
<1>8. ASSUME NEW r \in Requests, NEW safe \in BOOLEAN, Begin(r, safe) PROVE ReloadInv'
  BY <1>8, ReloadStays DEF Begin, confVars, poolVars, checkVars
<1>9. ASSUME NEW r \in Requests, RequestStep(r) \/ HungUp(r) PROVE ReloadInv'
  BY <1>9, ReloadStays
  DEF RequestStep, Send, NoneLeft, Answered, Failed, HungUp, confVars, poolVars, checkVars
<1>10. CASE UNCHANGED vars
  BY <1>10, ReloadStays DEF vars, confVars, poolVars, checkVars
<1> QED
  BY <1>1, <1>2, <1>3, <1>4, <1>5, <1>6, <1>7, <1>8, <1>9, <1>10 DEF Next

\* Registry.Reload: three swaps under three locks belong together once they are
\* done: unless a reload failed or met another, requests use the pool of the
\* saved settings, its health objects are those the next reload carries over,
\* and its checks, if any, are the only ones that go on.
THEOREM InstalledTogetherHolds == Spec => []InstalledTogether
<1>1. ReloadInv => InstalledTogether
  <2> SUFFICES ASSUME ReloadInv, ReloadsDone, ~troubled PROVE InstalledTogether
    BY DEF InstalledTogether
  <2>1. \A c \in Changes : reload[c].step \notin {"register", "checks"}
    BY DEF ReloadsDone, NoReload
  <2>2. /\ ConfOf(installed) = saved /\ installed = checked
        /\ registered = pools[installed].health
    BY <2>1 DEF ReloadInv, InOrder
  <2> QED
    BY <2>2 DEF ReloadInv, ChecksApart, ConfOf, InstalledTogether
<1> QED
  BY <1>1, ReloadInit, ReloadNext, PTL DEF Spec

-----------------------------------------------------------------------------
(* What a request has tried. *)

PoolsServe == \A p \in PoolIds : ConfOf(p) \in Configs

\* A request that waits for its second backend has failed at one of its pool,
\* and one that was sent twice was sent to two.
Tried(q) ==
  LET urls == pools[q.pool].urls IN
  /\ q.step = "pick" =>
       /\ q.pool \in PoolIds
       /\ q.sends = 0 => q.tried = {}
       /\ q.sends = 1 => \E u \in urls : q.tried = {u}
  /\ q.step = "sent" =>
       /\ q.pool \in PoolIds
       /\ q.to \in urls /\ q.tried = {q.to}
       /\ q.sends = 2 => \E v \in urls : v # q.to

TriedInv == RetryInv /\ ReloadInv /\ PoolsServe /\ \A r \in Requests : Tried(req[r])

LEMMA TriedInit == Init => TriedInv
<1> SUFFICES ASSUME Init PROVE TriedInv
  OBVIOUS
<1>1. Len(pools) = 1 /\ pools[1].urls = saved.urls /\ pools[1].active = saved.active
  BY DEF Init
<1>2. saved = [urls |-> saved.urls, active |-> saved.active] /\ saved \in Configs
  BY BackendsAssumption DEF Init
<1>3. PoolsServe
  BY <1>1, <1>2 DEF PoolsServe, PoolIds, ConfOf
<1>4. \A r \in Requests : Tried(req[r])
  BY DEF Init, NoReq, Tried
<1> QED BY <1>3, <1>4, RetryInit, ReloadInit DEF TriedInv

\* A pool that was made stays as it is.
LEMMA PoolsGrow ==
  ASSUME TriedInv, [Next]_vars
  PROVE  /\ PoolsServe'
         /\ PoolIds \subseteq PoolIds'
         /\ \A p \in PoolIds : pools'[p] = pools[p]
<1>1. CASE UNCHANGED pools
  BY <1>1 DEF TriedInv, PoolsServe, PoolIds, ConfOf
<1>2. ASSUME NEW c \in Changes, Build(c)
      PROVE  /\ PoolsServe' /\ PoolIds \subseteq PoolIds'
             /\ \A p \in PoolIds : pools'[p] = pools[p]
  <2> DEFINE conf == reload[c].conf
  <2>1. conf \in Configs
    <3>1. reload[c] \in Steps /\ reload[c].step = "health"
      BY <1>2 DEF Build, TriedInv, ReloadInv, ReloadShape
    <3> QED BY <3>1 DEF Steps
  <2>2. PICK new : /\ pools' = Append(pools, new)
                   /\ new.urls = conf.urls /\ new.active = conf.active
    <3> DEFINE fresh == conf.urls \ DOMAIN registered
    <3>1. PICK h : h = [u \in conf.urls |->
                          IF u \in fresh THEN Numbered(fresh, Len(objs))[u] ELSE registered[u]]
      OBVIOUS
    <3>2. pools' = Append(pools, [urls |-> conf.urls, active |-> conf.active, health |-> h])
      BY <1>2, <3>1 DEF Build
    <3> QED BY <3>2
  <2>3. conf = [urls |-> conf.urls, active |-> conf.active]
    BY <2>1, BackendsAssumption
  <2>4. PICK S : pools \in Seq(S)
    BY DEF TriedInv, ReloadInv, ReloadShape
  <2>5. /\ Len(pools) \in Nat /\ Len(pools') = Len(pools) + 1
        /\ pools'[Len(pools) + 1] = new
        /\ \A p \in 1..Len(pools) : pools'[p] = pools[p]
    BY <2>2, <2>4
  <2>6. ASSUME NEW p \in PoolIds' PROVE ConfOf(p)' \in Configs
    <3>1. CASE p \in PoolIds
      BY <2>5, <3>1 DEF TriedInv, PoolsServe, PoolIds, ConfOf
    <3>2. CASE p = Len(pools) + 1
      BY <2>1, <2>2, <2>3, <2>5, <3>2 DEF ConfOf
    <3> QED BY <2>5, <3>1, <3>2 DEF PoolIds
  <2> QED BY <2>5, <2>6 DEF PoolsServe, PoolIds
<1>3. (\E c \in Changes : Build(c)) \/ UNCHANGED pools
  BY DEF Next, Save, ReloadStep, ReadList, ReadFails, Install, Register, SwapChecks,
         StartRound, ProbeEnds, StopChecks, CooldownEnds, Flip, Begin, RequestStep, Send,
         NoneLeft, Answered, Failed, HungUp, poolVars, vars
<1> QED BY <1>1, <1>2, <1>3

LEMMA TriedLater ==
  ASSUME TriedInv, [Next]_vars, NEW r \in Requests, req'[r] = req[r]
  PROVE  Tried(req[r])'
<1>1. /\ PoolIds \subseteq PoolIds' /\ \A p \in PoolIds : pools'[p] = pools[p]
  BY PoolsGrow
<1>2. Tried(req[r])
  BY DEF TriedInv
<1> QED BY <1>1, <1>2 DEF Tried

LEMMA TriedNext == TriedInv /\ [Next]_vars => TriedInv'
<1> SUFFICES ASSUME TriedInv, [Next]_vars PROVE TriedInv'
  OBVIOUS
<1>1. /\ PoolsServe' /\ PoolIds \subseteq PoolIds'
      /\ \A p \in PoolIds : pools'[p] = pools[p]
  BY PoolsGrow
<1>2. RetryInv' /\ ReloadInv'
  BY RetryStep, ReloadNext DEF TriedInv
<1>3. req = [r \in Requests |-> req[r]]
  BY DEF TriedInv, RetryInv
<1>4. SUFFICES ASSUME NEW r \in Requests PROVE Tried(req[r])'
  BY <1>1, <1>2 DEF TriedInv
<1>5. CASE req'[r] = req[r]
  BY <1>5, TriedLater
<1>6. ASSUME NEW safe \in BOOLEAN, Begin(r, safe) PROVE Tried(req[r])'
  <2>1. req'[r] = [step |-> "pick", pool |-> installed, safe |-> safe, tried |-> {}, sends |-> 0]
    BY <1>3, <1>6 DEF Begin
  <2>2. installed \in PoolIds
    BY DEF TriedInv, ReloadInv, ReloadShape
  <2> QED BY <1>1, <2>1, <2>2 DEF Tried
<1>7. ASSUME NEW u \in URLs, Send(r, u) PROVE Tried(req[r])'
  <2> DEFINE q == req[r]
             urls == pools[q.pool].urls
  <2>1. /\ q.step = "pick" /\ u \in Picks(q.pool, q.tried)
        /\ req'[r] = [step |-> "sent", pool |-> q.pool, safe |-> q.safe,
                      tried |-> {u}, sends |-> q.sends + 1, to |-> u, was |-> alive[u]]
    BY <1>3, <1>7 DEF Send
  <2>2. u \in urls \ q.tried
    BY <2>1 DEF Picks
  <2>3. /\ q.pool \in PoolIds
        /\ q.sends = 0 \/ q.sends = 1
        /\ q.sends = 1 => \E v \in urls : q.tried = {v}
    BY <2>1 DEF TriedInv, Tried, RetryInv, Attempts
  <2>4. pools'[q.pool].urls = urls /\ q.pool \in PoolIds'
    BY <1>1, <2>1 DEF TriedInv, Tried
  <2>5. q.sends + 1 = 2 => \E v \in urls : v # u
    BY <2>2, <2>3
  <2> QED BY <2>1, <2>2, <2>4, <2>5 DEF Tried
<1>8. CASE req'[r].step = "over"
  BY <1>8 DEF Tried
<1>9. ASSUME Failed(r) PROVE Tried(req[r])'
  <2>1. CASE req[r].safe /\ req[r].sends = 1
    <3>1. /\ req'[r] = [req[r] EXCEPT !.step = "pick"] /\ req[r].step = "sent"
      BY <1>3, <1>9, <2>1 DEF Failed
    <3>2. SentRecord(req[r]) /\ Tried(req[r])
      BY <3>1 DEF TriedInv, RetryInv, Attempts
    <3>3. /\ req'[r].step = "pick" /\ req'[r].pool = req[r].pool
          /\ req'[r].tried = req[r].tried /\ req'[r].sends = 1
      BY <2>1, <3>1, <3>2 DEF SentRecord
    <3>4. /\ req[r].pool \in PoolIds /\ req[r].tried = {req[r].to}
          /\ req[r].to \in pools[req[r].pool].urls
      BY <3>1, <3>2 DEF Tried
    <3>5. req[r].pool \in PoolIds' /\ pools'[req[r].pool] = pools[req[r].pool]
      BY <1>1, <3>4
    <3> QED BY <3>3, <3>4, <3>5 DEF Tried
  <2>2. CASE ~(req[r].safe /\ req[r].sends = 1)
    <3>1. req'[r].step = "over"
      BY <1>3, <1>9, <2>2 DEF Failed, Over
    <3> QED BY <1>8, <3>1
  <2> QED BY <2>1, <2>2
<1>10. \/ req'[r] = req[r] \/ req'[r].step = "over" \/ Failed(r)
       \/ \E safe \in BOOLEAN : Begin(r, safe)
       \/ \E u \in URLs : Send(r, u)
  <2>1. CASE UNCHANGED req
    BY <2>1
  <2>2. ASSUME NEW p \in Requests, NEW safe \in BOOLEAN, Begin(p, safe)
        PROVE  p = r \/ req'[r] = req[r]
    BY <1>3, <2>2 DEF Begin
  <2>3. ASSUME NEW p \in Requests, NEW u \in URLs, Send(p, u)
        PROVE  p = r \/ req'[r] = req[r]
    BY <1>3, <2>3 DEF Send
  <2>4. ASSUME NEW p \in Requests, Over(p)
        PROVE  (p = r /\ req'[r].step = "over") \/ req'[r] = req[r]
    BY <1>3, <2>4 DEF Over
  <2>5. ASSUME NEW p \in Requests, NoneLeft(p) \/ Answered(p) \/ HungUp(p)
        PROVE  Over(p)
    BY <2>5 DEF NoneLeft, Answered, HungUp
  <2>6. ASSUME NEW p \in Requests, Failed(p) PROVE p = r \/ req'[r] = req[r]
    BY <1>3, <2>6 DEF Failed, Over
  <2>7. \/ UNCHANGED req
        \/ \E p \in Requests : \/ Failed(p) \/ NoneLeft(p) \/ Answered(p) \/ HungUp(p)
                               \/ \E safe \in BOOLEAN : Begin(p, safe)
                               \/ \E u \in URLs : Send(p, u)
    BY DEF Next, Save, ReloadStep, ReadList, ReadFails, Build, Install, Register, SwapChecks,
           StartRound, ProbeEnds, StopChecks, CooldownEnds, Flip, RequestStep, vars
  <2> QED BY <2>1, <2>2, <2>3, <2>4, <2>5, <2>6, <2>7
<1> QED BY <1>5, <1>6, <1>7, <1>8, <1>9, <1>10

\* What a client is told after the last attempt: a safe request failed at two
\* backends of its pool, or at its only one (ErrorHandler, pool.serve), whatever
\* reloads, checks and other requests did to the pool meanwhile.
THEOREM BadGatewayOnlyAfterRetryHolds == Spec => BadGatewayOnlyAfterRetry
<1>1. TriedInv /\ [Next]_vars =>
        [\A r \in Requests :
           (Failed(r) \/ NoneLeft(r)) /\ req'[r].step = "over" /\ req[r].safe =>
             req[r].sends = Lower(2, Cardinality(pools[req[r].pool].urls))]_vars
  <2> SUFFICES ASSUME TriedInv, NEW r \in Requests, Failed(r) \/ NoneLeft(r),
                      req'[r].step = "over", req[r].safe
               PROVE  req[r].sends = Lower(2, Cardinality(pools[req[r].pool].urls))
    OBVIOUS
  <2> DEFINE q == req[r]
             urls == pools[q.pool].urls
  <2>1. Tried(q) /\ Attempts(q) /\ req = [p \in Requests |-> req[p]]
    BY DEF TriedInv, RetryInv
  <2>2. q.pool \in PoolIds
    BY <2>1 DEF Failed, NoneLeft, Tried
  <2>3. IsFiniteSet(urls) /\ urls # {}
    <3>1. ConfOf(q.pool) \in Configs /\ ConfOf(q.pool).urls = urls
      BY <2>2 DEF TriedInv, PoolsServe, ConfOf
    <3>2. \A conf \in Configs : IsFiniteSet(conf.urls) /\ conf.urls # {}
      <4>1. \A conf \in [urls : (SUBSET URLs) \ {{}}, active : BOOLEAN] : conf.urls # {}
        OBVIOUS
      <4>2. Configs \subseteq [urls : (SUBSET URLs) \ {{}}, active : BOOLEAN]
            /\ \A conf \in Configs : IsFiniteSet(conf.urls)
        BY BackendsAssumption
      <4> QED BY <4>1, <4>2
    <3> HIDE DEF urls
    <3> QED BY <3>1, <3>2
  <2>4. CASE Failed(r)
    <3>1. q.step = "sent" /\ q.sends # 1
      <4>1. CASE q.sends = 1
        <5>1. req'[r] = [q EXCEPT !.step = "pick"]
          BY <2>1, <2>4, <4>1 DEF Failed
        <5>2. SentRecord(q)
          BY <2>1, <2>4 DEF Failed, Attempts
        <5>3. req'[r].step = "pick"
          BY <5>1, <5>2 DEF SentRecord
        <5> QED BY <5>3
      <4> QED BY <2>4, <4>1 DEF Failed
    <3>2. q.sends = 2 /\ q.to \in urls
      BY <2>1, <3>1 DEF Attempts, Tried
    <3>3. PICK v \in urls : v # q.to
      BY <2>1, <3>1, <3>2 DEF Tried
    <3>4. PICK u \in urls : u = q.to
      BY <3>2
    <3>5. {u, v} \subseteq urls /\ Cardinality({u, v}) = 2 /\ IsFiniteSet({u, v})
      <4>1. IsFiniteSet({u}) /\ Cardinality({u}) = 1
        BY FS_Singleton
      <4>2. {u, v} = {u} \cup {v} /\ v \notin {u}
        BY <3>3, <3>4
      <4> QED BY <4>1, <4>2, FS_AddElement
    <3>6. 2 <= Cardinality(urls) /\ Cardinality(urls) \in Nat
      BY <2>3, <3>5, FS_Subset, FS_CardinalityType
    <3> QED BY <3>2, <3>6 DEF Lower
  <2>5. CASE NoneLeft(r)
    <3>1. q.step = "pick" /\ urls \ q.tried = {}
      BY <2>5 DEF NoneLeft, Picks
    <3>2. q.sends = 1 /\ \E u \in urls : q.tried = {u}
      BY <2>1, <2>3, <3>1 DEF Attempts, Tried
    <3>3. PICK u \in urls : urls = {u}
      BY <3>1, <3>2
    <3>4. Cardinality(urls) = 1
      BY <3>3, FS_Singleton
    <3> QED BY <3>2, <3>4 DEF Lower
  <2> QED BY <2>4, <2>5
<1> QED BY <1>1, TriedInit, TriedNext, PTL DEF Spec, BadGatewayOnlyAfterRetry
=============================================================================
