------------------------------ MODULE Backends ------------------------------
(***************************************************************************)
(* One service's backends: the registry that rebuilds the service's pool   *)
(* on every change of its settings (internal/services/registry.go), the    *)
(* pool that balances and retries requests and takes failing backends out  *)
(* of rotation, and the active health checks (balancer.go).                *)
(*                                                                         *)
(* Three things are installed by three separate steps of Reload: the pool  *)
(* requests use, the health objects the next reload carries over, and the  *)
(* stop channel of the running checks.  Old pools, their requests and      *)
(* their last round of checks live on and share the health objects.        *)
(***************************************************************************)
EXTENDS Naturals, Sequences, FiniteSets

CONSTANTS
  URLs,      \* backend URLs
  Fragile,   \* those that may be down
  Requests,  \* proxied requests
  Configs,   \* what an admin may save: records [urls, active]
  MaxSaves,  \* bound on the changes
  MaxFlips   \* bound on backends dying and coming back

\* ValidateBackends lets no service be without a backend.
ASSUME BackendsAssumption ==
  /\ Configs \subseteq [urls : (SUBSET URLs) \ {{}}, active : BOOLEAN]
  /\ Configs # {}
  /\ \A conf \in Configs : IsFiniteSet(conf.urls)
  /\ Fragile \subseteq URLs
  /\ MaxSaves \in Nat /\ MaxFlips \in Nat

VARIABLES
  saved,       \* the service's row: its backends, and whether it has a
               \* health path
  saves,       \* changes so far
  objs,        \* every backendHealth made: "up", "cooling", or "out"
  pools,       \* every pool made: [urls, active, health : url -> object]
  installed,   \* Registry.proxies: the pool of new requests
  registered,  \* Registry.health: url -> object, for some urls
  checked,     \* the pool whose Reload made Registry.stopCheck
  stopped,     \* pools whose stop channel is closed
  round,       \* pool -> its check goroutine: "none" or "alive"
  probes,      \* probes in progress: [pool, url, was]
  reload,      \* change -> where its handler's Reload is, and what that has
               \* read or made
  alive,       \* url -> whether the backend answers
  flips,       \* changes of alive so far
  req,         \* request -> how far it is
  troubled     \* some reload overlapped another, or could not read the
               \* settings (history)

confVars == <<saved, saves>>
poolVars == <<objs, pools, installed, registered>>
checkVars == <<checked, stopped, round, probes>>
envVars == <<alive, flips>>
vars == <<confVars, poolVars, checkVars, reload, envVars, req, troubled>>

Changes == 1..MaxSaves
PoolIds == 1..Len(pools)
ObjIds == 1..Len(objs)
NoReload == [step |-> "idle"]
NoReq == [step |-> "none"]
ReloadsDone == \A c \in Changes : reload[c] = NoReload
Object(p, u) == pools[p].health[u]

\* New objects for the urls, numbered from n + 1.
Numbered(urls, n) ==
  CHOOSE id \in [urls -> n+1..n+Cardinality(urls)] :
    \A u, v \in urls : id[u] = id[v] => u = v

\* A round of checks: a probe of every backend of the pool.
Round(p) ==
  {[pool |-> p, url |-> u, was |-> alive[u]] : u \in pools[p].urls}

\* A pool's check goroutine exists and is not in the middle of a round.
Waiting(p) == round[p] = "alive" /\ \A b \in probes : b.pool # p

TypeOK ==
  /\ saved \in Configs
  /\ saves \in 0..MaxSaves
  /\ \A o \in ObjIds : objs[o] \in {"up", "cooling", "out"}
  /\ \A p \in PoolIds :
       /\ [urls |-> pools[p].urls, active |-> pools[p].active] \in Configs
       /\ pools[p].health \in [pools[p].urls -> ObjIds]
  /\ installed \in PoolIds
  /\ DOMAIN registered \subseteq URLs
  /\ \A u \in DOMAIN registered : registered[u] \in ObjIds
  /\ checked \in PoolIds
  /\ stopped \subseteq PoolIds
  /\ round \in [PoolIds -> {"none", "alive"}]
  /\ \A b \in probes : b.pool \in PoolIds /\ b.url \in pools[b.pool].urls
  /\ \A c \in Changes :
       reload[c].step \in {"idle", "list", "health", "install", "register",
                           "checks"}
  /\ alive \in [URLs -> BOOLEAN]
  /\ flips \in 0..MaxFlips
  /\ \A r \in Requests :
       /\ req[r].step \in {"none", "pick", "sent", "over"}
       /\ req[r].step \notin {"none", "over"} => req[r].pool \in PoolIds
  /\ troubled \in BOOLEAN

\* New has made the first pool; nothing has been reached yet.
Init ==
  /\ saved \in Configs
  /\ saves = 0
  /\ registered = Numbered(saved.urls, 0)
  /\ pools = <<[urls |-> saved.urls, active |-> saved.active,
               health |-> registered]>>
  /\ objs = [o \in 1..Cardinality(saved.urls) |-> "up"]
  /\ installed = 1
  /\ checked = 1
  /\ stopped = {}
  /\ round = <<IF saved.active THEN "alive" ELSE "none">>
  /\ \E down \in SUBSET Fragile : alive = [u \in URLs |-> u \notin down]
  /\ probes = IF saved.active THEN Round(1) ELSE {}
  /\ reload = [c \in Changes |-> NoReload]
  /\ flips = 0
  /\ req = [r \in Requests |-> NoReq]
  /\ troubled = FALSE

----------------------------------------------------------------------------
(* Changing the service.                                                    *)

Goto(c, next) == reload' = [reload EXCEPT ![c] = next]

\* SetServiceBackends and its API twins: the row is saved, then the handler
\* of this change calls Reload.
Save(conf) ==
  /\ saves < MaxSaves
  /\ saves' = saves + 1
  /\ saved' = conf
  /\ troubled' = (troubled \/ ~ReloadsDone)
  /\ Goto(saves', [step |-> "list"])
  /\ UNCHANGED <<poolVars, checkVars, envVars, req>>

\* ListServices, or the error that ends the Reload.
ReadFails(c) ==
  /\ reload[c].step = "list"
  /\ troubled' = TRUE
  /\ Goto(c, NoReload)
  /\ UNCHANGED <<confVars, poolVars, checkVars, envVars, req>>

ReadList(c) ==
  /\ reload[c].step = "list"
  /\ Goto(c, [step |-> "health", conf |-> saved])
  /\ UNCHANGED <<confVars, poolVars, checkVars, envVars, req, troubled>>

\* The old health map is read and the pool built: known backends keep their
\* objects, others get new ones.
Build(c) ==
  /\ reload[c].step = "health"
  /\ LET conf == reload[c].conf
         new == conf.urls \ DOMAIN registered
         made == Numbered(new, Len(objs))
     IN /\ objs' = objs \o [i \in 1..Cardinality(new) |-> "up"]
        /\ pools' = Append(pools,
             [urls |-> conf.urls, active |-> conf.active,
              health |-> [u \in conf.urls |-> IF u \in new THEN made[u]
                                                           ELSE registered[u]]])
  /\ round' = Append(round, "none")
  /\ Goto(c, [step |-> "install", pool |-> Len(pools')])
  /\ UNCHANGED <<confVars, installed, registered, checked, stopped, probes,
                 envVars, req, troubled>>

\* The swap of list and proxies.
Install(c) ==
  /\ reload[c].step = "install"
  /\ installed' = reload[c].pool
  /\ Goto(c, [reload[c] EXCEPT !.step = "register"])
  /\ UNCHANGED <<confVars, objs, pools, registered, checkVars, envVars, req,
                 troubled>>

\* The swap of the health map.
Register(c) ==
  /\ reload[c].step = "register"
  /\ registered' = pools[reload[c].pool].health
  /\ Goto(c, [reload[c] EXCEPT !.step = "checks"])
  /\ UNCHANGED <<confVars, objs, pools, installed, checkVars, envVars, req,
                 troubled>>

\* The pool's checks, if the service has a health path, begin with a round.
StartChecks(p) ==
  IF pools[p].active
    THEN /\ round' = [round EXCEPT ![p] = "alive"]
         /\ probes' = probes \cup Round(p)
    ELSE UNCHANGED <<round, probes>>

\* Mutant: the channel of the previous checks is replaced, not closed.
SwapChecksOnly(c) ==
  /\ reload[c].step = "checks"
  /\ checked' = reload[c].pool
  /\ StartChecks(checked')
  /\ Goto(c, NoReload)
  /\ UNCHANGED <<confVars, poolVars, stopped, envVars, req, troubled>>

\* Mutant: the channel that is closed is the one the new checks watch.
SwapClosesNew(c) ==
  /\ reload[c].step = "checks"
  /\ stopped' = stopped \cup {checked, reload[c].pool}
  /\ checked' = reload[c].pool
  /\ StartChecks(checked')
  /\ Goto(c, NoReload)
  /\ UNCHANGED <<confVars, poolVars, envVars, req, troubled>>

\* The previous stop channel is closed and the new checks start.
SwapChecks(c) ==
  /\ reload[c].step = "checks"
  /\ stopped' = stopped \cup {checked}
  /\ checked' = reload[c].pool
  /\ StartChecks(checked')
  /\ Goto(c, NoReload)
  /\ UNCHANGED <<confVars, poolVars, envVars, req, troubled>>

ReloadStep(c) ==
  \/ ReadList(c)
  \/ ReadFails(c)
  \/ Build(c)
  \/ Install(c)
  \/ Register(c)
  \/ SwapChecks(c)

----------------------------------------------------------------------------
(* Health.                                                                  *)

Mark(o, state) == objs' = [objs EXCEPT ![o] = state]

\* An exchange that began when the backend's state was was has now ended: it
\* succeeded or failed as the backend stood at one moment of it.
MayEnd(url, was, ok) == ok \in {was, alive[url]}

\* The ticker of runChecks starts the next round.
StartRound(p) ==
  /\ Waiting(p)
  /\ probes' = probes \cup Round(p)
  /\ UNCHANGED <<confVars, poolVars, checked, stopped, round, reload, envVars,
                 req, troubled>>

\* A probe ends and marks its backend, whatever marked it meanwhile.
ProbeEnds(b, ok) ==
  /\ b \in probes
  /\ MayEnd(b.url, b.was, ok)
  /\ probes' = probes \ {b}
  /\ Mark(Object(b.pool, b.url), IF ok THEN "up" ELSE "out")
  /\ UNCHANGED <<confVars, pools, installed, registered, checked, stopped,
                 round, reload, envVars, req, troubled>>

\* Between two rounds the goroutine notices that its channel is closed.
StopChecks(p) ==
  /\ Waiting(p)
  /\ p \in stopped
  /\ round' = [round EXCEPT ![p] = "none"]
  /\ UNCHANGED <<confVars, poolVars, checked, stopped, probes, reload, envVars,
                 req, troubled>>

\* passiveCooldown is over.
CooldownEnds(o) ==
  /\ o \in ObjIds
  /\ objs[o] = "cooling"
  /\ Mark(o, "up")
  /\ UNCHANGED <<confVars, pools, installed, registered, checkVars, reload,
                 envVars, req, troubled>>

\* A backend dies or comes back.
Flip(u) ==
  /\ u \in Fragile
  /\ flips < MaxFlips
  /\ flips' = flips + 1
  /\ alive' = [alive EXCEPT ![u] = ~@]
  /\ UNCHANGED <<confVars, poolVars, checkVars, reload, req, troubled>>

----------------------------------------------------------------------------
(* Requests.                                                                *)

\* pick: any backend in rotation other than those in skip, or any at all if
\* none is; the policies only order them.
Picks(p, skip) ==
  LET in == {u \in pools[p].urls \ skip : objs[Object(p, u)] = "up"}
  IN  IF in # {} THEN in ELSE pools[p].urls \ skip

\* The request gets the pool that is installed now and keeps it.  Only a GET
\* or HEAD without a body is retryable.
Begin(r, safe) ==
  /\ req[r] = NoReq
  /\ req' = [req EXCEPT ![r] = [step |-> "pick", pool |-> installed,
               safe |-> safe, tried |-> {}, sends |-> 0]]
  /\ UNCHANGED <<confVars, poolVars, checkVars, reload, envVars, troubled>>

\* pool.serve: the request is sent to a backend that it has not tried.
Send(r, u) ==
  /\ req[r].step = "pick"
  /\ u \in Picks(req[r].pool, req[r].tried)
  /\ req' = [req EXCEPT ![r] =
       [step |-> "sent", pool |-> @.pool, safe |-> @.safe,
        tried |-> {u}, sends |-> @.sends + 1, to |-> u, was |-> alive[u]]]
  /\ UNCHANGED <<confVars, poolVars, checkVars, reload, envVars, troubled>>

\* The client has its answer, or has gone.
Over(r) == req' = [req EXCEPT ![r] = [step |-> "over"]]

\* No other backend to retry on.
NoneLeft(r) ==
  /\ req[r].step = "pick"
  /\ Picks(req[r].pool, req[r].tried) = {}
  /\ Over(r)
  /\ UNCHANGED <<confVars, poolVars, checkVars, reload, envVars, troubled>>

\* Any response, an error status too, puts the backend back in rotation.
Answered(r) ==
  /\ req[r].step = "sent"
  /\ MayEnd(req[r].to, req[r].was, TRUE)
  /\ Mark(Object(req[r].pool, req[r].to), "up")
  /\ Over(r)
  /\ UNCHANGED <<confVars, pools, installed, registered, checkVars, reload,
                 envVars, troubled>>

MarkFailed(r) ==
  Mark(Object(req[r].pool, req[r].to),
       IF pools[req[r].pool].active THEN "out" ELSE "cooling")

\* Mutant: whatever failed once is sent once more.
FailedRetriesAll(r) ==
  /\ req[r].step = "sent"
  /\ MayEnd(req[r].to, req[r].was, FALSE)
  /\ MarkFailed(r)
  /\ IF req[r].sends = 1
       THEN req' = [req EXCEPT ![r].step = "pick"]
       ELSE Over(r)
  /\ UNCHANGED <<confVars, pools, installed, registered, checkVars, reload,
                 envVars, troubled>>

\* Mutant: the retry flag is set before it is looked at.
FailedNeverRetries(r) ==
  /\ req[r].step = "sent"
  /\ MayEnd(req[r].to, req[r].was, FALSE)
  /\ MarkFailed(r)
  /\ Over(r)
  /\ UNCHANGED <<confVars, pools, installed, registered, checkVars, reload,
                 envVars, troubled>>

\* The ErrorHandler: the backend goes out of rotation, for the cooldown or
\* until an active check passes; a first failure of a safe request is retried
\* on another backend.
Failed(r) ==
  /\ req[r].step = "sent"
  /\ MayEnd(req[r].to, req[r].was, FALSE)
  /\ MarkFailed(r)
  /\ IF req[r].safe /\ req[r].sends = 1
       THEN req' = [req EXCEPT ![r].step = "pick"]
       ELSE Over(r)
  /\ UNCHANGED <<confVars, pools, installed, registered, checkVars, reload,
                 envVars, troubled>>

\* The client hangs up: that says nothing about the backend.
HungUp(r) ==
  /\ req[r].step = "sent"
  /\ Over(r)
  /\ UNCHANGED <<confVars, poolVars, checkVars, reload, envVars, troubled>>

RequestStep(r) ==
  \/ \E u \in URLs : Send(r, u)
  \/ NoneLeft(r)
  \/ Answered(r)
  \/ Failed(r)

----------------------------------------------------------------------------
Next ==
  \/ \E conf \in Configs : Save(conf)
  \/ \E c \in Changes : ReloadStep(c)
  \/ \E p \in PoolIds : StartRound(p)
  \/ \E b \in probes, ok \in BOOLEAN : ProbeEnds(b, ok)
  \/ \E p \in PoolIds : StopChecks(p)
  \/ \E o \in ObjIds : CooldownEnds(o)
  \/ \E u \in URLs : Flip(u)
  \/ \E r \in Requests, safe \in BOOLEAN : Begin(r, safe)
  \/ \E r \in Requests : RequestStep(r)
  \/ \E r \in Requests : HungUp(r)

Spec == Init /\ [][Next]_vars

\* Reloads run on, the check goroutines tick, every exchange ends (the shared
\* transport bounds it) and time passes.
Fairness ==
  /\ \A c \in Changes : WF_vars(ReloadStep(c))
  /\ \A p \in 1..MaxSaves+1 : WF_vars(p \in PoolIds /\ StartRound(p))
  /\ \A u \in URLs, p \in 1..MaxSaves+1 :
       WF_vars(\E b \in probes, ok \in BOOLEAN :
                 b.pool = p /\ b.url = u /\ ProbeEnds(b, ok))
  /\ \A p \in 1..MaxSaves+1 : SF_vars(p \in PoolIds /\ StopChecks(p))
  /\ \A r \in Requests : WF_vars(RequestStep(r))
  /\ WF_vars(\E o \in ObjIds : CooldownEnds(o))
FairSpec == Spec /\ Fairness

----------------------------------------------------------------------------
(* Properties.                                                              *)

\* A request that may have side effects reaches at most one backend, and no
\* request more than two: the retry happens once, however the two failures
\* and the reloads around them interleave.
SentAtMostTwice ==
  \A r \in Requests :
    req[r].step = "sent" =>
      req[r].sends <= IF req[r].safe THEN 2 ELSE 1

Lower(a, b) == IF a < b THEN a ELSE b

\* A client is told "bad gateway" for a safe request only after two different
\* backends of the pool failed it, or the only one there is.
BadGatewayOnlyAfterRetry ==
  [][\A r \in Requests :
       (Failed(r) \/ NoneLeft(r)) /\ req'[r].step = "over" /\ req[r].safe =>
         req[r].sends = Lower(2, Cardinality(pools[req[r].pool].urls))]_vars

\* Unless a reload failed or two overlapped, once they are done the three
\* things Reload installs belong together and to the saved settings: requests
\* use the pool of these settings, the next reload will carry over its health
\* objects, and it is this pool that is checked, if any is.
InstalledTogether ==
  ReloadsDone /\ ~troubled =>
    LET p == pools[installed] IN
      /\ [urls |-> p.urls, active |-> p.active] = saved
      /\ registered = p.health
      /\ \A q \in PoolIds : round[q] = "alive" =>
           q \in stopped \/ (q = installed /\ p.active)
      /\ p.active => round[installed] = "alive" /\ installed \notin stopped

Rotation(u) == objs[Object(installed, u)]

\* A backend that is up for good gets traffic again, if the service keeps an
\* active check and its reloads neither failed nor overlapped: no late failure
\* of a request, of an old pool or of an old round takes it out forever.
RecoveredBackendReturns ==
  \A u \in URLs :
    <>[](alive[u] /\ saved.active /\ u \in saved.urls /\ ~troubled)
      => []<>(u \in pools[installed].urls /\ Rotation(u) = "up")

\* "how long a backend that failed a real request sits out of the rotation when
\* its service has no active health check to bring it back sooner. After it,
\* the backend gets traffic again" (balancer.go, passiveCooldown): when nothing
\* is in progress, no backend of a service without a check is out for good.
NoneOutWithoutCheck ==
  (/\ ReloadsDone /\ probes = {}
   /\ \A p \in PoolIds : round[p] = "none"
   /\ \A r \in Requests : req[r].step \notin {"pick", "sent"}
   /\ ~troubled /\ ~pools[installed].active)
    => \A u \in pools[installed].urls : Rotation(u) # "out"
=============================================================================
