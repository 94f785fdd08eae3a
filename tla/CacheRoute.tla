----------------------------- MODULE CacheRoute -----------------------------
(***************************************************************************)
(* A service whose traffic may go through Varnish.  Requests look the      *)
(* service up, pass the checks, look its proxy up, and reach a backend     *)
(* straight or by way of the cache, whose misses come back to the          *)
(* cache-return listener and are routed from the registry once more.  In   *)
(* between, administrators re-point the service, remove it, add it again   *)
(* or change what is cached; every change reloads the registry, which has  *)
(* the cache purged if what it holds no longer belongs to the service.     *)
(*                                                                         *)
(* One service, one URL.  Varnish is outside the code: what it holds is    *)
(* one object, and a purge bans what is stored already.                    *)
(***************************************************************************)
EXTENDS Integers

CONSTANTS
  Backends,     \* backends a service may point to
  NoBackend,    \* what a service that does not exist points to
  Handlers,     \* goroutines of administrators that save and reload
  Requests,     \* requests that may be served at once
  MaxChanges,   \* bound on the changes
  MaxRequests   \* bound on the requests

ASSUME CacheRouteAssumption ==
  /\ NoBackend \notin Backends
  /\ MaxChanges \in Nat /\ MaxRequests \in Nat

VARIABLES
  service,   \* the services table: the backend and the cache switch
  varnish,   \* VarnishConfig.Enabled, in the database
  changes,   \* changes so far
  reload,    \* handler -> how far its Registry.Reload is
  route,     \* what the registry has installed for the service
  purging,   \* auto-purge goroutines that have not ended
  object,    \* what Varnish holds
  req,       \* request -> its progress
  arrived,   \* requests so far
  lost       \* some auto-purge failed (history)

vars == <<service, varnish, changes, reload, route, purging, object, req,
          arrived, lost>>

Idle == [pc |-> "idle"]
Removed == [backend |-> NoBackend, cache |-> FALSE]
Services == [backend : Backends, cache : BOOLEAN] \cup {Removed}

\* late: the object was fetched while the service was not cached, or a purge
\* came during the fetch (history).
Objects == [from : Backends, late : BOOLEAN]
Nothing == [from |-> NoBackend, late |-> FALSE]

-----------------------------------------------------------------------------
(* Changes *)

\* Handlers that add, edit, remove or switch a service, and SaveVarnishConfig.
Save(h) ==
  /\ reload[h] = Idle /\ changes < MaxChanges
  /\ changes' = changes + 1
  /\ \/ service' \in Services /\ UNCHANGED varnish
     \/ varnish' = ~varnish /\ UNCHANGED service
  /\ reload' = [reload EXCEPT ![h] = [pc |-> "list"]]
  /\ UNCHANGED <<route, purging, object, req, arrived, lost>>

ReadList(h) ==
  /\ reload[h].pc = "list"
  /\ reload' = [reload EXCEPT ![h] = [pc |-> "varnish", list |-> service]]
  /\ UNCHANGED <<service, varnish, changes, route, purging, object, req,
                 arrived, lost>>

\* The service's proxies: to the backend, or by way of Varnish.
Proxies(s, on) == [backend |-> s.backend, cached |-> on /\ s.cache]

ReadVarnish(h) ==
  /\ reload[h].pc = "varnish"
  /\ reload' = [reload EXCEPT ![h] =
                  [pc |-> "install", route |-> Proxies(@.list, varnish)]]
  /\ UNCHANGED <<service, varnish, changes, route, purging, object, req,
                 arrived, lost>>

ReadFails(h) ==
  /\ reload[h].pc \in {"list", "varnish"}
  /\ reload' = [reload EXCEPT ![h] = Idle]
  /\ UNCHANGED <<service, varnish, changes, route, purging, object, req,
                 arrived, lost>>

\* Mutant: only a service that is no longer cached counts.
StaleIfUncached(old, new) == old.cached /\ ~new.cached

\* staleCacheServices.
Stale(old, new) ==
  old.cached /\ (~new.cached \/ new.backend # old.backend)

\* A request remembers the backends the service has had since it arrived.
SeenBy(r, b) == IF req[r] = Idle THEN Idle
                ELSE [req[r] EXCEPT !.had = @ \cup {b}]

\* The swap under the lock; the purge runs on a goroutine of its own.
Install(h) ==
  /\ reload[h].pc = "install"
  /\ route' = reload[h].route
  /\ purging' = IF Stale(route, route') THEN purging + 1 ELSE purging
  /\ req' = [r \in Requests |-> SeenBy(r, route'.backend)]
  /\ reload' = [reload EXCEPT ![h] = Idle]
  /\ UNCHANGED <<service, varnish, changes, object, arrived, lost>>

-----------------------------------------------------------------------------
(* The cache *)

\* A ban strikes what is stored, not what is being fetched.
Ban ==
  /\ object' = Nothing
  /\ req' = [r \in Requests |-> IF req[r].pc = "fetching"
                                THEN [req[r] EXCEPT !.late = TRUE]
                                ELSE req[r]]

\* sendPurge of the auto-purge; Varnish may not answer, which is only logged.
Purge ==
  /\ purging > 0
  /\ purging' = purging - 1
  /\ \/ Ban /\ UNCHANGED lost
     \/ lost' = TRUE /\ UNCHANGED <<object, req>>
  /\ UNCHANGED <<service, varnish, changes, reload, route, arrived>>

\* The purge button and its API, for a service that is there.
PurgeServiceCache ==
  /\ varnish /\ service # Removed
  /\ Ban
  /\ UNCHANGED <<service, varnish, changes, reload, route, purging, arrived,
                 lost>>

Expire ==
  /\ object # Nothing
  /\ object' = Nothing
  /\ UNCHANGED <<service, varnish, changes, reload, route, purging, req,
                 arrived, lost>>

-----------------------------------------------------------------------------
(* Requests *)

Unchanged == UNCHANGED <<service, varnish, changes, reload, route, purging,
                         arrived, lost>>
Goto(r, step) == req' = [req EXCEPT ![r] = step]

Match(r) ==
  /\ req[r] = Idle /\ arrived < MaxRequests
  /\ arrived' = arrived + 1
  /\ route.backend # NoBackend
  /\ Goto(r, [pc |-> "matched", had |-> {route.backend}])
  /\ UNCHANGED <<service, varnish, changes, reload, route, purging, object,
                 lost>>

\* A redirect, a block list, the challenge, a rate limit, the rules or an
\* error of the rules ends the request before it has a proxy.
Deny(r) ==
  /\ req[r].pc = "matched"
  /\ Goto(r, Idle)
  /\ Unchanged /\ UNCHANGED object

\* Registry.Proxy, of the registry as it is by now.
Proxy(r) ==
  /\ req[r].pc = "matched"
  /\ Goto(r, IF route.backend = NoBackend THEN Idle
             ELSE [pc |-> IF route.cached THEN "varnish" ELSE "direct",
                   had |-> req[r].had, to |-> route.backend])
  /\ Unchanged /\ UNCHANGED object

Answer(r, b, excused) ==
  Goto(r, [pc |-> "answered", had |-> req[r].had, from |-> b,
           excused |-> excused])

\* The proxy's own pool answers: the service is not cached, the method cannot
\* be, or Varnish does not accept the connection.
Straight(r) ==
  /\ req[r].pc \in {"direct", "varnish"}
  /\ Answer(r, req[r].to, FALSE)
  /\ Unchanged /\ UNCHANGED object

\* Why the cache may hold what does not belong to the service: it is to be
\* purged yet, a purge failed, or the object came late.
Excused == purging > 0 \/ lost \/ object.late

Hit(r) ==
  /\ req[r].pc = "varnish" /\ object # Nothing
  /\ Answer(r, object.from, Excused)
  /\ Unchanged /\ UNCHANGED object

\* A miss, or a request that is not looked up in the cache.
Miss(r) ==
  /\ req[r].pc = "varnish"
  /\ Goto(r, [pc |-> "miss", had |-> req[r].had, to |-> req[r].to])
  /\ Unchanged /\ UNCHANGED object

\* Mutant: the listener follows the header the first hop has set.
ReturnTrustsHeader(r) ==
  /\ req[r].pc = "miss"
  /\ Goto(r, [pc |-> "fetching", had |-> req[r].had, to |-> req[r].to,
              late |-> ~route.cached])
  /\ Unchanged /\ UNCHANGED object

\* CacheReturnHandler looks the service up; its 404 is not stored.
Return(r) ==
  /\ req[r].pc = "miss"
  /\ IF route.backend = NoBackend
     THEN Answer(r, NoBackend, FALSE)
     ELSE Goto(r, [pc |-> "fetching", had |-> req[r].had,
                   to |-> route.backend, late |-> ~route.cached])
  /\ Unchanged /\ UNCHANGED object

\* The backend answers Varnish, which stores what may be stored.
Fetched(r) ==
  /\ req[r].pc = "fetching"
  /\ object' \in {object, [from |-> req[r].to, late |-> req[r].late]}
  /\ Answer(r, req[r].to, FALSE)
  /\ Unchanged

Finish(r) ==
  /\ req[r].pc = "answered"
  /\ Goto(r, Idle)
  /\ Unchanged /\ UNCHANGED object

-----------------------------------------------------------------------------
Init ==
  /\ service \in Services /\ varnish \in BOOLEAN
  /\ route = Proxies(service, varnish)
  /\ changes = 0 /\ arrived = 0 /\ purging = 0 /\ lost = FALSE
  /\ object = Nothing
  /\ reload = [h \in Handlers |-> Idle]
  /\ req = [r \in Requests |-> Idle]

Change(h) == Save(h) \/ ReadList(h) \/ ReadVarnish(h) \/ ReadFails(h)
             \/ Install(h)
Cache == Purge \/ PurgeServiceCache \/ Expire
Handle(r) == \/ Match(r) \/ Deny(r) \/ Proxy(r) \/ Straight(r) \/ Hit(r)
             \/ Miss(r) \/ Return(r) \/ Fetched(r) \/ Finish(r)

Next ==
  \/ \E h \in Handlers : Change(h)
  \/ Cache
  \/ \E r \in Requests : Handle(r)

Spec == Init /\ [][Next]_vars

-----------------------------------------------------------------------------
Routes == {Proxies(s, on) : s \in Services, on \in BOOLEAN}

Progress ==
  LET H == SUBSET (Backends \cup {NoBackend}) IN
  {Idle}
  \cup [pc : {"matched"}, had : H]
  \cup [pc : {"direct", "varnish", "miss"}, had : H, to : Backends]
  \cup [pc : {"fetching"}, had : H, to : Backends, late : BOOLEAN]
  \cup [pc : {"answered"}, had : H, from : Backends \cup {NoBackend},
        excused : BOOLEAN]

TypeOK ==
  /\ service \in Services /\ varnish \in BOOLEAN
  /\ changes \in 0..MaxChanges /\ arrived \in 0..MaxRequests
  /\ reload \in [Handlers -> {Idle, [pc |-> "list"]}
                             \cup [pc : {"varnish"}, list : Services]
                             \cup [pc : {"install"}, route : Routes]]
  /\ route \in Routes
  /\ purging \in Nat /\ lost \in BOOLEAN
  /\ object \in Objects \cup {Nothing}
  /\ req \in [Requests -> Progress]

\* What the cache holds is of the backend the service has, unless a purge is
\* yet to come or failed, or a fetch that began before a purge, or for a
\* service that was cached no more, ended after it: reloads that overtake one
\* another leave nothing behind ("Anything Varnish still holds ... is now
\* wrong", registry.go, and staleCacheServices).
CacheFollowsRegistry ==
  object # Nothing => object.from = route.backend \/ Excused

\* A request is answered by a backend the service has had while the request
\* was served, or by an object that is excused, or with the 404 of the
\* cache-return listener; whatever changes come between its look-ups (Handle,
\* CacheReturnHandler).
AnsweredByItsService ==
  \A r \in Requests : req[r].pc = "answered" =>
    req[r].from \in req[r].had \cup {NoBackend} \/ req[r].excused
=============================================================================
