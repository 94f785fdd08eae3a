-------------------------- MODULE CacheRouteProofs --------------------------
(***************************************************************************)
(* Theorems about CacheRoute, for any backends, handlers and requests.     *)
(***************************************************************************)
EXTENDS CacheRoute, TLAPS

(* What the two properties rest on: a purge is pending, has failed or has  *)
(* come unless what the cache holds, and what is being fetched for it, is  *)
(* of the backend of a service that is still cached.                       *)
Current(b) == b = route.backend /\ route.cached

ObjectCurrent == object # Nothing => Current(object.from) \/ Excused

FetchesCurrent ==
  \A r \in Requests : req[r].pc = "fetching" =>
    Current(req[r].to) \/ purging > 0 \/ lost \/ req[r].late

(* What a request remembers: the backend of its service now, and the one   *)
(* it is under way to.                                                     *)
Remembered ==
  \A r \in Requests :
    /\ req[r].pc # "idle" => route.backend \in req[r].had
    /\ req[r].pc \in {"direct", "varnish", "miss", "fetching"} =>
         req[r].to \in req[r].had

Inv == TypeOK /\ ObjectCurrent /\ FetchesCurrent /\ Remembered
       /\ AnsweredByItsService

-----------------------------------------------------------------------------
(* Types *)

Had == SUBSET (Backends \cup {NoBackend})

(* A route is a backend and a switch.                                      *)
LEMMA RouteParts ==
  ASSUME NEW t \in Routes
  PROVE  /\ t.backend \in Backends \cup {NoBackend}
         /\ t.cached \in BOOLEAN
<1>1. PICK s \in Services, on \in BOOLEAN : t = Proxies(s, on)
  BY DEF Routes
<1>2. s.backend \in Backends \cup {NoBackend}
  BY DEF Services, Removed
<1>3. /\ t.backend = s.backend
      /\ t.cached = (on /\ s.cache)
  BY <1>1 DEF Proxies
<1>4. t.cached \in BOOLEAN
  BY <1>3, Zenon
<1> QED
  BY <1>2, <1>3, <1>4

(* The steps a request goes through, one shape at a time.                  *)
LEMMA ProgressParts ==
  ASSUME NEW p \in Progress
  PROVE  /\ p.pc \in {"idle", "matched", "direct", "varnish", "miss",
                      "fetching", "answered"}
         /\ p.pc = "idle" => p = Idle
         /\ p.pc # "idle" => p.had \in Had
         /\ p.pc \in {"direct", "varnish", "miss", "fetching"} =>
              p.to \in Backends
         /\ p.pc = "fetching" => p.late \in BOOLEAN
         /\ p.pc = "answered" => p.from \in Backends \cup {NoBackend}
         /\ p.pc = "answered" => p.excused \in BOOLEAN
BY DEF Progress, Idle, Had

(* A backend more to remember does not change the shape of a request.      *)
LEMMA SeenByShape ==
  ASSUME TypeOK, NEW r \in Requests, NEW b \in Backends \cup {NoBackend}
  PROVE  /\ SeenBy(r, b) \in Progress
         /\ SeenBy(r, b).pc = req[r].pc
         /\ req[r].pc # "idle" => SeenBy(r, b).had = req[r].had \cup {b}
         /\ req[r].pc \in {"direct", "varnish", "miss", "fetching"} =>
              SeenBy(r, b).to = req[r].to
         /\ req[r].pc = "fetching" => SeenBy(r, b).late = req[r].late
         /\ req[r].pc = "answered" => SeenBy(r, b).from = req[r].from
         /\ req[r].pc = "answered" => SeenBy(r, b).excused = req[r].excused
<1> DEFINE p == req[r]
           q == [p EXCEPT !.had = @ \cup {b}]
<1>1. p \in Progress
  BY DEF TypeOK
<1>2. CASE p = Idle
  BY <1>2 DEF SeenBy, Idle, Progress
<1>3. CASE p \in [pc : {"matched"}, had : Had]
  BY <1>3 DEF SeenBy, Idle, Progress, Had
<1>4. CASE p \in [pc : {"direct", "varnish", "miss"}, had : Had,
                  to : Backends]
  BY <1>4 DEF SeenBy, Idle, Progress, Had
<1>5. CASE p \in [pc : {"fetching"}, had : Had, to : Backends,
                  late : BOOLEAN]
  BY <1>5 DEF SeenBy, Idle, Progress, Had
<1>6. CASE p \in [pc : {"answered"}, had : Had,
                  from : Backends \cup {NoBackend}, excused : BOOLEAN]
  BY <1>6 DEF SeenBy, Idle, Progress, Had
<1> QED
  BY <1>1, <1>2, <1>3, <1>4, <1>5, <1>6 DEF Progress, Had

-----------------------------------------------------------------------------
(* Steps *)

(* A step of a request keeps the invariant if the step it comes to is      *)
(* sound, and so is what it leaves in the cache.                           *)
LEMMA GotoKeepsInv ==
  ASSUME Inv, NEW r \in Requests, NEW s \in Progress, Goto(r, s),
         UNCHANGED <<service, varnish, changes, reload, route, purging,
                     lost>>,
         arrived' \in 0..MaxRequests,
         s.pc # "idle" => route.backend \in s.had,
         s.pc \in {"direct", "varnish", "miss", "fetching"} =>
           s.to \in s.had,
         s.pc = "fetching" =>
           Current(s.to) \/ purging > 0 \/ lost \/ s.late,
         s.pc = "answered" => s.from \in s.had \cup {NoBackend} \/ s.excused,
         \/ object' = object
         \/ /\ object' \in Objects
            /\ Current(object'.from) \/ purging > 0 \/ lost \/ object'.late
  PROVE  Inv'
<1>1. /\ req' \in [Requests -> Progress]
      /\ req'[r] = s
      /\ \A x \in Requests : x # r => req'[x] = req[x]
  BY DEF Inv, TypeOK, Goto
<1>2. TypeOK'
  BY <1>1 DEF Inv, TypeOK
<1>3. ObjectCurrent'
  BY DEF Inv, ObjectCurrent, Current, Excused
<1>4. FetchesCurrent'
  BY <1>1 DEF Inv, FetchesCurrent, Current
<1>5. Remembered'
  BY <1>1 DEF Inv, Remembered
<1>6. AnsweredByItsService'
  BY <1>1 DEF Inv, AnsweredByItsService
<1> QED
  BY <1>2, <1>3, <1>4, <1>5, <1>6 DEF Inv

(* A ban empties the cache and makes late what is being fetched.           *)
LEMMA BanKeepsInv ==
  ASSUME Inv, Ban,
         UNCHANGED <<service, varnish, changes, reload, route, arrived,
                     lost>>,
         purging' \in Nat
  PROVE  Inv'
<1>1. ASSUME NEW r \in Requests
      PROVE  /\ req'[r] \in Progress
             /\ req'[r].pc = req[r].pc
             /\ req[r].pc # "idle" => req'[r].had = req[r].had
             /\ req[r].pc \in {"direct", "varnish", "miss", "fetching"} =>
                  req'[r].to = req[r].to
             /\ req[r].pc = "fetching" => req'[r].late
             /\ req[r].pc = "answered" =>
                  req'[r].from = req[r].from /\ req'[r].excused = req[r].excused
  <2>1. CASE req[r].pc = "fetching"
    <3>1. req[r] \in [pc : {"fetching"}, had : Had, to : Backends,
                      late : BOOLEAN]
      BY <2>1 DEF Inv, TypeOK, Progress, Idle, Had
    <3>2. req'[r] = [req[r] EXCEPT !.late = TRUE]
      BY <2>1 DEF Ban
    <3> QED
      BY <3>1, <3>2 DEF Progress, Had
  <2>2. CASE req[r].pc # "fetching"
    BY <2>2 DEF Ban, Inv, TypeOK
  <2> QED
    BY <2>1, <2>2
<1>2. TypeOK'
  BY <1>1 DEF Inv, TypeOK, Ban
<1>3. ObjectCurrent'
  BY DEF Ban, ObjectCurrent
<1>4. FetchesCurrent'
  BY <1>1 DEF FetchesCurrent
<1>5. Remembered'
  BY <1>1 DEF Inv, Remembered
<1>6. AnsweredByItsService'
  BY <1>1 DEF Inv, AnsweredByItsService
<1> QED
  BY <1>2, <1>3, <1>4, <1>5, <1>6 DEF Inv

(* The swap: what was current still is, or a purge is on its way.          *)
LEMMA InstallKeepsInv ==
  ASSUME Inv, NEW h \in Handlers, Install(h)
  PROVE  Inv'
<1>1. reload[h] \in [pc : {"install"}, route : Routes]
  BY DEF Inv, TypeOK, Install, Idle
<1>2. /\ route' \in Routes
      /\ route' = reload[h].route
  BY <1>1 DEF Install
<1>3. route'.backend \in Backends \cup {NoBackend}
  BY <1>2, RouteParts
<1>4. \A r \in Requests : req'[r] = SeenBy(r, route'.backend)
  BY DEF Install
<1>5. ASSUME NEW r \in Requests
      PROVE  /\ req'[r] \in Progress
             /\ req'[r].pc = req[r].pc
             /\ req[r].pc # "idle" =>
                  req'[r].had = req[r].had \cup {route'.backend}
             /\ req[r].pc \in {"direct", "varnish", "miss", "fetching"} =>
                  req'[r].to = req[r].to
             /\ req[r].pc = "fetching" => req'[r].late = req[r].late
             /\ req[r].pc = "answered" =>
                  req'[r].from = req[r].from /\ req'[r].excused = req[r].excused
  <2> DEFINE b == route'.backend
  <2>1. PICK c \in Backends \cup {NoBackend} : c = b
    BY <1>3
  <2>2. req'[r] = SeenBy(r, c)
    BY <1>4, <2>1
  <2> QED
    BY <2>1, <2>2, SeenByShape DEF Inv
<1>6. \/ purging' > 0
      \/ route.cached => route'.cached /\ route'.backend = route.backend
  BY DEF Inv, TypeOK, Install, Stale
<1>7. purging' \in Nat /\ (purging > 0 => purging' > 0)
  BY DEF Inv, TypeOK, Install
<1>8. TypeOK'
  BY <1>2, <1>5, <1>7 DEF Inv, TypeOK, Install
<1>9. ObjectCurrent'
  BY <1>6, <1>7 DEF Inv, ObjectCurrent, Current, Excused, Install
<1>10. FetchesCurrent'
  BY <1>5, <1>6, <1>7 DEF Inv, FetchesCurrent, Current, Install
<1>11. Remembered'
  BY <1>5 DEF Inv, Remembered
<1>12. AnsweredByItsService'
  BY <1>5, ProgressParts DEF Inv, AnsweredByItsService
<1> QED
  BY <1>8, <1>9, <1>10, <1>11, <1>12 DEF Inv

(* Whoever saves or reads: nothing of the above moves.                     *)
LEMMA ChangeKeepsInv ==
  ASSUME Inv, NEW h \in Handlers, Change(h)
  PROVE  Inv'
<1>1. CASE Install(h)
  BY <1>1, InstallKeepsInv
<1>2. CASE Save(h) \/ ReadList(h) \/ ReadVarnish(h) \/ ReadFails(h)
  <2>1. UNCHANGED <<route, purging, object, req, arrived, lost>>
    BY <1>2 DEF Save, ReadList, ReadVarnish, ReadFails
  <2> DEFINE Step == {Idle, [pc |-> "list"]}
                     \cup [pc : {"varnish"}, list : Services]
                     \cup [pc : {"install"}, route : Routes]
  <2>2. /\ service' \in Services /\ varnish' \in BOOLEAN
        /\ changes' \in 0..MaxChanges
        /\ reload' \in [Handlers -> Step]
    <3>1. CASE Save(h)
      <4>1. service' \in Services /\ varnish' \in BOOLEAN
        <5>1. CASE service' \in Services /\ UNCHANGED varnish
          BY <5>1 DEF Inv, TypeOK
        <5>2. CASE varnish' = ~varnish /\ UNCHANGED service
          BY <5>2, Zenon DEF Inv, TypeOK
        <5> QED
          BY <3>1, <5>1, <5>2 DEF Save
      <4>2. changes' \in 0..MaxChanges
        BY <3>1, CacheRouteAssumption DEF Save, Inv, TypeOK
      <4>3. reload' \in [Handlers -> Step]
        BY <3>1 DEF Save, Inv, TypeOK
      <4> QED
        BY <4>1, <4>2, <4>3
    <3>2. CASE ReadList(h)
      BY <3>2 DEF ReadList, Inv, TypeOK
    <3>3. CASE ReadVarnish(h)
      <4>1. reload[h] \in [pc : {"varnish"}, list : Services]
        BY <3>3 DEF ReadVarnish, Inv, TypeOK, Idle
      <4>2. Proxies(reload[h].list, varnish) \in Routes
        BY <4>1 DEF Routes, Inv, TypeOK
      <4>3. reload' = [reload EXCEPT ![h] =
              [pc |-> "install", route |-> Proxies(reload[h].list, varnish)]]
        BY <3>3 DEF ReadVarnish
      <4>4. [pc |-> "install", route |-> Proxies(reload[h].list, varnish)]
              \in Step
        BY <4>2
      <4> QED
        BY <3>3, <4>3, <4>4 DEF ReadVarnish, Inv, TypeOK
    <3>4. CASE ReadFails(h)
      BY <3>4 DEF ReadFails, Inv, TypeOK
    <3> QED
      BY <1>2, <3>1, <3>2, <3>3, <3>4
  <2>3. TypeOK'
    BY <2>1, <2>2 DEF Inv, TypeOK
  <2> QED
    BY <2>1, <2>3 DEF Inv, ObjectCurrent, FetchesCurrent, Current, Excused,
                      Remembered, AnsweredByItsService
<1> QED
  BY <1>1, <1>2 DEF Change

LEMMA CacheKeepsInv ==
  ASSUME Inv, Cache
  PROVE  Inv'
<1>1. CASE Purge
  <2>1. purging' \in Nat
    BY <1>1 DEF Purge, Inv, TypeOK
  <2>2. CASE Ban /\ UNCHANGED lost
    BY <1>1, <2>1, <2>2, BanKeepsInv DEF Purge
  <2>3. CASE lost' = TRUE /\ UNCHANGED <<object, req>>
    BY <1>1, <2>1, <2>3
    DEF Purge, Inv, TypeOK, ObjectCurrent, FetchesCurrent, Excused,
        Remembered, AnsweredByItsService
  <2> QED
    BY <1>1, <2>2, <2>3 DEF Purge
<1>2. CASE PurgeServiceCache
  BY <1>2, BanKeepsInv DEF PurgeServiceCache, Inv, TypeOK
<1>3. CASE Expire
  BY <1>3 DEF Expire, Inv, TypeOK, ObjectCurrent, FetchesCurrent, Current,
              Remembered, AnsweredByItsService
<1> QED
  BY <1>1, <1>2, <1>3 DEF Cache

(* The steps of a request, each by what it comes to.                       *)
LEMMA HandleKeepsInv ==
  ASSUME Inv, NEW r \in Requests, Handle(r)
  PROVE  Inv'
<1> DEFINE p == req[r]
<1>1. /\ p \in Progress
      /\ route.backend \in Backends \cup {NoBackend}
      /\ route.cached \in BOOLEAN
      /\ object # Nothing => object \in Objects
      /\ arrived \in 0..MaxRequests
  BY RouteParts DEF Inv, TypeOK
<1>2. /\ p.pc # "idle" => p.had \in Had /\ route.backend \in p.had
      /\ p.pc \in {"direct", "varnish", "miss", "fetching"} =>
           p.to \in Backends /\ p.to \in p.had
      /\ p.pc = "fetching" => p.late \in BOOLEAN
  BY <1>1, ProgressParts DEF Inv, Remembered
<1>3. CASE Match(r)
  <2> DEFINE s == [pc |-> "matched", had |-> {route.backend}]
  <2>1. s \in Progress
    BY <1>1 DEF Progress
  <2>2. Goto(r, s) /\ arrived' \in 0..MaxRequests
    BY <1>1, <1>3, CacheRouteAssumption DEF Match
  <2> QED
    BY <1>3, <2>1, <2>2, GotoKeepsInv DEF Match
<1>4. CASE Deny(r) \/ Finish(r)
  <2>1. Idle \in Progress /\ Idle.pc = "idle"
    BY DEF Progress, Idle
  <2> QED
    BY <1>1, <1>4, <2>1, GotoKeepsInv DEF Deny, Finish, Unchanged
<1>5. CASE Proxy(r)
  <2>1. Idle \in Progress /\ Idle.pc = "idle"
    BY DEF Progress, Idle
  <2>2. CASE route.backend = NoBackend
    BY <1>1, <1>5, <2>1, <2>2, GotoKeepsInv DEF Proxy, Unchanged
  <2>3. CASE route.backend # NoBackend
    <3> DEFINE s == [pc |-> IF route.cached THEN "varnish" ELSE "direct",
                     had |-> p.had, to |-> route.backend]
    <3>1. p.pc = "matched"
      BY <1>5 DEF Proxy
    <3>2. s \in Progress
      BY <1>1, <1>2, <2>3, <3>1 DEF Progress, Had
    <3>3. Goto(r, s)
      BY <1>5, <2>3 DEF Proxy
    <3> QED
      BY <1>1, <1>2, <1>5, <3>1, <3>2, <3>3, GotoKeepsInv DEF Proxy, Unchanged
  <2> QED
    BY <2>2, <2>3
<1>6. CASE Straight(r)
  <2> DEFINE s == [pc |-> "answered", had |-> p.had, from |-> p.to,
                   excused |-> FALSE]
  <2>1. p.pc \in {"direct", "varnish"}
    BY <1>6 DEF Straight
  <2>2. s \in Progress
    BY <1>2, <2>1 DEF Progress, Had
  <2> QED
    BY <1>1, <1>2, <1>6, <2>1, <2>2, GotoKeepsInv
    DEF Straight, Answer, Unchanged
<1>7. CASE Hit(r)
  <2> DEFINE s == [pc |-> "answered", had |-> p.had, from |-> object.from,
                   excused |-> Excused]
  <2>1. p.pc = "varnish" /\ object \in Objects
    BY <1>1, <1>7 DEF Hit
  <2>2. object.from \in Backends /\ Excused \in BOOLEAN
    BY <2>1, Zenon DEF Objects, Excused
  <2>3. s \in Progress
    BY <1>2, <2>1, <2>2 DEF Progress, Had
  <2>4. object.from \in p.had \/ Excused
    BY <1>2, <1>7, <2>1 DEF Hit, Inv, ObjectCurrent, Current
  <2> QED
    BY <1>1, <1>2, <1>7, <2>1, <2>3, <2>4, GotoKeepsInv
    DEF Hit, Answer, Unchanged
<1>8. CASE Miss(r)
  <2> DEFINE s == [pc |-> "miss", had |-> p.had, to |-> p.to]
  <2>1. p.pc = "varnish"
    BY <1>8 DEF Miss
  <2>2. s \in Progress
    BY <1>2, <2>1 DEF Progress, Had
  <2> QED
    BY <1>1, <1>2, <1>8, <2>1, <2>2, GotoKeepsInv DEF Miss, Unchanged
<1>9. CASE Return(r)
  <2>1. p.pc = "miss"
    BY <1>9 DEF Return
  <2>2. CASE route.backend = NoBackend
    <3> DEFINE s == [pc |-> "answered", had |-> p.had, from |-> NoBackend,
                     excused |-> FALSE]
    <3>1. s \in Progress
      BY <1>2, <2>1 DEF Progress, Had
    <3> QED
      BY <1>1, <1>2, <1>9, <2>1, <2>2, <3>1, GotoKeepsInv
      DEF Return, Answer, Unchanged
  <2>3. CASE route.backend # NoBackend
    <3> DEFINE s == [pc |-> "fetching", had |-> p.had,
                     to |-> route.backend, late |-> ~route.cached]
    <3>1. s \in Progress
      BY <1>1, <1>2, <2>1, <2>3 DEF Progress, Had
    <3>2. Current(s.to) \/ s.late
      BY DEF Current
    <3> QED
      BY <1>1, <1>2, <1>9, <2>1, <2>3, <3>1, <3>2, GotoKeepsInv
      DEF Return, Unchanged
  <2> QED
    BY <2>2, <2>3
<1>10. CASE Fetched(r)
  <2> DEFINE s == [pc |-> "answered", had |-> p.had, from |-> p.to,
                   excused |-> FALSE]
             o == [from |-> p.to, late |-> p.late]
  <2>1. p.pc = "fetching"
    BY <1>10 DEF Fetched
  <2>2. s \in Progress
    BY <1>2, <2>1 DEF Progress, Had
  <2>3. /\ o \in Objects
        /\ Current(o.from) \/ purging > 0 \/ lost \/ o.late
    BY <1>2, <2>1 DEF Objects, Inv, FetchesCurrent
  <2>4. object' = object \/ object' = o
    BY <1>10 DEF Fetched
  <2> QED
    BY <1>1, <1>2, <1>10, <2>1, <2>2, <2>3, <2>4, GotoKeepsInv
    DEF Fetched, Answer, Unchanged
<1> QED
  BY <1>3, <1>4, <1>5, <1>6, <1>7, <1>8, <1>9, <1>10 DEF Handle

-----------------------------------------------------------------------------
(* The invariant holds of every behaviour. *)

LEMMA InitInv == Init => Inv
<1> SUFFICES ASSUME Init PROVE Inv
  OBVIOUS
<1>1. route \in Routes
  BY DEF Init, Routes
<1>2. Idle \in Progress /\ Idle.pc = "idle"
  BY DEF Progress, Idle
<1>3. TypeOK
  <2>1. service \in Services /\ varnish \in BOOLEAN
    BY Zenon DEF Init
  <2>2. changes \in 0..MaxChanges /\ arrived \in 0..MaxRequests
        /\ purging \in Nat
    BY CacheRouteAssumption DEF Init
  <2>3. lost \in BOOLEAN /\ object \in Objects \cup {Nothing}
    BY DEF Init
  <2>4. /\ reload \in [Handlers -> {Idle, [pc |-> "list"]}
                                   \cup [pc : {"varnish"}, list : Services]
                                   \cup [pc : {"install"}, route : Routes]]
        /\ req \in [Requests -> Progress]
    BY <1>2 DEF Init
  <2> QED
    BY <1>1, <2>1, <2>2, <2>3, <2>4 DEF TypeOK
<1> QED
  BY <1>2, <1>3 DEF Init, Inv, ObjectCurrent, FetchesCurrent, Remembered,
                    AnsweredByItsService, Idle

LEMMA NextInv == Inv /\ [Next]_vars => Inv'
<1> SUFFICES ASSUME Inv, [Next]_vars PROVE Inv'
  OBVIOUS
<1>1. ASSUME NEW h \in Handlers, Change(h) PROVE Inv'
  BY <1>1, ChangeKeepsInv
<1>2. CASE Cache
  BY <1>2, CacheKeepsInv
<1>3. ASSUME NEW r \in Requests, Handle(r) PROVE Inv'
  BY <1>3, HandleKeepsInv
<1>4. CASE UNCHANGED vars
  BY <1>4 DEF vars, Inv, TypeOK, ObjectCurrent, FetchesCurrent, Current,
              Excused, Remembered, AnsweredByItsService
<1> QED
  BY <1>1, <1>2, <1>3, <1>4 DEF Next

LEMMA InvHolds == Spec => []Inv
  BY InitInv, NextInv, PTL DEF Spec

(* Types, for any number of handlers, requests and changes.                *)
THEOREM TypeCorrect == Spec => []TypeOK
<1>1. Inv => TypeOK
  BY DEF Inv
<1> QED
  BY <1>1, InvHolds, PTL

(* The cache follows the registry: whatever reloads, purges and fetches    *)
(* overlap, an object of a backend the service does not have is to be      *)
(* purged yet, or came late, or outlived a purge that failed (Reload,      *)
(* staleCacheServices, CacheReturnHandler).                                *)
THEOREM CacheFollowsRegistryHolds == Spec => []CacheFollowsRegistry
<1>1. Inv => CacheFollowsRegistry
  BY DEF Inv, ObjectCurrent, Current, CacheFollowsRegistry
<1> QED
  BY <1>1, InvHolds, PTL

(* A request is answered by a backend its service has had while the        *)
(* request was served, straight or from the cache (Handle,                 *)
(* CacheReturnHandler).                                                    *)
THEOREM AnsweredByItsServiceHolds == Spec => []AnsweredByItsService
<1>1. Inv => AnsweredByItsService
  BY DEF Inv
<1> QED
  BY <1>1, InvHolds, PTL
=============================================================================
