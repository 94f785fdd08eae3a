----------------------------- MODULE ThreatIntel -----------------------------
(***************************************************************************)
(* The threat-intelligence sources: the table of sources, the addresses    *)
(* stored for each, the worker that fetches the sources that are due, the  *)
(* admin's "sync now" that fetches one at once, the handlers that switch a *)
(* source on or off or delete it, and the Blocklist's copy that decides    *)
(* requests.  A list is the version the publisher had when it was fetched. *)
(***************************************************************************)
EXTENDS Integers, FiniteSets

CONSTANTS
  Sources,        \* sources that may be added
  Callers,        \* the worker and the admin's calls under way
  Worker,         \* the caller with the ticker
  MaxVersions,    \* bound: versions of a published list
  MaxIntelChanges, \* bound: calls of the admin's handlers
  MaxDue,         \* bound: how often a source becomes due again
  MaxIntelFaults  \* bound: failing fetches and database calls; a sync that fails
                  \* together with its stamp counts once

ASSUME IntelAssumption == Worker \in Callers

VARIABLES
  published,  \* per source the version its publisher offers, 0 before it is added
  sources,    \* the table: per source "none", "on" or "off"
  due,        \* sources without a sync within their interval
  intelIPs,   \* threat_intel_ips: per source the stored version, 0 for none
  blocked,    \* the Blocklist's intel set: per source the version it holds
  callers,    \* where each is, the source it syncs, the list it fetched, the
              \* worker's sources to go, what it read to reload
  intelChanges, dues, intelFaults, \* history: how many
  crossing,   \* history: sources two syncs of which overlapped
  intelBehind \* history: a reload failed or overlapped another change, and no
              \* change that ran alone has been reloaded since

intelVars == <<published, sources, due, intelIPs, blocked, callers, intelChanges,
               dues, intelFaults, crossing, intelBehind>>

NoList == [s \in Sources |-> 0]
AtRest == [at |-> "idle", source |-> 0, list |-> 0, todo |-> {}, read |-> NoList,
           alone |-> FALSE]

At(c, places) == callers[c].at \in places
Hands == Callers \ {Worker}

\* What ListThreatIntelIPs answers: the addresses of the sources that are on.
Listed == [s \in Sources |-> IF sources[s] = "on" THEN intelIPs[s] ELSE 0]

\* Between a change of the tables and the end of its reload.
Reloading == {c \in Callers : At(c, {"list", "swap"})}

\* A caller that changed a table goes on to reload; whoever was about to
\* reload is no longer alone.
GoesToReload(c) ==
  /\ callers' = [o \in Callers |->
       IF o = c THEN [callers[c] EXCEPT !.at = "list", !.alone = (Reloading = {})]
       ELSE [callers[o] EXCEPT !.alone = FALSE]]
  /\ intelBehind' = (intelBehind \/ Reloading # {})

\* The worker goes on with its next source.
Leaves(c) == [AtRest EXCEPT !.at = IF callers[c].todo = {} THEN "idle" ELSE "next",
                            !.todo = callers[c].todo]

Left(c) == callers' = [callers EXCEPT ![c] = Leaves(c)]

Fails == intelFaults < MaxIntelFaults /\ intelFaults' = intelFaults + 1

\* -- Syncs -----------------------------------------------------------------

\* syncDue: the sources that are on and due, listed once.
SyncDue ==
  /\ At(Worker, {"idle"})
  /\ \E s \in due : sources[s] = "on"
  /\ callers' = [callers EXCEPT ![Worker] =
       [AtRest EXCEPT !.at = "next", !.todo = {s \in due : sources[s] = "on"}]]
  /\ UNCHANGED <<published, sources, due, intelIPs, blocked, intelChanges, dues,
                 intelFaults, crossing, intelBehind>>

\* Nothing keeps two callers from fetching one source at a time.
BeginSync(c, s, entry) ==
  /\ callers' = [callers EXCEPT ![c] = [entry EXCEPT !.at = "fetch", !.source = s]]
  /\ crossing' = IF \E o \in Callers : callers[o].source = s THEN crossing \cup {s}
                 ELSE crossing
  /\ UNCHANGED <<published, sources, due, intelIPs, blocked, dues, intelFaults,
                 intelBehind>>

NextSource ==
  /\ At(Worker, {"next"})
  /\ \E s \in callers[Worker].todo :
       BeginSync(Worker, s, [callers[Worker] EXCEPT !.todo = @ \ {s}])
  /\ UNCHANGED intelChanges

\* SyncSource by hand: a source that is in the table, on or off, due or not.
SyncSource(c) ==
  /\ At(c, {"idle"}) /\ intelChanges < MaxIntelChanges
  /\ intelChanges' = intelChanges + 1
  /\ \E s \in Sources : sources[s] # "none" /\ BeginSync(c, s, AtRest)

Fetch(c) ==
  /\ At(c, {"fetch"})
  /\ callers' = [callers EXCEPT ![c].at = "store", ![c].list = published[callers[c].source]]
  /\ UNCHANGED <<published, sources, due, intelIPs, blocked, intelChanges, dues,
                 intelFaults, crossing, intelBehind>>

\* UpdateThreatIntelSync stamps the time after a success and after a failure.
Stamped(c) == due' = due \ {callers[c].source}

\* The publisher does not answer, or the transaction is rolled back; the stamp
\* may fail along with it, and its error is dropped.
SyncFails(c) ==
  /\ At(c, {"fetch", "store"}) /\ Fails
  /\ Stamped(c) \/ UNCHANGED due
  /\ Left(c)
  /\ UNCHANGED <<published, sources, intelIPs, blocked, intelChanges, dues, crossing,
                 intelBehind>>

\* Mutant: the list is stored and nothing reloaded.
StoreOnly(c) ==
  /\ At(c, {"store"})
  /\ intelIPs' = [intelIPs EXCEPT ![callers[c].source] = callers[c].list]
  /\ Stamped(c)
  /\ Left(c)
  /\ UNCHANGED <<published, sources, blocked, intelChanges, dues, intelFaults,
                 crossing, intelBehind>>

\* ReplaceThreatIntelIPs in one transaction, also for a source that is off or
\* was deleted meanwhile; then the stamp, whose error is dropped.
Store(c) ==
  /\ At(c, {"store"})
  /\ intelIPs' = [intelIPs EXCEPT ![callers[c].source] = callers[c].list]
  /\ \/ Stamped(c) /\ UNCHANGED intelFaults
     \/ Fails /\ UNCHANGED due
  /\ GoesToReload(c)
  /\ UNCHANGED <<published, sources, blocked, intelChanges, dues, crossing>>

\* -- ReloadIntel -----------------------------------------------------------

ListIPs(c) ==
  /\ At(c, {"list"})
  /\ callers' = [callers EXCEPT ![c].at = "swap", ![c].read = Listed]
  /\ UNCHANGED <<published, sources, due, intelIPs, blocked, intelChanges, dues,
                 intelFaults, crossing, intelBehind>>

SwapIntel(c) ==
  /\ At(c, {"swap"})
  /\ blocked' = callers[c].read
  /\ Left(c)
  /\ intelBehind' = (intelBehind /\ ~ callers[c].alone)
  /\ UNCHANGED <<published, sources, due, intelIPs, intelChanges, dues, intelFaults,
                 crossing>>

ReloadFails(c) ==
  /\ At(c, {"list"}) /\ Fails
  /\ Left(c)
  /\ intelBehind' = TRUE
  /\ UNCHANGED <<published, sources, due, intelIPs, blocked, intelChanges, dues,
                 crossing>>

\* -- The admin's handlers --------------------------------------------------

\* A source that was deleted and is added again has a new id: another source.
AddThreatIntelSource(s) ==
  /\ intelChanges < MaxIntelChanges /\ intelChanges' = intelChanges + 1
  /\ published[s] = 0 /\ published' = [published EXCEPT ![s] = 1]
  /\ sources' = [sources EXCEPT ![s] = "on"]
  /\ due' = due \cup {s}
  /\ UNCHANGED <<intelIPs, blocked, callers, dues, intelFaults, crossing, intelBehind>>

\* The error of the write is dropped, and the reload follows all the same.
ChangeSource(c, s, to) ==
  /\ At(c, {"idle"}) /\ intelChanges < MaxIntelChanges /\ intelChanges' = intelChanges + 1
  /\ sources[s] # "none"
  /\ \/ sources' = [sources EXCEPT ![s] = to] /\ UNCHANGED intelFaults
     \/ Fails /\ UNCHANGED sources
  /\ GoesToReload(c)
  /\ UNCHANGED <<published, due, intelIPs, blocked, dues, crossing>>

ToggleThreatIntelSource(c, s) == \E to \in {"on", "off"} : ChangeSource(c, s, to)
DeleteThreatIntelSource(c, s) == ChangeSource(c, s, "none")

\* -- Outside ---------------------------------------------------------------

Publish(s) ==
  /\ published[s] \in 1 .. MaxVersions - 1
  /\ published' = [published EXCEPT ![s] = @ + 1]
  /\ UNCHANGED <<sources, due, intelIPs, blocked, callers, intelChanges, dues,
                 intelFaults, crossing, intelBehind>>

\* The interval of a source is over.
BecomesDue(s) ==
  /\ sources[s] # "none" /\ s \notin due /\ dues < MaxDue
  /\ dues' = dues + 1 /\ due' = due \cup {s}
  /\ UNCHANGED <<published, sources, intelIPs, blocked, callers, intelChanges,
                 intelFaults, crossing, intelBehind>>

InitIntel ==
  /\ published = NoList /\ sources = [s \in Sources |-> "none"] /\ due = {}
  /\ intelIPs = NoList /\ blocked = NoList
  /\ callers = [c \in Callers |-> AtRest]
  /\ intelChanges = 0 /\ dues = 0 /\ intelFaults = 0
  /\ crossing = {} /\ intelBehind = FALSE

NextIntel ==
  \/ SyncDue \/ NextSource
  \/ \E c \in Callers : \/ Fetch(c) \/ Store(c) \/ SyncFails(c)
                        \/ ListIPs(c) \/ SwapIntel(c) \/ ReloadFails(c)
  \/ \E c \in Hands : \/ SyncSource(c)
                      \/ \E s \in Sources : \/ ToggleThreatIntelSource(c, s)
                                            \/ DeleteThreatIntelSource(c, s)
  \/ \E s \in Sources : AddThreatIntelSource(s) \/ Publish(s) \/ BecomesDue(s)

SpecIntel == InitIntel /\ [][NextIntel]_intelVars

\* The ticker comes back, and the client and the database have timeouts.
FairIntel ==
  /\ WF_intelVars(SyncDue) /\ WF_intelVars(NextSource)
  /\ WF_intelVars(Fetch(Worker) \/ Store(Worker) \/ SyncFails(Worker)
                  \/ ListIPs(Worker) \/ SwapIntel(Worker) \/ ReloadFails(Worker))

\* -- Properties ------------------------------------------------------------

TypeOKIntel ==
  /\ sources \in [Sources -> {"none", "on", "off"}]
  /\ due \subseteq {s \in Sources : published[s] # 0}
  /\ \A s \in Sources : intelIPs[s] <= published[s] /\ blocked[s] <= published[s]

\* Once nobody reloads, what is blocked is what the sources that are on have
\* stored, unless a reload failed or overlapped another change and no change
\* that ran alone has been reloaded since.
IntelFollowsTables == (~ intelBehind /\ Reloading = {}) => blocked = Listed

\* A source's stored list is never replaced by an older one, unless two syncs
\* of that source overlapped.
ListsGoForward ==
  [][\A s \in Sources \ crossing : intelIPs'[s] >= intelIPs[s]]_intelVars

\* A source that is on and due is synced, or at least tried and stamped: a stamp
\* that was lost leaves it due for the next round.
DueIsSynced == \A s \in Sources : (s \in due /\ sources[s] = "on") ~>
                                    (s \notin due \/ sources[s] # "on")
=============================================================================
