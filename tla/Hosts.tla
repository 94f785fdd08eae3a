-------------------------------- MODULE Hosts --------------------------------
(***************************************************************************)
(* Which service a hostname belongs to: the services table, the registry's *)
(* copy with its index of hostnames, and the handlers that add, edit and   *)
(* remove services.  A handler validates names against the registry's      *)
(* list, writes the table, and reloads the registry in two steps.          *)
(*                                                                         *)
(* A hostname is normalised and carries no port.  A service without a host *)
(* is one that is matched by a prefix: it answers to no name.  A service   *)
(* with both redirects nothing, and is left out.                           *)
(***************************************************************************)
EXTENDS Integers, FiniteSets

CONSTANTS
  Hostnames,      \* names a service may be given
  NoName,         \* the empty string
  Editors,        \* handlers under way
  MaxServices,    \* bound: services ever added
  MaxHostChanges, \* bound: changes and restarts
  MaxHostFaults   \* bound: failing writes and reads

\* The empty string is no name.
ASSUME HostsAssumption == NoName \notin Hostnames /\ MaxServices \in Nat \ {0}

VARIABLES
  svcRows,     \* the table services: per id [host, aliases, canonical], Gone if removed
  lastId,      \* its last key: AUTOINCREMENT uses none twice
  svcList,     \* Registry.list
  owners,      \* Registry.hosts: name -> id, 0 for none
  editors,     \* where a handler is, its service, what it will write, what it read
  hostChanges, hostFaults, \* history: how many
  blind,       \* history: names were validated while the registry was behind
               \* the table, or before the write of other validated names
  revived,     \* history: a service whose other names had stayed in its row when
               \* it lost its host was given one
  mixed,       \* history: two changes of one service overlapped, or one ended
               \* between its two writes
  hostsBehind  \* history: a change was not reloaded or overlapped another, and
               \* none that ran alone has finished since

hostVars == <<svcRows, lastId, svcList, owners, editors, hostChanges, hostFaults, blind,
              revived, mixed, hostsBehind>>

Ids == 1 .. MaxServices
Gone == [here |-> FALSE, host |-> NoName, aliases |-> {}, canonical |-> NoName]
Answering(host, aliases, canonical) ==
  [here |-> TRUE, host |-> host, aliases |-> aliases, canonical |-> canonical]
NoServices == [i \in Ids |-> Gone]
NoEdit == [at |-> "idle", api |-> FALSE, id |-> 0, row |-> Gone, read |-> NoServices,
           alone |-> FALSE]

Editing(e) == editors[e].at # "idle"

\* -- Names -----------------------------------------------------------------

\* Service.Hosts
HostsOf(s) == IF s.host = NoName THEN {} ELSE {s.host} \cup s.aliases

\* Registry.hosts: the first service that lists a name wins.
Claims(list, n) == {i \in Ids : n \in HostsOf(list[i])}

Owners(list) ==
  [n \in Hostnames |->
     IF Claims(list, n) = {} THEN 0
     ELSE CHOOSE i \in Claims(list, n) : \A j \in Claims(list, n) : i <= j]

\* Mutant: the target of redirects is not looked up among the names.
ValidateNames(i, s, list) ==
  IF s.host = NoName THEN s.aliases = {} /\ s.canonical = NoName
  ELSE /\ \A j \in Ids \ {i} : HostsOf(s) \cap HostsOf(list[j]) = {}
       /\ s.host \notin s.aliases

\* ValidateHosts, given the list of the registry.
ValidateHosts(i, s, list) ==
  IF s.host = NoName THEN s.aliases = {} /\ s.canonical = NoName
  ELSE /\ \A j \in Ids \ {i} : HostsOf(s) \cap HostsOf(list[j]) = {}
       /\ s.host \notin s.aliases
       /\ s.canonical \in HostsOf(s) \cup {NoName}

\* canonicalRedirect: where a request for n is sent, NoName if it is served.
Redirect(list, own, n) ==
  LET to == list[own[n]].canonical
  IN IF own[n] = 0 THEN NoName
     ELSE IF to = n THEN NoName ELSE to

\* -- Handlers --------------------------------------------------------------

\* Where a handler has validated its names and not written them all.
Validated == {"insert", "host", "aliases"}

Begins(e, entry) ==
  /\ ~ Editing(e) /\ hostChanges < MaxHostChanges
  /\ hostChanges' = hostChanges + 1
  /\ editors' = [o \in Editors |->
       IF o = e THEN [entry EXCEPT !.alone = \A p \in Editors : ~ Editing(p)]
       ELSE [editors[o] EXCEPT !.alone = FALSE]]
  /\ hostsBehind' = (hostsBehind \/ \E p \in Editors : Editing(p))
  /\ mixed' = (mixed \/ (entry.id # 0 /\ \E p \in Editors : editors[p].id = entry.id))

Ended(e) == editors' = [editors EXCEPT ![e] = NoEdit]

\* AddService: a name and nothing more.
BeginAdd(e) ==
  /\ \E n \in Hostnames \cup {NoName} :
       Begins(e, [NoEdit EXCEPT !.at = "add", !.row = Answering(n, {}, NoName)])
  /\ UNCHANGED <<svcRows, lastId, svcList, owners, hostFaults, blind, revived>>

\* SetServiceHosts keeps the host it reads.
BeginHosts(e) ==
  /\ \E i \in Ids, aliases \in SUBSET Hostnames, canonical \in Hostnames \cup {NoName} :
       /\ svcRows[i].here
       /\ Begins(e, [NoEdit EXCEPT !.at = "names", !.id = i,
                       !.row = Answering(svcRows[i].host, aliases, canonical)])
  /\ UNCHANGED <<svcRows, lastId, svcList, owners, hostFaults, blind, revived>>

\* APIUpdateService: what the payload leaves out keeps the value read, which is
\* one of the choices here; without a host there are no other names.
BeginUpdate(e) ==
  /\ \E i \in Ids, host \in Hostnames \cup {NoName}, aliases \in SUBSET Hostnames,
        canonical \in Hostnames \cup {NoName} :
       /\ svcRows[i].here
       /\ host = NoName => aliases = {} /\ canonical = NoName
       /\ Begins(e, [NoEdit EXCEPT !.at = "update", !.api = TRUE, !.id = i,
                       !.row = Answering(host, aliases, canonical)])
  /\ UNCHANGED <<svcRows, lastId, svcList, owners, hostFaults, blind, revived>>

AfterCheck == [add |-> "insert", names |-> "aliases", update |-> "host"]

Check(e) ==
  /\ editors[e].at \in DOMAIN AfterCheck
  /\ ValidateHosts(editors[e].id, editors[e].row, svcList)
  /\ editors' = [editors EXCEPT ![e].at = AfterCheck[@]]
  /\ blind' = (blind \/ svcList # svcRows
                     \/ \E o \in Editors : editors[o].at \in Validated)
  /\ UNCHANGED <<svcRows, lastId, svcList, owners, hostChanges, hostFaults, revived, mixed, hostsBehind>>

CheckRefuses(e) ==
  /\ editors[e].at \in DOMAIN AfterCheck
  /\ ~ ValidateHosts(editors[e].id, editors[e].row, svcList)
  /\ Ended(e)
  /\ UNCHANGED <<svcRows, lastId, svcList, owners, hostChanges, hostFaults, blind, revived, mixed, hostsBehind>>

WritesRow(e, i, row, next) ==
  /\ svcRows' = [svcRows EXCEPT ![i] = row]
  /\ editors' = [editors EXCEPT ![e].at = next]
  /\ UNCHANGED <<svcList, owners, hostChanges, hostFaults, blind, mixed, hostsBehind>>

InsertService(e) ==
  /\ editors[e].at = "insert"
  /\ lastId < MaxServices /\ lastId' = lastId + 1
  /\ WritesRow(e, lastId + 1, editors[e].row, "list")
  /\ UNCHANGED revived

\* An UPDATE of a service that was removed changes nothing.  This one leaves the
\* other names in the row: a host given to a service that has none brings back
\* those that an update which got no further had left.
UpdateService(e) ==
  LET i == editors[e].id
  IN /\ editors[e].at = "host"
     /\ WritesRow(e, i, IF svcRows[i].here
                        THEN [svcRows[i] EXCEPT !.host = editors[e].row.host] ELSE Gone, "aliases")
     /\ revived' = (revived \/ /\ svcRows[i].host = NoName /\ svcRows[i].aliases # {}
                               /\ editors[e].row.host # NoName)
     /\ UNCHANGED lastId

SetServiceHosts(e) ==
  LET i == editors[e].id
  IN /\ editors[e].at = "aliases"
     /\ WritesRow(e, i, IF svcRows[i].here
                        THEN [editors[e].row EXCEPT !.host = svcRows[i].host] ELSE Gone,
                  IF editors[e].api THEN "rest" ELSE "list")
     /\ UNCHANGED <<lastId, revived>>

\* What the payload says of backends, bot mode and schema is validated only
\* now; if it is refused, the names are written and nothing is reloaded.
TakesTheRest(e) ==
  /\ editors[e].at = "rest"
  /\ editors' = [editors EXCEPT ![e].at = "list"]
  /\ UNCHANGED <<svcRows, lastId, svcList, owners, hostChanges, hostFaults, blind, revived, mixed, hostsBehind>>

RefusesTheRest(e) ==
  /\ editors[e].at = "rest"
  /\ Ended(e)
  /\ hostsBehind' = TRUE
  /\ UNCHANGED <<svcRows, lastId, svcList, owners, hostChanges, hostFaults, blind, revived, mixed>>

Trouble == hostFaults < MaxHostFaults /\ hostFaults' = hostFaults + 1

\* A write fails; of two writes the first may be done.
NamesFail(e) ==
  /\ editors[e].at \in Validated /\ Trouble
  /\ Ended(e)
  /\ mixed' = (mixed \/ editors[e].at = "aliases")
  /\ hostsBehind' = (hostsBehind \/ editors[e].at = "aliases")
  /\ UNCHANGED <<svcRows, lastId, svcList, owners, hostChanges, blind, revived>>

DeleteService(e) ==
  /\ \E i \in Ids :
       /\ svcRows[i].here
       /\ Begins(e, [NoEdit EXCEPT !.at = "list"])
       /\ svcRows' = [svcRows EXCEPT ![i] = Gone]
  /\ UNCHANGED <<lastId, svcList, owners, hostFaults, blind, revived>>

\* -- Registry.Reload -------------------------------------------------------

ReadServices(e) ==
  /\ editors[e].at = "list"
  /\ editors' = [editors EXCEPT ![e].at = "install", ![e].read = svcRows]
  /\ UNCHANGED <<svcRows, lastId, svcList, owners, hostChanges, hostFaults, blind, revived, mixed, hostsBehind>>

ReadServicesFails(e) ==
  /\ editors[e].at = "list" /\ Trouble
  /\ Ended(e)
  /\ hostsBehind' = TRUE
  /\ UNCHANGED <<svcRows, lastId, svcList, owners, hostChanges, blind, revived, mixed>>

Install(e) ==
  /\ editors[e].at = "install"
  /\ svcList' = editors[e].read /\ owners' = Owners(editors[e].read)
  /\ Ended(e)
  /\ hostsBehind' = (hostsBehind /\ ~ editors[e].alone)
  /\ UNCHANGED <<svcRows, lastId, hostChanges, hostFaults, blind, revived, mixed>>

\* The process ends and starts again from the table.
StartRegistry ==
  /\ hostChanges < MaxHostChanges /\ hostChanges' = hostChanges + 1
  /\ svcList' = svcRows /\ owners' = Owners(svcRows)
  /\ mixed' = (mixed \/ \E e \in Editors : editors[e].at = "aliases")
  /\ editors' = [e \in Editors |-> NoEdit]
  /\ hostsBehind' = FALSE
  /\ UNCHANGED <<svcRows, lastId, hostFaults, blind, revived>>

\* One service, with any names.
InitHosts ==
  /\ \E host, canonical \in Hostnames \cup {NoName}, aliases \in SUBSET Hostnames :
       svcRows = [NoServices EXCEPT ![1] = Answering(host, aliases, canonical)]
  /\ ValidateHosts(1, svcRows[1], svcRows)
  /\ lastId = 1
  /\ svcList = svcRows /\ owners = Owners(svcRows)
  /\ editors = [e \in Editors |-> NoEdit]
  /\ hostChanges = 0 /\ hostFaults = 0
  /\ blind = FALSE /\ revived = FALSE /\ mixed = FALSE /\ hostsBehind = FALSE

NextHosts ==
  \/ \E e \in Editors :
       \/ BeginAdd(e) \/ BeginHosts(e) \/ BeginUpdate(e) \/ DeleteService(e)
       \/ Check(e) \/ CheckRefuses(e)
       \/ InsertService(e) \/ UpdateService(e) \/ SetServiceHosts(e)
       \/ TakesTheRest(e) \/ RefusesTheRest(e) \/ NamesFail(e)
       \/ ReadServices(e) \/ ReadServicesFails(e) \/ Install(e)
  \/ StartRegistry

SpecHosts == InitHosts /\ [][NextHosts]_hostVars

\* -- Properties ------------------------------------------------------------

TypeOKHosts ==
  /\ \A i \in Ids : HostsOf(svcRows[i]) \subseteq Hostnames
  /\ owners \in [Hostnames -> 0 .. MaxServices]
  /\ \A e \in Editors : editors[e].id \in 0 .. MaxServices

\* ValidateHosts: "none may already belong to another service".  Two services
\* share a name only if names were once validated while the registry did not
\* show what the table says, or before other validated names were written, or
\* a service got a host back and with it names that were free meanwhile:
\* whatever is added, renamed, removed, refused half-way or fails otherwise.
OnlyBlindChecksShareNames ==
  (\E n \in Hostnames : Cardinality(Claims(svcRows, n)) > 1) => blind \/ revived

\* A redirect to the canonical host is answered by some service, and another
\* redirect leads to a service that comes earlier: no browser goes round in
\* circles or ends at a name nobody serves, unless the two writes of a change
\* were torn apart or a copy of the table was taken between them.
RedirectsEnd ==
  (~ mixed /\ ~ hostsBehind /\ \A e \in Editors : ~ Editing(e)) =>
    \A n \in Hostnames :
      LET to == Redirect(svcList, owners, n)
      IN to # NoName =>
           /\ owners[to] # 0
           /\ Redirect(svcList, owners, to) # NoName => owners[to] < owners[n]

\* The registry sends every name to the first service the table gives it to,
\* unless a change was not reloaded or overlapped another and none has run
\* alone since.
NamesInForce ==
  (~ hostsBehind /\ \A e \in Editors : ~ Editing(e)) =>
    svcList = svcRows /\ owners = Owners(svcRows)

\* Names are one service's, and redirects end.
NamesAreSound == OnlyBlindChecksShareNames /\ RedirectsEnd
==============================================================================
