------------------------------ MODULE WafRules ------------------------------
(***************************************************************************)
(* From the stored WAF rules to the engines that judge requests: the       *)
(* admin's handlers that change a table and then rebuild every engine from *)
(* the database, SIGHUP that only rebuilds, and the swap of the default    *)
(* engine together with that of a service.  One service is modelled; a     *)
(* rule is an identifier, and an engine is the rules it leaves out and the *)
(* custom rules it loads.                                                  *)
(***************************************************************************)
EXTENDS Integers, FiniteSets

CONSTANTS
  Crs,            \* rules of the core rule set
  RowNos,         \* primary keys of waf_custom_rules
  RuleIds,        \* ids a custom SecRule may declare
  Changers,       \* calls of the admin's handlers and SIGHUPs under way
  MaxRuleChanges, \* bound: changes and SIGHUPs
  MaxRuleFaults,  \* bound: failing reads
  MaxRuleStarts   \* bound: starts of the process

\* Primary keys start at 1: row 0 stands for a rule that has no row yet.
ASSUME RowNosAssumption == 0 \notin RowNos

NoRow == [id |-> 0, global |-> TRUE, on |-> FALSE]
NoEngine == [off |-> {}, rules |-> {}, own |-> FALSE]

VARIABLES
  stored,   \* waf_disabled_rules, waf_service_rule_exceptions, the service's
            \* upload and schema options, waf_custom_rules
  engines,  \* Handler.wafDefault and wafByService
  changers, \* where a call is and what its build has read
  changes, ruleFaults, starts, \* history: how many of each
  raced,    \* history: two saves of a custom rule overlapped
  behind    \* history: a reload failed or overlapped another change, and
            \* none that ran alone has finished since

wafVars == <<stored, engines, changers, changes, ruleFaults, starts, raced, behind>>

Nothing == [off |-> {}, rows |-> [r \in RowNos |-> NoRow], names |-> FALSE]
Resting == [at |-> "idle", alone |-> FALSE, row |-> 0, new |-> NoRow, read |-> Nothing]

UnderWay(c) == changers[c].at # "idle"
Others(c) == {o \in Changers \ {c} : UnderWay(o)}

\* -- Engines ---------------------------------------------------------------

\* customRuleDirectives: the enabled rows, for every service and for this one.
GlobalCustom(rows) == {r \in RowNos : rows[r].on /\ rows[r].global}
ServiceCustom(rows) == {r \in RowNos : rows[r].on /\ ~ rows[r].global}

\* The engine refuses two rules with one id.
NewWithDirectives(rows, loaded) ==
  \A r, q \in loaded : r # q => rows[r].id # rows[q].id

DefaultEngine(off, rows) == [off |-> off, rules |-> GlobalCustom(rows), own |-> TRUE]

ServiceEngine(off, svcOff, rows) ==
  [off |-> off \cup svcOff,
   rules |-> GlobalCustom(rows) \cup ServiceCustom(rows), own |-> TRUE]

\* A service has an engine of its own for an exception, an option or a rule.
NeedsEngine(names, rows) == names \/ ServiceCustom(rows) # {}

Compiles(rows, names) ==
  NewWithDirectives(rows, IF NeedsEngine(names, rows)
                          THEN GlobalCustom(rows) \cup ServiceCustom(rows)
                          ELSE GlobalCustom(rows))

Pair(off, svcOff, rows, names) ==
  [def |-> DefaultEngine(off, rows),
   svc |-> IF NeedsEngine(names, rows) THEN ServiceEngine(off, svcOff, rows) ELSE NoEngine]

Named(s) == s.svcOff # {} \/ s.options

BuildWAFAll(s) == Pair(s.off, s.svcOff, s.rows, Named(s))

\* -- Changes ---------------------------------------------------------------

Starting(c, entry) ==
  /\ ~ UnderWay(c) /\ changes < MaxRuleChanges
  /\ changes' = changes + 1
  /\ changers' = [o \in Changers |->
       IF o = c THEN [entry EXCEPT !.alone = (Others(c) = {})]
       ELSE [changers[o] EXCEPT !.alone = FALSE]]
  /\ behind' = (behind \/ Others(c) # {})

\* The table is written; the build that follows reads it all again.
Changed(c, s) ==
  /\ Starting(c, [Resting EXCEPT !.at = "off"])
  /\ stored' = s
  /\ UNCHANGED <<engines, ruleFaults, starts, raced>>

DisableWAFRule(c, r) == Changed(c, [stored EXCEPT !.off = @ \cup {r}])
EnableWAFRule(c, r) == r \in stored.off /\ Changed(c, [stored EXCEPT !.off = @ \ {r}])
DisableForService(c, r) == Changed(c, [stored EXCEPT !.svcOff = @ \cup {r}])
EnableForService(c, r) == r \in stored.svcOff /\ Changed(c, [stored EXCEPT !.svcOff = @ \ {r}])
SetServiceSchema(c) == Changed(c, [stored EXCEPT !.options = ~ @])
ToggleCustomRule(c, r) == stored.rows[r] # NoRow /\ Changed(c, [stored EXCEPT !.rows[r].on = ~ @])
DeleteCustomRule(c, r) == stored.rows[r] # NoRow /\ Changed(c, [stored EXCEPT !.rows[r] = NoRow])

Sighup(c) == Changed(c, stored)

\* Mutant: the rules that are switched off are not looked at.
IdIsFreeOfEnabled(r, id) == \A o \in RowNos \ {r} : ~ stored.rows[o].on \/ stored.rows[o].id # id

\* checkCustomRule reads the rows; the row is written in another statement.
\* Row 0 is a rule that has no row yet.
IdIsFree(r, id) == \A o \in RowNos \ {r} : stored.rows[o] = NoRow \/ stored.rows[o].id # id

Saving(o) == changers[o].at = "write"

CheckCustomRule(c) ==
  /\ \E r \in {0} \cup {o \in RowNos : stored.rows[o] # NoRow}, i \in RuleIds, g \in BOOLEAN :
       /\ IdIsFree(r, i)
       /\ Starting(c, [Resting EXCEPT !.at = "write", !.row = r,
                                      !.new = [id |-> i, global |-> g, on |-> TRUE]])
  /\ raced' = (raced \/ \E o \in Others(c) : Saving(o))
  /\ UNCHANGED <<stored, engines, ruleFaults, starts>>

Wrote(c, rows) ==
  /\ stored' = [stored EXCEPT !.rows = rows]
  /\ changers' = [changers EXCEPT ![c] = [@ EXCEPT !.at = "off", !.row = 0, !.new = NoRow]]
  /\ UNCHANGED <<engines, changes, ruleFaults, starts, raced, behind>>

InsertCustomRule(c) ==
  /\ Saving(c) /\ changers[c].row = 0
  /\ \E r \in RowNos : /\ stored.rows[r] = NoRow
                       /\ Wrote(c, [stored.rows EXCEPT ![r] = changers[c].new])

\* An update leaves the switch of the row alone.
UpdateCustomRule(c) ==
  LET r == changers[c].row
  IN /\ Saving(c) /\ r # 0 /\ stored.rows[r] # NoRow
     /\ Wrote(c, [stored.rows EXCEPT ![r] = [changers[c].new EXCEPT !.on = stored.rows[r].on]])

\* The row is gone, or there is no room for another (a bound): an error.
SaveFails(c) ==
  /\ Saving(c)
  /\ IF changers[c].row = 0 THEN \A r \in RowNos : stored.rows[r] # NoRow
     ELSE stored.rows[changers[c].row] = NoRow
  /\ changers' = [changers EXCEPT ![c] = Resting]
  /\ UNCHANGED <<stored, engines, changes, ruleFaults, starts, raced, behind>>

\* -- reloadWAF: the reads of buildWAFAll, then the swap ---------------------

Read(c, at, next, r) ==
  /\ changers[c].at = at
  /\ changers' = [changers EXCEPT ![c].at = next, ![c].read = r]
  /\ UNCHANGED <<stored, engines, changes, ruleFaults, starts, raced, behind>>

GetDisabledRules(c) == Read(c, "off", "rows", [changers[c].read EXCEPT !.off = stored.off])

ListCustomRules(c) == Read(c, "rows", "names", [changers[c].read EXCEPT !.rows = stored.rows])

\* The services with an exception and those with an option: two queries, one step.
ListServices(c) == Read(c, "names", "install", [changers[c].read EXCEPT !.names = Named(stored)])

\* The service's exceptions are read last, while its engine is built.
Built(c) == Pair(changers[c].read.off, stored.svcOff, changers[c].read.rows, changers[c].read.names)

Finished(c, e, clean) ==
  /\ changers' = [changers EXCEPT ![c] = Resting]
  /\ engines' = e
  /\ behind' = IF clean THEN behind /\ ~ changers[c].alone ELSE TRUE
  /\ UNCHANGED <<stored, changes, starts, raced>>

\* Mutant: the engines of the services are not swapped.
ReloadDefaultWAF(c) ==
  /\ changers[c].at = "install"
  /\ Compiles(changers[c].read.rows, changers[c].read.names)
  /\ Finished(c, [engines EXCEPT !.def = Built(c).def], TRUE)
  /\ UNCHANGED ruleFaults

ReloadWAF(c) ==
  /\ changers[c].at = "install"
  /\ Compiles(changers[c].read.rows, changers[c].read.names)
  /\ Finished(c, Built(c), TRUE)
  /\ UNCHANGED ruleFaults

\* A build that fails is logged, and the engines stay.
BuildFails(c) ==
  /\ changers[c].at = "install"
  /\ ~ Compiles(changers[c].read.rows, changers[c].read.names)
  /\ Finished(c, engines, FALSE)
  /\ UNCHANGED ruleFaults

ReadFails(c) ==
  /\ changers[c].at \in {"off", "rows", "names", "install"} /\ ruleFaults < MaxRuleFaults
  /\ ruleFaults' = ruleFaults + 1
  /\ Finished(c, engines, FALSE)

\* The process starts again from the tables; it does not start at all when
\* the rules do not compile.
StartWAF ==
  /\ starts < MaxRuleStarts /\ starts' = starts + 1
  /\ Compiles(stored.rows, Named(stored))
  /\ engines' = BuildWAFAll(stored)
  /\ changers' = [c \in Changers |-> Resting]
  /\ behind' = FALSE
  /\ UNCHANGED <<stored, changes, ruleFaults, raced>>

InitWafRules ==
  /\ stored = [off |-> {}, svcOff |-> {}, options |-> FALSE, rows |-> [r \in RowNos |-> NoRow]]
  /\ engines = BuildWAFAll(stored)
  /\ changers = [c \in Changers |-> Resting]
  /\ changes = 0 /\ ruleFaults = 0 /\ starts = 1 /\ raced = FALSE /\ behind = FALSE

NextWafRules ==
  \/ \E c \in Changers :
       \/ \E r \in Crs : \/ DisableWAFRule(c, r) \/ EnableWAFRule(c, r)
                         \/ DisableForService(c, r) \/ EnableForService(c, r)
       \/ SetServiceSchema(c) \/ Sighup(c)
       \/ \E r \in RowNos : ToggleCustomRule(c, r) \/ DeleteCustomRule(c, r)
       \/ CheckCustomRule(c) \/ InsertCustomRule(c) \/ UpdateCustomRule(c) \/ SaveFails(c)
       \/ GetDisabledRules(c) \/ ListCustomRules(c) \/ ListServices(c)
       \/ ReloadWAF(c) \/ BuildFails(c) \/ ReadFails(c)
  \/ StartWAF

SpecWafRules == InitWafRules /\ [][NextWafRules]_wafVars

\* -- Properties ------------------------------------------------------------

TypeOKWafRules ==
  /\ stored.off \subseteq Crs /\ stored.svcOff \subseteq Crs
  /\ engines.def.off \subseteq Crs /\ engines.svc.off \subseteq Crs
  /\ engines.def.rules \subseteq RowNos /\ engines.svc.rules \subseteq RowNos
  /\ \A c \in Changers : changers[c].at \in {"idle", "write", "off", "rows", "names", "install"}

\* Once no change is under way, the engines are those the tables describe,
\* unless a reload failed or two overlapped and none has run alone since.
EnginesFollowTables ==
  (~ behind /\ \A c \in Changers : ~ UnderWay(c)) => engines = BuildWAFAll(stored)

\* ReloadWAF's comment: no default engine of one generation with the engine of
\* a service of another.  The service's engine leaves out every rule the
\* default one leaves out and loads every custom rule it loads.
EnginesOfOneBuild ==
  engines.svc # NoEngine => /\ engines.def.off \subseteq engines.svc.off
                            /\ engines.def.rules \subseteq engines.svc.rules

Twice == \E r, q \in RowNos : /\ r # q /\ stored.rows[r] # NoRow
                              /\ stored.rows[q] # NoRow /\ stored.rows[r].id = stored.rows[q].id

\* Only two saves that overlap can leave two rows with one id, which no engine
\* compiles: neither a rule for another scope nor one that is switched off.
OnlyRacesRepeatIds == Twice => raced

\* apiSaveCustomRule's comment: "Custom rule IDs are unique across rows
\* (checkCustomRule)".
RuleIdsUnique == ~ Twice
=============================================================================
