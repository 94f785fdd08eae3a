---------------------------- MODULE EnginesProofs ----------------------------
(* Theorems about WafRules, Challenge, VerdictCache, Hosts, GeoRules and     *)
(* LiveLog, and about settings side by side, for every value of the         *)
(* constants.                                                               *)
EXTENDS MCEngines, SequenceTheorems, FiniteSetTheorems, WellFoundedInduction, TLAPS

\* -- WafRules ----------------------------------------------------------------

RuleRows == [id : RuleIds \cup {0}, global : BOOLEAN, on : BOOLEAN]

Tables == [off : SUBSET Crs, svcOff : SUBSET Crs, options : BOOLEAN,
           rows : [RowNos -> RuleRows]]

Reads == [off : SUBSET Crs, rows : [RowNos -> RuleRows], names : BOOLEAN]

Calls == [at : {"idle", "write", "off", "rows", "names", "install"},
          alone : BOOLEAN, row : RowNos \cup {0}, new : RuleRows, read : Reads]

RulesShape ==
  /\ stored \in Tables
  /\ changers \in [Changers -> Calls]
  /\ raced \in BOOLEAN

\* The check a save has made still holds when it writes.
FreeFor(c) ==
  \A o \in RowNos \ {changers[c].row} :
    stored.rows[o] = NoRow \/ stored.rows[o].id # changers[c].new.id

\* Until two saves overlap there is one at most, and its check stays true.
OneSaver ==
  ~ raced => /\ ~ Twice
             /\ \A c \in Changers : Saving(c) => FreeFor(c)
             /\ \A c, d \in Changers : Saving(c) /\ Saving(d) => c = d

IdsInv == RulesShape /\ OneSaver

\* The empty values have their types.
LEMMA EmptyValues ==
  NoRow \in RuleRows /\ Nothing \in Reads /\ Resting \in Calls
BY DEF NoRow, Nothing, Resting, RuleRows, Reads, Calls

LEMMA IdsInit == InitWafRules => IdsInv
<1> SUFFICES ASSUME InitWafRules PROVE IdsInv
  OBVIOUS
<1>1. RulesShape
  BY EmptyValues DEF InitWafRules, RulesShape, Tables
<1>2. ~ Twice
  BY DEF InitWafRules, Twice
<1>3. \A c \in Changers : ~ Saving(c)
  BY DEF InitWafRules, Saving, Resting
<1> QED
  BY <1>1, <1>2, <1>3 DEF IdsInv, OneSaver

\* A table that holds no new row has no new pair with one id, and what was
\* free stays free.
Within(s) == \A r \in RowNos : s.rows[r] = NoRow \/ (stored.rows[r] # NoRow /\ s.rows[r].id = stored.rows[r].id)

\* A call that ends or goes on to its build saves no longer; the others are
\* as they were.
LEMMA FewerSavers ==
  ASSUME IdsInv, RulesShape', Within(stored'), raced' = raced,
         \A c \in Changers : Saving(c)' => Saving(c) /\ changers'[c].row = changers[c].row
                                          /\ changers'[c].new = changers[c].new
  PROVE  IdsInv'
<1> SUFFICES ASSUME ~ raced PROVE /\ ~ Twice'
                                  /\ \A c \in Changers : Saving(c)' => FreeFor(c)'
                                  /\ \A c, d \in Changers : Saving(c)' /\ Saving(d)' => c = d
  BY DEF IdsInv, OneSaver
<1>1. ~ Twice'
  BY DEF Twice, Within, IdsInv, OneSaver
<1>2. ASSUME NEW c \in Changers, Saving(c)' PROVE FreeFor(c)'
  BY <1>2 DEF FreeFor, Within, IdsInv, OneSaver
<1> QED
  BY <1>1, <1>2 DEF IdsInv, OneSaver

\* A call that starts marks the others as no longer alone, and no more.
LEMMA StartingShape ==
  ASSUME IdsInv, NEW c \in Changers, NEW e \in Calls, Starting(c, e)
  PROVE  /\ changers' \in [Changers -> Calls]
         /\ changers'[c].at = e.at /\ changers'[c].row = e.row /\ changers'[c].new = e.new
         /\ \A o \in Changers \ {c} : /\ changers'[o].at = changers[o].at
                                      /\ changers'[o].row = changers[o].row
                                      /\ changers'[o].new = changers[o].new
<1>1. \A o \in Changers : changers[o] \in Calls
  BY DEF IdsInv, RulesShape
<1>2. \A o \in Changers : changers'[o] =
        IF o = c THEN [e EXCEPT !.alone = (Others(c) = {})]
        ELSE [changers[o] EXCEPT !.alone = FALSE]
  BY DEF Starting
<1>3. \A x \in Calls, b \in BOOLEAN :
        /\ [x EXCEPT !.alone = b] \in Calls
        /\ [x EXCEPT !.alone = b].at = x.at /\ [x EXCEPT !.alone = b].row = x.row
        /\ [x EXCEPT !.alone = b].new = x.new
  BY DEF Calls
<1>4. changers' = [o \in Changers |-> changers'[o]]
  BY <1>2 DEF Starting
<1>5. \A o \in Changers : changers'[o] \in Calls
  BY <1>1, <1>2, <1>3
<1> QED
  BY <1>1, <1>2, <1>3, <1>4, <1>5

\* A handler that changed a table without adding a row to it.
LEMMA ChangedKeepsIds ==
  ASSUME IdsInv, NEW c \in Changers, NEW s \in Tables, Within(s), Changed(c, s)
  PROVE  IdsInv'
<1> DEFINE e == [Resting EXCEPT !.at = "off"]
<1>1. e \in Calls /\ e.at = "off"
  BY EmptyValues DEF Calls
<1>2. Starting(c, e) /\ stored' = s /\ raced' = raced
  BY DEF Changed
<1> HIDE DEF e
<1>3. RulesShape'
  BY <1>1, <1>2, StartingShape DEF IdsInv, RulesShape
<1>4. \A o \in Changers : Saving(o)' => Saving(o) /\ changers'[o].row = changers[o].row
                                        /\ changers'[o].new = changers[o].new
  BY <1>1, <1>2, StartingShape DEF Saving
<1> QED
  BY <1>2, <1>3, <1>4, FewerSavers

LEMMA TableChanges ==
  ASSUME IdsInv, NEW c \in Changers,
         \/ \E r \in Crs : \/ DisableWAFRule(c, r) \/ EnableWAFRule(c, r)
                           \/ DisableForService(c, r) \/ EnableForService(c, r)
         \/ SetServiceSchema(c) \/ Sighup(c)
         \/ \E r \in RowNos : ToggleCustomRule(c, r) \/ DeleteCustomRule(c, r)
  PROVE  IdsInv'
<1> USE DEF IdsInv, RulesShape
<1>1. ASSUME NEW s \in Tables, s.rows = stored.rows, Changed(c, s) PROVE IdsInv'
  <2>1. Within(s)
    BY <1>1 DEF Within
  <2> QED
    BY <1>1, <2>1, ChangedKeepsIds
<1>2. ASSUME NEW r \in Crs, \/ DisableWAFRule(c, r) \/ EnableWAFRule(c, r)
      PROVE  IdsInv'
  <2>1. \A x \in SUBSET Crs : /\ [stored EXCEPT !.off = x] \in Tables
                              /\ [stored EXCEPT !.off = x].rows = stored.rows
    BY DEF Tables
  <2>2. stored.off \cup {r} \in SUBSET Crs /\ stored.off \ {r} \in SUBSET Crs
    BY DEF Tables
  <2> QED
    BY <1>1, <1>2, <2>1, <2>2 DEF DisableWAFRule, EnableWAFRule
<1>3. ASSUME NEW r \in Crs, \/ DisableForService(c, r) \/ EnableForService(c, r)
      PROVE  IdsInv'
  <2>1. \A x \in SUBSET Crs : /\ [stored EXCEPT !.svcOff = x] \in Tables
                              /\ [stored EXCEPT !.svcOff = x].rows = stored.rows
    BY DEF Tables
  <2>2. stored.svcOff \cup {r} \in SUBSET Crs /\ stored.svcOff \ {r} \in SUBSET Crs
    BY DEF Tables
  <2> QED
    BY <1>1, <1>3, <2>1, <2>2 DEF DisableForService, EnableForService
<1>4. CASE SetServiceSchema(c)
  <2>1. /\ [stored EXCEPT !.options = ~ @] \in Tables
        /\ [stored EXCEPT !.options = ~ @].rows = stored.rows
    BY DEF Tables
  <2> QED
    BY <1>1, <1>4, <2>1 DEF SetServiceSchema
<1>5. CASE Sighup(c)
  BY <1>1, <1>5 DEF Sighup
<1>6. ASSUME NEW r \in RowNos, ToggleCustomRule(c, r) PROVE IdsInv'
  <2> DEFINE row == [stored.rows[r] EXCEPT !.on = ~ @]
             s == [stored EXCEPT !.rows = [@ EXCEPT ![r] = row]]
  <2>1. stored.rows[r] # NoRow /\ Changed(c, s)
    BY <1>6 DEF ToggleCustomRule
  <2>2. stored.rows[r] \in RuleRows
    BY DEF Tables
  <2>3. row \in RuleRows /\ row.id = stored.rows[r].id
    BY <2>2 DEF RuleRows
  <2>4. s \in Tables /\ Within(s)
    BY <2>1, <2>3 DEF Tables, Within
  <2> QED
    BY <2>1, <2>4, ChangedKeepsIds
<1>7. ASSUME NEW r \in RowNos, DeleteCustomRule(c, r) PROVE IdsInv'
  <2> DEFINE s == [stored EXCEPT !.rows = [@ EXCEPT ![r] = NoRow]]
  <2>1. Changed(c, s)
    BY <1>7 DEF DeleteCustomRule
  <2>2. s \in Tables /\ Within(s)
    BY EmptyValues DEF Tables, Within
  <2> QED
    BY <2>1, <2>2, ChangedKeepsIds
<1> QED
  BY <1>2, <1>3, <1>4, <1>5, <1>6, <1>7

\* A save that begins found its id free; another under way is a race.
LEMMA CheckKeepsIds ==
  ASSUME IdsInv, NEW c \in Changers, CheckCustomRule(c)
  PROVE  IdsInv'
<1>1. PICK r \in {0} \cup RowNos, i \in RuleIds, g \in BOOLEAN :
        /\ IdIsFree(r, i)
        /\ Starting(c, [Resting EXCEPT !.at = "write", !.row = r,
                                       !.new = [id |-> i, global |-> g, on |-> TRUE]])
  BY DEF CheckCustomRule
<1> DEFINE e == [Resting EXCEPT !.at = "write", !.row = r,
                                !.new = [id |-> i, global |-> g, on |-> TRUE]]
<1>2. e \in Calls /\ e.at = "write" /\ e.row = r /\ e.new.id = i
  BY EmptyValues DEF Calls, RuleRows, Resting
<1>3. Starting(c, e) /\ stored' = stored
  BY <1>1 DEF CheckCustomRule
<1>4. raced' = (raced \/ \E o \in Others(c) : Saving(o))
  BY DEF CheckCustomRule
<1> HIDE DEF e
<1>5. /\ changers'[c].row = r /\ changers'[c].new.id = i
      /\ \A o \in Changers \ {c} : /\ changers'[o].at = changers[o].at
                                   /\ changers'[o].row = changers[o].row
                                   /\ changers'[o].new = changers[o].new
  BY <1>2, <1>3, StartingShape
<1>6. RulesShape'
  BY <1>2, <1>3, <1>4, StartingShape DEF IdsInv, RulesShape
<1>7. SUFFICES ASSUME ~ raced'
               PROVE /\ ~ Twice'
                     /\ \A d \in Changers : Saving(d)' => FreeFor(d)'
                     /\ \A d, o \in Changers : Saving(d)' /\ Saving(o)' => d = o
  BY <1>6 DEF IdsInv, OneSaver
<1>8. ~ raced /\ \A o \in Changers \ {c} : ~ Saving(o)
  BY <1>4, <1>7 DEF Others, UnderWay, Saving
<1>9. \A o \in Changers \ {c} : ~ Saving(o)'
  BY <1>5, <1>8 DEF Saving
<1>10. FreeFor(c)'
  BY <1>1, <1>3, <1>5 DEF FreeFor, IdIsFree
<1>11. ~ Twice'
  BY <1>3, <1>8 DEF IdsInv, OneSaver, Twice
<1> QED
  BY <1>9, <1>10, <1>11

\* The row a save writes carries the id it found free.
LEMMA WroteKeepsIds ==
  ASSUME IdsInv, NEW c \in Changers, Saving(c), NEW r \in RowNos, NEW w \in RuleRows,
         changers[c].row \in {0, r}, w.id = changers[c].new.id,
         changers[c].row = 0 => stored.rows[r] = NoRow,
         Wrote(c, [stored.rows EXCEPT ![r] = w])
  PROVE  IdsInv'
<1>1. /\ stored' = [stored EXCEPT !.rows = [stored.rows EXCEPT ![r] = w]]
      /\ changers' = [changers EXCEPT ![c] = [@ EXCEPT !.at = "off", !.row = 0, !.new = NoRow]]
      /\ raced' = raced
  BY DEF Wrote
<1>2. RulesShape'
  BY <1>1, EmptyValues DEF IdsInv, RulesShape, Tables, Calls
<1>3. \A o \in Changers : Saving(o)' => o # c /\ Saving(o)
  BY <1>1 DEF IdsInv, RulesShape, Saving, Calls
<1>4. SUFFICES ASSUME ~ raced
               PROVE /\ ~ Twice'
                     /\ \A o \in Changers : ~ Saving(o)'
  BY <1>1, <1>2 DEF IdsInv, OneSaver
<1>5. \A o \in Changers : ~ Saving(o)'
  BY <1>3, <1>4 DEF IdsInv, OneSaver
<1>6. \A o \in RowNos \ {r} : stored.rows[o] = NoRow \/ stored.rows[o].id # w.id
  BY <1>4, RowNosAssumption DEF IdsInv, OneSaver, FreeFor
<1>7. \A o \in RowNos : stored'.rows[o] = IF o = r THEN w ELSE stored.rows[o]
  BY <1>1 DEF IdsInv, RulesShape, Tables
<1>8. ~ Twice'
  BY <1>4, <1>6, <1>7 DEF IdsInv, OneSaver, Twice
<1> QED
  BY <1>5, <1>8

LEMMA WritesKeepIds ==
  ASSUME IdsInv, NEW c \in Changers,
         InsertCustomRule(c) \/ UpdateCustomRule(c)
  PROVE  IdsInv'
<1>1. changers[c] \in Calls
  BY DEF IdsInv, RulesShape
<1>2. CASE InsertCustomRule(c)
  BY <1>1, <1>2, WroteKeepsIds DEF InsertCustomRule, Calls
<1>3. CASE UpdateCustomRule(c)
  <2> DEFINE r == changers[c].row
             w == [changers[c].new EXCEPT !.on = stored.rows[r].on]
  <2>1. r \in RowNos /\ Saving(c) /\ r # 0
    BY <1>1, <1>3 DEF UpdateCustomRule, Calls
  <2>2. stored.rows[r] \in RuleRows
    BY <2>1 DEF IdsInv, RulesShape, Tables
  <2>3. w \in RuleRows /\ w.id = changers[c].new.id
    BY <1>1, <2>2 DEF Calls, RuleRows
  <2>4. Wrote(c, [stored.rows EXCEPT ![r] = w])
    BY <1>3 DEF UpdateCustomRule
  <2> QED
    BY <2>1, <2>3, <2>4, WroteKeepsIds
<1> QED
  BY <1>2, <1>3

\* The steps after the write: nobody starts to save, and no table changes.
LEMMA BuildsKeepIds ==
  ASSUME IdsInv, NEW c \in Changers,
         \/ SaveFails(c) \/ GetDisabledRules(c) \/ ListCustomRules(c) \/ ListServices(c)
         \/ ReloadWAF(c) \/ BuildFails(c) \/ ReadFails(c)
  PROVE  IdsInv'
<1> USE DEF IdsInv, RulesShape
<1>1. /\ stored \in Tables /\ changers[c] \in Calls /\ changers[c].read \in Reads
  BY DEF Calls
<1>2. ASSUME stored' = stored, raced' = raced,
             NEW e \in Calls, e.at # "write", changers' = [changers EXCEPT ![c] = e]
      PROVE  IdsInv'
  <2>1. RulesShape'
    BY <1>2
  <2>2. Within(stored')
    BY <1>2 DEF Within
  <2>3. \A o \in Changers : Saving(o)' => Saving(o) /\ changers'[o].row = changers[o].row
                                          /\ changers'[o].new = changers[o].new
    BY <1>2 DEF Saving
  <2> HIDE DEF RulesShape, IdsInv
  <2> QED
    BY <1>2, <2>1, <2>2, <2>3, FewerSavers
<1>3. CASE SaveFails(c) \/ ReloadWAF(c) \/ BuildFails(c) \/ ReadFails(c)
  BY <1>2, <1>3, EmptyValues
  DEF SaveFails, ReloadWAF, BuildFails, ReadFails, Finished, Resting
<1>4. ASSUME NEW at, NEW next \in {"rows", "names", "install"}, NEW r \in Reads,
             Read(c, at, next, r)
      PROVE  IdsInv'
  <2> DEFINE e == [changers[c] EXCEPT !.at = next, !.read = r]
  <2>1. e \in Calls /\ e.at # "write"
    BY <1>1 DEF Calls
  <2>2. changers' = [changers EXCEPT ![c] = e]
    BY <1>1, <1>4 DEF Read, Calls
  <2> QED
    BY <1>2, <1>4, <2>1, <2>2 DEF Read
<1>5. CASE GetDisabledRules(c)
  <2>1. [changers[c].read EXCEPT !.off = stored.off] \in Reads
    BY <1>1 DEF Tables, Reads
  <2> QED
    BY <1>4, <1>5, <2>1 DEF GetDisabledRules
<1>6. CASE ListCustomRules(c)
  <2>1. [changers[c].read EXCEPT !.rows = stored.rows] \in Reads
    BY <1>1 DEF Tables, Reads
  <2> QED
    BY <1>4, <1>6, <2>1 DEF ListCustomRules
<1>7. CASE ListServices(c)
  <2>1. [changers[c].read EXCEPT !.names = Named(stored)] \in Reads
    BY <1>1 DEF Tables, Reads, Named
  <2> QED
    BY <1>4, <1>7, <2>1 DEF ListServices
<1> QED
  BY <1>3, <1>5, <1>6, <1>7

LEMMA StartKeepsIds == IdsInv /\ StartWAF => IdsInv'
<1> SUFFICES ASSUME IdsInv, StartWAF PROVE IdsInv'
  OBVIOUS
<1>1. changers' = [c \in Changers |-> Resting] /\ stored' = stored /\ raced' = raced
  BY DEF StartWAF
<1>2. RulesShape' /\ Within(stored')
  BY <1>1, EmptyValues DEF IdsInv, RulesShape, Within
<1>3. \A c \in Changers : ~ Saving(c)'
  BY <1>1 DEF Saving, Resting
<1> QED
  BY <1>1, <1>2, <1>3, FewerSavers

LEMMA IdsNext == IdsInv /\ [NextWafRules]_wafVars => IdsInv'
<1> SUFFICES ASSUME IdsInv, [NextWafRules]_wafVars PROVE IdsInv'
  OBVIOUS
<1>1. CASE UNCHANGED wafVars
  BY <1>1 DEF wafVars, IdsInv, RulesShape, OneSaver, Twice, FreeFor, Saving
<1>2. CASE StartWAF
  BY <1>2, StartKeepsIds
<1>3. CASE NextWafRules /\ ~ StartWAF
  BY <1>3, TableChanges, CheckKeepsIds, WritesKeepIds, BuildsKeepIds DEF NextWafRules
<1> QED
  BY <1>1, <1>2, <1>3

\* Only two saves of a custom rule that overlap can leave two rows with one
\* id: checkCustomRule holds until the write of every other save.
THEOREM WafRuleIds == SpecWafRules => []OnlyRacesRepeatIds
<1>1. IdsInv => OnlyRacesRepeatIds
  BY DEF IdsInv, OneSaver, OnlyRacesRepeatIds
<1> QED
  BY <1>1, IdsInit, IdsNext, PTL DEF SpecWafRules

\* Engines are always those of one build.
BuiltEngines ==
  \E off, svcOff \in SUBSET Crs, rows \in [RowNos -> RuleRows], names \in BOOLEAN :
    engines = Pair(off, svcOff, rows, names)

\* A call that came alone and met no other is alone, and what its build has
\* read is what the tables say.  While nothing is behind every call is such a
\* one, and as long as no table is changed the engines are those of the tables.
RulesAlone ==
  /\ \A c \in Changers : UnderWay(c) /\ changers[c].alone =>
       /\ \A o \in Changers : UnderWay(o) => o = c
       /\ changers[c].at \in {"rows", "names", "install"} => changers[c].read.off = stored.off
       /\ changers[c].at \in {"names", "install"} => changers[c].read.rows = stored.rows
       /\ changers[c].at = "install" => changers[c].read.names = Named(stored)
  /\ ~ behind =>
       /\ \A c \in Changers : UnderWay(c) => changers[c].alone
       /\ (\A c \in Changers : UnderWay(c) => Saving(c)) => engines = BuildWAFAll(stored)

RulesInv == behind \in BOOLEAN /\ BuiltEngines /\ RulesAlone

LEMMA BuiltFrom ==
  ASSUME NEW off \in SUBSET Crs, NEW svcOff \in SUBSET Crs,
         NEW rows \in [RowNos -> RuleRows], NEW names \in BOOLEAN,
         engines' = Pair(off, svcOff, rows, names)
  PROVE  BuiltEngines'
BY DEF BuiltEngines

LEMMA BuiltFromTables ==
  ASSUME NEW s \in Tables, engines' = BuildWAFAll(s)
  PROVE  BuiltEngines'
<1>1. /\ s.off \in SUBSET Crs /\ s.svcOff \in SUBSET Crs
      /\ s.rows \in [RowNos -> RuleRows] /\ Named(s) \in BOOLEAN
  BY DEF Tables, Named
<1>2. engines' = Pair(s.off, s.svcOff, s.rows, Named(s))
  BY DEF BuildWAFAll
<1> QED
  BY <1>1, <1>2, BuiltFrom

LEMMA RulesInit == InitWafRules => RulesInv
<1> SUFFICES ASSUME InitWafRules PROVE RulesInv
  OBVIOUS
<1>1. stored \in Tables
  BY EmptyValues DEF InitWafRules, Tables
<1>2. engines = BuildWAFAll(stored)
  BY DEF InitWafRules
<1>3. BuiltEngines
  <2>1. /\ stored.off \in SUBSET Crs /\ stored.svcOff \in SUBSET Crs
        /\ stored.rows \in [RowNos -> RuleRows] /\ Named(stored) \in BOOLEAN
    BY <1>1 DEF Tables, Named
  <2> QED
    BY <1>2, <2>1 DEF BuildWAFAll, BuiltEngines
<1>4. \A c \in Changers : ~ UnderWay(c)
  BY DEF InitWafRules, UnderWay, Resting
<1> QED
  BY <1>2, <1>3, <1>4 DEF InitWafRules, RulesInv, RulesAlone

\* A call goes on to its next step, or it ends.
LEMMA RulesMove ==
  ASSUME IdsInv, RulesInv, NEW c \in Changers, NEW n \in Calls, UnderWay(c),
         changers' = [changers EXCEPT ![c] = n], BuiltEngines', behind' \in BOOLEAN,
         n.at # "write",
         n.at # "idle" => behind' = behind /\ n.alone = changers[c].alone,
         n.at # "idle" /\ n.alone =>
           /\ n.at \in {"rows", "names", "install"} => n.read.off = stored'.off
           /\ n.at \in {"names", "install"} => n.read.rows = stored'.rows
           /\ n.at = "install" => n.read.names = Named(stored'),
         n.at = "idle" => behind' \/ ((~ behind \/ changers[c].alone) /\ engines' = BuildWAFAll(stored'))
  PROVE  RulesInv'
<1>1. changers'[c] = n /\ \A o \in Changers : o # c => changers'[o] = changers[o]
  BY DEF IdsInv, RulesShape
<1>2. ASSUME NEW o \in Changers, UnderWay(o)', changers'[o].alone
      PROVE  /\ \A p \in Changers : UnderWay(p)' => p = o
             /\ changers'[o].at \in {"rows", "names", "install"} => changers'[o].read.off = stored'.off
             /\ changers'[o].at \in {"names", "install"} => changers'[o].read.rows = stored'.rows
             /\ changers'[o].at = "install" => changers'[o].read.names = Named(stored')
  <2>1. UnderWay(o) /\ changers[o].alone
    BY <1>1, <1>2 DEF UnderWay
  <2>2. \A p \in Changers : UnderWay(p) => p = o
    BY <2>1 DEF RulesInv, RulesAlone
  <2>3. o = c
    BY <2>2
  <2>4. n.at # "idle" /\ n.alone
    BY <1>1, <1>2, <2>3 DEF UnderWay
  <2>5. \A p \in Changers : UnderWay(p)' => p = o
    BY <1>1, <2>2, <2>3 DEF UnderWay
  <2> QED
    BY <1>1, <2>3, <2>4, <2>5
<1>3. ASSUME ~ behind', NEW o \in Changers, UnderWay(o)' PROVE changers'[o].alone
  <2>1. CASE o = c
    <3>1. n.at # "idle"
      BY <1>1, <1>3, <2>1 DEF UnderWay
    <3>2. ~ behind /\ n.alone = changers[c].alone
      BY <1>3, <3>1
    <3>3. changers[c].alone
      BY <3>2 DEF RulesInv, RulesAlone
    <3> QED
      BY <1>1, <2>1, <3>2, <3>3
  <2>2. CASE o # c
    <3>1. UnderWay(o) /\ changers'[o] = changers[o]
      BY <1>1, <1>3, <2>2 DEF UnderWay
    <3>2. ~ changers[c].alone
      BY <2>2, <3>1 DEF RulesInv, RulesAlone
    <3>3. ~ behind
      BY <1>3, <3>2
    <3> QED
      BY <3>1, <3>3 DEF RulesInv, RulesAlone
  <2> QED
    BY <2>1, <2>2
<1>4. ASSUME ~ behind', \A o \in Changers : UnderWay(o)' => Saving(o)'
      PROVE  engines' = BuildWAFAll(stored')
  <2>1. n.at = "idle"
    BY <1>1, <1>4 DEF UnderWay, Saving
  <2> QED
    BY <1>4, <2>1
<1> HIDE DEF BuiltEngines
<1>5. RulesAlone'
  BY <1>2, <1>3, <1>4 DEF RulesAlone, BuildWAFAll, Named
<1> QED
  BY <1>5 DEF RulesInv

\* A call begins: it is alone only if it finds no other, and no other stays so.
LEMMA RulesBegin ==
  ASSUME IdsInv, RulesInv, NEW c \in Changers, NEW e \in Calls, e.at \in {"write", "off"},
         Starting(c, e), engines' = engines, e.at = "write" => stored' = stored
  PROVE  RulesInv'
<1>1. /\ ~ UnderWay(c) /\ behind' = (behind \/ Others(c) # {})
      /\ \A o \in Changers : changers'[o] =
           IF o = c THEN [e EXCEPT !.alone = (Others(c) = {})]
           ELSE [changers[o] EXCEPT !.alone = FALSE]
  BY DEF Starting
<1>2. \A x \in Calls, b \in BOOLEAN :
        /\ [x EXCEPT !.alone = b].at = x.at /\ [x EXCEPT !.alone = b].read = x.read
        /\ [x EXCEPT !.alone = b].alone = b
  BY DEF Calls
<1>3. \A o \in Changers : changers[o] \in Calls
  BY DEF IdsInv, RulesShape
<1>4. /\ changers'[c].at = e.at /\ (changers'[c].alone <=> Others(c) = {})
      /\ \A o \in Changers \ {c} : ~ changers'[o].alone /\ changers'[o].at = changers[o].at
  <2>1. changers'[c].at = e.at
    BY <1>1, <1>2
  <2>2. changers'[c].alone <=> Others(c) = {}
    <3>1. changers'[c] = [e EXCEPT !.alone = (Others(c) = {})]
      BY <1>1
    <3> QED
      BY <1>2, <3>1, Zenon
  <2>3. ASSUME NEW o \in Changers \ {c}
        PROVE  ~ changers'[o].alone /\ changers'[o].at = changers[o].at
    <3>1. changers'[o] = [changers[o] EXCEPT !.alone = FALSE] /\ changers[o] \in Calls
      BY <1>1, <1>3
    <3>2. changers'[o].at = changers[o].at
      BY <1>2, <3>1
    <3>3. ~ changers'[o].alone
      BY <1>2, <3>1, Zenon
    <3> QED
      BY <3>2, <3>3
  <2> QED
    BY <2>1, <2>2, <2>3
<1>5. BuiltEngines'
  BY DEF RulesInv, BuiltEngines
<1>6. Others(c) = {} => \A o \in Changers : UnderWay(o)' => o = c
  BY <1>4 DEF Others, UnderWay
<1>7. ASSUME ~ behind' PROVE /\ \A o \in Changers : UnderWay(o)' => changers'[o].alone
                             /\ (\A o \in Changers : UnderWay(o)' => Saving(o)') =>
                                  engines' = BuildWAFAll(stored')
  <2>1. ~ behind /\ Others(c) = {}
    BY <1>1, <1>7
  <2>2. \A o \in Changers : ~ UnderWay(o)
    BY <1>1, <2>1 DEF Others
  <2>3. engines = BuildWAFAll(stored)
    BY <2>1, <2>2 DEF RulesInv, RulesAlone
  <2>4. UnderWay(c)' /\ (Saving(c)' => e.at = "write")
    BY <1>4 DEF UnderWay, Saving
  <2> QED
    BY <1>4, <1>6, <2>1, <2>3, <2>4
<1>8. ASSUME NEW o \in Changers, UnderWay(o)', changers'[o].alone
      PROVE  o = c /\ Others(c) = {} /\ changers'[o].at \notin {"rows", "names", "install"}
  BY <1>4, <1>8
<1>9. RulesAlone'
  BY <1>6, <1>7, <1>8 DEF RulesAlone
<1> QED
  BY <1>1, <1>5, <1>9 DEF RulesInv

\* A handler that changed a table goes on to read them all.
LEMMA RulesChanged ==
  ASSUME IdsInv, RulesInv, NEW c \in Changers, NEW s, Changed(c, s)
  PROVE  RulesInv'
<1> DEFINE e == [Resting EXCEPT !.at = "off"]
<1>1. e \in Calls /\ e.at = "off"
  BY EmptyValues DEF Calls
<1>2. Starting(c, e) /\ engines' = engines
  BY DEF Changed
<1> HIDE DEF e
<1> QED
  BY <1>1, <1>2, RulesBegin

LEMMA RulesCheck ==
  ASSUME IdsInv, RulesInv, NEW c \in Changers, CheckCustomRule(c)
  PROVE  RulesInv'
<1>1. PICK r \in {0} \cup RowNos, i \in RuleIds, g \in BOOLEAN :
        Starting(c, [Resting EXCEPT !.at = "write", !.row = r,
                                    !.new = [id |-> i, global |-> g, on |-> TRUE]])
  BY DEF CheckCustomRule
<1> DEFINE e == [Resting EXCEPT !.at = "write", !.row = r,
                                !.new = [id |-> i, global |-> g, on |-> TRUE]]
<1>2. e \in Calls /\ e.at = "write"
  BY EmptyValues DEF Calls, RuleRows, Resting
<1>3. Starting(c, e) /\ engines' = engines /\ stored' = stored
  BY <1>1 DEF CheckCustomRule
<1> HIDE DEF e
<1> QED
  BY <1>2, <1>3, RulesBegin

LEMMA RulesWritten ==
  ASSUME IdsInv, RulesInv, NEW c \in Changers, InsertCustomRule(c) \/ UpdateCustomRule(c)
  PROVE  RulesInv'
<1> DEFINE n == [changers[c] EXCEPT !.at = "off", !.row = 0, !.new = NoRow]
<1>1. changers[c] \in Calls
  BY DEF IdsInv, RulesShape
<1>2. n \in Calls /\ n.at = "off"
  BY <1>1, EmptyValues DEF Calls
<1>3. n.alone = changers[c].alone
  BY <1>1 DEF Calls
<1>4. Saving(c) /\ \E rows : Wrote(c, rows)
  BY DEF InsertCustomRule, UpdateCustomRule
<1>5. changers' = [changers EXCEPT ![c] = n] /\ engines' = engines /\ behind' = behind
  BY <1>4 DEF Wrote
<1>6. BuiltEngines' /\ behind' \in BOOLEAN /\ UnderWay(c)
  BY <1>4, <1>5 DEF RulesInv, BuiltEngines, Saving, UnderWay
<1> HIDE DEF n
<1> QED
  BY <1>2, <1>3, <1>5, <1>6, RulesMove

LEMMA RulesRead ==
  ASSUME IdsInv, RulesInv, NEW c \in Changers,
         GetDisabledRules(c) \/ ListCustomRules(c) \/ ListServices(c)
  PROVE  RulesInv'
<1>1. /\ changers[c] \in Calls /\ stored \in Tables /\ changers[c].read \in Reads
  BY DEF IdsInv, RulesShape, Calls
<1>2. ASSUME NEW at \in {"off", "rows", "names"}, NEW next \in {"rows", "names", "install"},
             NEW r \in Reads, Read(c, at, next, r),
             changers[c].alone => /\ next \in {"rows", "names", "install"} => r.off = stored.off
                                  /\ next \in {"names", "install"} => r.rows = stored.rows
                                  /\ next = "install" => r.names = Named(stored)
      PROVE  RulesInv'
  <2> DEFINE n == [changers[c] EXCEPT !.at = next, !.read = r]
  <2>1. n \in Calls /\ n.at = next /\ n.read = r
    BY <1>1 DEF Calls
  <2>2. n.alone = changers[c].alone
    BY <1>1 DEF Calls
  <2>3. changers' = [changers EXCEPT ![c] = n]
    BY <1>1, <1>2 DEF Read, Calls
  <2>4. UNCHANGED <<stored, engines, behind>> /\ UnderWay(c)
    BY <1>2 DEF Read, UnderWay
  <2>5. BuiltEngines' /\ behind' \in BOOLEAN
    BY <2>4 DEF RulesInv, BuiltEngines
  <2> HIDE DEF n
  <2> QED
    BY <1>2, <2>1, <2>2, <2>3, <2>4, <2>5, RulesMove
<1>3. UnderWay(c) /\ changers[c].alone =>
        /\ changers[c].at \in {"rows", "names", "install"} => changers[c].read.off = stored.off
        /\ changers[c].at \in {"names", "install"} => changers[c].read.rows = stored.rows
  BY DEF RulesInv, RulesAlone
<1>4. CASE GetDisabledRules(c)
  <2> DEFINE r == [changers[c].read EXCEPT !.off = stored.off]
  <2>1. r \in Reads /\ r.off = stored.off
    BY <1>1 DEF Tables, Reads
  <2>2. Read(c, "off", "rows", r)
    BY <1>4 DEF GetDisabledRules
  <2> HIDE DEF r
  <2> QED
    BY <1>2, <2>1, <2>2
<1>5. CASE ListCustomRules(c)
  <2> DEFINE r == [changers[c].read EXCEPT !.rows = stored.rows]
  <2>1. r \in Reads /\ r.off = changers[c].read.off /\ r.rows = stored.rows
    BY <1>1 DEF Tables, Reads
  <2>2. Read(c, "rows", "names", r) /\ changers[c].at = "rows"
    BY <1>5 DEF ListCustomRules, Read
  <2>3. changers[c].alone => r.off = stored.off
    BY <1>3, <2>1, <2>2 DEF UnderWay
  <2> HIDE DEF r
  <2> QED
    BY <1>2, <2>1, <2>2, <2>3
<1>6. CASE ListServices(c)
  <2> DEFINE r == [changers[c].read EXCEPT !.names = Named(stored)]
  <2>1. /\ r \in Reads /\ r.off = changers[c].read.off /\ r.rows = changers[c].read.rows
    BY <1>1 DEF Tables, Reads, Named
  <2>2. Read(c, "names", "install", r) /\ changers[c].at = "names"
    BY <1>6 DEF ListServices, Read
  <2>3. changers[c].alone => r.off = stored.off /\ r.rows = stored.rows
    BY <1>3, <2>1, <2>2 DEF UnderWay
  <2>4. r.names = Named(stored)
    BY <1>1 DEF Reads
  <2> HIDE DEF r
  <2> QED
    BY <1>2, <2>1, <2>2, <2>3, <2>4
<1> QED
  BY <1>4, <1>5, <1>6

\* A save that could not write ends without a build: no table has changed.
LEMMA RulesEnd ==
  ASSUME IdsInv, RulesInv, NEW c \in Changers,
         SaveFails(c) \/ ReloadWAF(c) \/ BuildFails(c) \/ ReadFails(c)
  PROVE  RulesInv'
<1>1. /\ changers[c] \in Calls /\ stored \in Tables /\ changers[c].read \in Reads
      /\ Resting \in Calls /\ Resting.at = "idle" /\ behind \in BOOLEAN
  BY EmptyValues DEF IdsInv, RulesShape, Calls, Resting, RulesInv
<1>2. changers' = [changers EXCEPT ![c] = Resting] /\ UnderWay(c) /\ stored' = stored
  BY DEF SaveFails, ReloadWAF, BuildFails, ReadFails, Finished, UnderWay, Saving
<1>3. ASSUME BuiltEngines', behind' \in BOOLEAN,
             behind' \/ ((~ behind \/ changers[c].alone) /\ engines' = BuildWAFAll(stored))
      PROVE  RulesInv'
  BY <1>1, <1>2, <1>3, RulesMove
<1>4. ASSUME engines' = engines PROVE BuiltEngines'
  BY <1>4 DEF RulesInv, BuiltEngines
<1>5. CASE SaveFails(c)
  <2>1. engines' = engines /\ behind' = behind /\ Saving(c)
    BY <1>5 DEF SaveFails
  <2>2. ~ behind => engines = BuildWAFAll(stored)
    <3> SUFFICES ASSUME ~ behind PROVE engines = BuildWAFAll(stored)
      OBVIOUS
    <3>1. changers[c].alone
      BY <1>2 DEF RulesInv, RulesAlone
    <3>2. \A o \in Changers : UnderWay(o) => o = c
      BY <1>2, <3>1 DEF RulesInv, RulesAlone
    <3> QED
      BY <2>1, <3>2 DEF RulesInv, RulesAlone
  <2> QED
    BY <1>1, <1>3, <1>4, <2>1, <2>2
<1>6. CASE BuildFails(c) \/ ReadFails(c)
  <2>1. behind' /\ engines' = engines
    BY <1>6 DEF BuildFails, ReadFails, Finished
  <2> QED
    BY <1>3, <1>4, <2>1, <1>6 DEF BuildFails, ReadFails, Finished
<1>7. CASE ReloadWAF(c)
  <2>1. engines' = Built(c) /\ behind' = (behind /\ ~ changers[c].alone) /\ changers[c].at = "install"
    BY <1>7 DEF ReloadWAF, Finished
  <2>2. changers[c].alone => Built(c) = BuildWAFAll(stored)
    <3> SUFFICES ASSUME changers[c].alone PROVE Built(c) = BuildWAFAll(stored)
      OBVIOUS
    <3>1. /\ changers[c].read.off = stored.off /\ changers[c].read.rows = stored.rows
          /\ changers[c].read.names = Named(stored)
      BY <1>2, <2>1 DEF RulesInv, RulesAlone
    <3> QED
      BY <3>1 DEF Built, BuildWAFAll
  <2>3. ~ behind => changers[c].alone
    BY <1>2 DEF RulesInv, RulesAlone
  <2>4. BuiltEngines'
    <3>1. /\ changers[c].read.off \in SUBSET Crs /\ stored.svcOff \in SUBSET Crs
          /\ changers[c].read.rows \in [RowNos -> RuleRows] /\ changers[c].read.names \in BOOLEAN
      BY <1>1 DEF Reads, Tables
    <3> QED
      BY <2>1, <3>1, BuiltFrom DEF Built
  <2> QED
    BY <1>1, <1>3, <2>1, <2>2, <2>3, <2>4
<1> QED
  BY <1>5, <1>6, <1>7

LEMMA RulesRestart == IdsInv /\ RulesInv /\ StartWAF => RulesInv'
<1> SUFFICES ASSUME IdsInv, RulesInv, StartWAF PROVE RulesInv'
  OBVIOUS
<1>1. /\ changers' = [c \in Changers |-> Resting] /\ stored' = stored
      /\ engines' = BuildWAFAll(stored) /\ behind' = FALSE
  BY DEF StartWAF
<1>2. BuiltEngines'
  BY <1>1, BuiltFromTables DEF IdsInv, RulesShape
<1>3. \A c \in Changers : ~ UnderWay(c)'
  BY <1>1 DEF UnderWay, Resting
<1>4. RulesAlone'
  BY <1>1, <1>3 DEF RulesAlone, BuildWAFAll, Named
<1> QED
  BY <1>1, <1>2, <1>4 DEF RulesInv

LEMMA RulesNext == IdsInv /\ RulesInv /\ [NextWafRules]_wafVars => RulesInv'
<1> SUFFICES ASSUME IdsInv, RulesInv, [NextWafRules]_wafVars PROVE RulesInv'
  OBVIOUS
<1>1. CASE UNCHANGED wafVars
  BY <1>1 DEF wafVars, RulesInv, BuiltEngines, RulesAlone, UnderWay, Saving, BuildWAFAll, Named
<1>2. CASE StartWAF
  BY <1>2, RulesRestart
<1>3. ASSUME NEW c \in Changers,
             \/ \E r \in Crs : \/ DisableWAFRule(c, r) \/ EnableWAFRule(c, r)
                               \/ DisableForService(c, r) \/ EnableForService(c, r)
             \/ SetServiceSchema(c) \/ Sighup(c)
             \/ \E r \in RowNos : ToggleCustomRule(c, r) \/ DeleteCustomRule(c, r)
      PROVE  RulesInv'
  <2>1. \E s : Changed(c, s)
    BY <1>3 DEF DisableWAFRule, EnableWAFRule, DisableForService, EnableForService,
                SetServiceSchema, Sighup, ToggleCustomRule, DeleteCustomRule
  <2> QED
    BY <2>1, RulesChanged
<1>4. ASSUME NEW c \in Changers, CheckCustomRule(c) PROVE RulesInv'
  BY <1>4, RulesCheck
<1>5. ASSUME NEW c \in Changers, InsertCustomRule(c) \/ UpdateCustomRule(c) PROVE RulesInv'
  BY <1>5, RulesWritten
<1>6. ASSUME NEW c \in Changers, GetDisabledRules(c) \/ ListCustomRules(c) \/ ListServices(c)
      PROVE  RulesInv'
  BY <1>6, RulesRead
<1>7. ASSUME NEW c \in Changers, SaveFails(c) \/ ReloadWAF(c) \/ BuildFails(c) \/ ReadFails(c)
      PROVE  RulesInv'
  BY <1>7, RulesEnd
<1> QED
  BY <1>1, <1>2, <1>3, <1>4, <1>5, <1>6, <1>7 DEF NextWafRules

\* What the invariant says of the engines.
LEMMA RulesHold ==
  IdsInv /\ RulesInv => TypeOKWafRules /\ EnginesFollowTables /\ EnginesOfOneBuild
<1> SUFFICES ASSUME IdsInv, RulesInv PROVE TypeOKWafRules /\ EnginesFollowTables /\ EnginesOfOneBuild
  OBVIOUS
<1>1. PICK off \in SUBSET Crs, svcOff \in SUBSET Crs, rows \in [RowNos -> RuleRows], names \in BOOLEAN :
        engines = Pair(off, svcOff, rows, names)
  BY DEF RulesInv, BuiltEngines
<1>2. engines.def = DefaultEngine(off, rows)
  BY <1>1 DEF Pair
<1>3. engines.svc \in {ServiceEngine(off, svcOff, rows), NoEngine}
  BY <1>1 DEF Pair
<1>4. GlobalCustom(rows) \subseteq RowNos /\ ServiceCustom(rows) \subseteq RowNos
  BY DEF GlobalCustom, ServiceCustom
<1>5. TypeOKWafRules
  <2>1. engines.def.off \subseteq Crs /\ engines.def.rules \subseteq RowNos
    BY <1>2, <1>4 DEF DefaultEngine
  <2>2. engines.svc.off \subseteq Crs /\ engines.svc.rules \subseteq RowNos
    BY <1>3, <1>4 DEF ServiceEngine, NoEngine
  <2>3. \A c \in Changers : changers[c].at \in {"idle", "write", "off", "rows", "names", "install"}
    BY DEF IdsInv, RulesShape, Calls
  <2>4. stored.off \subseteq Crs /\ stored.svcOff \subseteq Crs
    BY DEF IdsInv, RulesShape, Tables
  <2> QED
    BY <2>1, <2>2, <2>3, <2>4 DEF TypeOKWafRules
<1>6. EnginesOfOneBuild
  BY <1>2, <1>3 DEF EnginesOfOneBuild, DefaultEngine, ServiceEngine
<1>7. EnginesFollowTables
  BY DEF RulesInv, RulesAlone, EnginesFollowTables
<1> QED
  BY <1>5, <1>6, <1>7

\* -- Challenge ---------------------------------------------------------------

Forms == [on : BOOLEAN, ttl : Nat]
BuiltOnes == [ttl : Nat, used : SUBSET Nonces]

PostShape == [at : {"idle", "sent", "checked"}, nonce : Nonces \cup {0}, gen : Nat]

GateShape ==
  /\ time \in Nat /\ boots \in Nat \ {0} /\ secret \in Nat \ {0} /\ key \in Nat \ {0}
  /\ meta \in Forms
  /\ challengers \in Seq(BuiltOnes) /\ active \in 0 .. Len(challengers)
  /\ issued \in [Nonces -> [exp : Nat, key : Nat]]
  /\ posts \in [Posts -> PostShape]
  /\ savers \in [Savers -> [at : {"idle", "ttl", "reload"}, form : Forms, alone : BOOLEAN]]

\* A post names a nonce and a Challenger that exist; once checked, the
\* nonce was signed, so that no other page is given it.
PostOk(p) ==
  posts[p].at # "idle" =>
    /\ posts[p].nonce \in Nonces /\ posts[p].gen \in 0 .. Len(challengers)
    /\ posts[p].at = "checked" => posts[p].gen # 0 /\ issued[posts[p].nonce].key # 0

\* A nonce redeemed in time is remembered by its Challenger until it expires.
Remembered(r) ==
  /\ r.nonce \in Nonces /\ r.gen \in 1 .. Len(challengers)
  /\ issued[r.nonce].key # 0
  /\ r.late \/ r.nonce \in challengers[r.gen].used \/ Expired(issued[r.nonce].exp)

GateInv ==
  /\ GateShape
  /\ \A p \in Posts : PostOk(p)
  /\ \A r \in redeemed : Remembered(r)
  /\ OncePerWindow

\* A build keeps the Challengers there were, and what is in force is one of them.
LEMMA BuildShape ==
  ASSUME NEW s \in Forms, NEW built \in Seq(BuiltOnes)
  PROVE  /\ Build(s, built) \in Seq(BuiltOnes)
         /\ Len(Build(s, built)) >= Len(built)
         /\ Points(s, built) \in 0 .. Len(Build(s, built))
         /\ \A g \in 1 .. Len(built) : Build(s, built)[g] = built[g]
<1>1. New(s.ttl) \in BuiltOnes
  BY DEF New, Forms, BuiltOnes
<1>2. /\ Append(built, New(s.ttl)) \in Seq(BuiltOnes)
      /\ Len(Append(built, New(s.ttl))) = Len(built) + 1
      /\ \A g \in 1 .. Len(built) : Append(built, New(s.ttl))[g] = built[g]
  BY <1>1
<1>3. Len(built) \in Nat
  OBVIOUS
<1> QED
  BY <1>2, <1>3 DEF Build, Points

LEMMA GateInit == InitChallenge => GateInv
<1> SUFFICES ASSUME InitChallenge PROVE GateInv
  OBVIOUS
<1>1. meta \in Forms
  BY ChallengeAssumption DEF InitChallenge, Forms
<1>2. challengers \in Seq(BuiltOnes) /\ active \in 0 .. Len(challengers)
  <2>1. << >> \in Seq(BuiltOnes)
    OBVIOUS
  <2> QED
    BY <1>1, <2>1, BuildShape DEF InitChallenge
<1>3. posts \in [Posts -> PostShape] /\ \A p \in Posts : posts[p].at = "idle"
  BY DEF InitChallenge, Idle, PostShape
<1>4. GateShape
  BY <1>1, <1>2, <1>3
  DEF InitChallenge, GateShape, GetOrCreateChallengeSecret, NoCookie, Away, Forms
<1> QED
  BY <1>3, <1>4 DEF InitChallenge, GateInv, PostOk, OncePerWindow

\* What was redeemed stays remembered when the Challengers stay, or one more
\* is built, and time does not go back.
LEMMA StaysRemembered ==
  ASSUME GateInv, redeemed' = redeemed, time' \in Nat, time' >= time,
         challengers' \in Seq(BuiltOnes), Len(challengers') >= Len(challengers),
         \A g \in 1 .. Len(challengers) :
           \A n \in challengers[g].used : n \in challengers'[g].used \/ Expired(issued[n].exp),
         \A n \in Nonces : issued[n].key # 0 => issued'[n] = issued[n]
  PROVE  /\ \A r \in redeemed' : Remembered(r)'
         /\ OncePerWindow'
<1>1. \A n \in Nonces : issued[n].exp \in Nat
  BY DEF GateInv, GateShape
<1>2. ASSUME NEW r \in redeemed PROVE Remembered(r)'
  <2>1. Remembered(r)
    BY <1>2 DEF GateInv
  <2>2. issued'[r.nonce] = issued[r.nonce]
    BY <2>1 DEF Remembered
  <2>3. Expired(issued[r.nonce].exp) => Expired(issued[r.nonce].exp)'
    BY <1>1, <2>1, <2>2 DEF Expired, Remembered, GateInv, GateShape
  <2>4. r.gen \in 1 .. Len(challengers')
    BY <2>1 DEF Remembered, GateInv, GateShape
  <2> QED
    BY <2>1, <2>2, <2>3, <2>4 DEF Remembered, Expired
<1> QED
  BY <1>2 DEF GateInv, OncePerWindow

\* Steps of the browser, a post's beginning and end, time and the first two
\* writes of a save: no Challenger changes.
LEMMA QuietSteps ==
  ASSUME GateInv, UNCHANGED <<challengers, redeemed>>, time' \in Nat, time' >= time,
         GateShape', \A p \in Posts : PostOk(p)',
         \A n \in Nonces : issued[n].key # 0 => issued'[n] = issued[n]
  PROVE  GateInv'
<1>1. \A g \in 1 .. Len(challengers) :
        \A n \in challengers[g].used : n \in challengers'[g].used
  OBVIOUS
<1> QED
  BY <1>1, StaysRemembered DEF GateInv, GateShape

\* A nonce that is drawn was not signed before.
LEMMA ChallengedKeeps == GateInv /\ Challenged => GateInv'
<1> SUFFICES ASSUME GateInv, Challenged PROVE GateInv'
  OBVIOUS
<1>1. PICK n \in Nonces : issued[n].key = 0
        /\ issued' = [issued EXCEPT ![n] = [exp |-> time + Lifetime, key |-> key]]
  BY DEF Challenged, ChallengeURL
<1>2. UNCHANGED <<time, meta, secret, boots, key, challengers, active, posts, savers, redeemed>>
  BY DEF Challenged
<1>3. GateShape'
  BY <1>1, <1>2, ChallengeAssumption DEF GateInv, GateShape
<1>4. \A m \in Nonces : issued[m].key # 0 => issued'[m] = issued[m]
  BY <1>1 DEF GateInv, GateShape
<1>5. \A p \in Posts : PostOk(p)'
  BY <1>1, <1>2, <1>4 DEF GateInv, GateShape, PostOk
<1> QED
  BY <1>2, <1>3, <1>4, <1>5, QuietSteps DEF GateInv, GateShape

LEMMA PostsKeep ==
  ASSUME GateInv, NEW p \in Posts, Post(p) \/ CheckFails(p) \/ CheckPasses(p)
  PROVE  GateInv'
<1> USE DEF GateInv, GateShape
<1>1. posts[p] \in PostShape
  OBVIOUS
<1>2. UNCHANGED <<time, meta, secret, boots, key, challengers, active, issued, savers, redeemed>>
  BY DEF Post, CheckFails, CheckPasses, Refuse
<1>3. ASSUME NEW e \in PostShape, posts' = [posts EXCEPT ![p] = e], PostOk(p)' PROVE GateInv'
  <2>1. GateShape'
    BY <1>2, <1>3
  <2>2. \A q \in Posts : PostOk(q)'
    BY <1>2, <1>3 DEF PostOk
  <2> HIDE DEF GateInv
  <2> QED
    BY <1>2, <2>1, <2>2, QuietSteps DEF GateInv, GateShape
<1>4. CASE Post(p)
  <2>1. PICK n \in Nonces : posts' = [posts EXCEPT ![p] = [at |-> "sent", nonce |-> n, gen |-> active]]
    BY <1>4 DEF Post
  <2>2. [at |-> "sent", nonce |-> n, gen |-> active] \in PostShape
    BY DEF PostShape
  <2>3. PostOk(p)'
    BY <1>2, <2>1 DEF PostOk
  <2> QED
    BY <1>3, <2>1, <2>2, <2>3
<1>5. CASE CheckFails(p)
  <2>1. Idle \in PostShape /\ posts' = [posts EXCEPT ![p] = Idle]
    BY <1>5 DEF CheckFails, Refuse, Idle, PostShape
  <2>2. PostOk(p)'
    BY <2>1 DEF PostOk, Idle
  <2> QED
    BY <1>3, <2>1, <2>2
<1>6. CASE CheckPasses(p)
  <2> DEFINE e == [posts[p] EXCEPT !.at = "checked"]
  <2>1. e \in PostShape /\ posts' = [posts EXCEPT ![p] = e]
    BY <1>1, <1>6 DEF CheckPasses, PostShape
  <2>2. /\ posts[p].at = "sent" /\ posts[p].gen # 0
        /\ posts[p].nonce \in Nonces /\ issued[posts[p].nonce].key # 0
    BY <1>6 DEF CheckPasses, PostOk, Valid, SignedHere
  <2>3. PostOk(p)'
    BY <1>1, <1>2, <2>1, <2>2 DEF PostOk, PostShape
  <2> QED
    BY <1>3, <2>1, <2>3
<1> QED
  BY <1>4, <1>5, <1>6

\* The sweep takes nothing that can still be posted.
LEMMA SweptExpired ==
  ASSUME NEW used \in SUBSET Nonces
  PROVE  Swept(used) \subseteq used /\ \A n \in used \ Swept(used) : Expired(issued[n].exp)
BY DEF Swept

\* Marking a nonce forgets only expired ones.
LEMMA MarkedShape ==
  ASSUME GateInv, NEW p \in Posts, posts[p].at = "checked", Marked(p)
  PROVE  /\ posts[p].nonce \in Nonces /\ posts[p].gen \in 1 .. Len(challengers)
         /\ issued[posts[p].nonce].key # 0
         /\ challengers' \in Seq(BuiltOnes) /\ Len(challengers') = Len(challengers)
         /\ posts[p].nonce \in challengers'[posts[p].gen].used
         /\ \A g \in 1 .. Len(challengers) :
              \A n \in challengers[g].used : n \in challengers'[g].used \/ Expired(issued[n].exp)
<1> DEFINE g == posts[p].gen
           used == challengers[g].used
<1>1. /\ posts[p].nonce \in Nonces /\ g \in 1 .. Len(challengers)
      /\ issued[posts[p].nonce].key # 0
  BY DEF GateInv, GateShape, PostOk, PostShape
<1>2. challengers[g] \in BuiltOnes
  BY <1>1 DEF GateInv, GateShape
<1>3. used \in SUBSET Nonces
  BY <1>2 DEF BuiltOnes
<1>4. Swept(used) \cup {posts[p].nonce} \in SUBSET Nonces
  BY <1>1, <1>3, SweptExpired
<1> DEFINE c == [challengers[g] EXCEPT !.used = Swept(used) \cup {posts[p].nonce}]
<1>5. c \in BuiltOnes /\ c.used = Swept(used) \cup {posts[p].nonce}
  BY <1>2, <1>4 DEF BuiltOnes
<1>6. challengers' = [challengers EXCEPT ![g] = c]
  BY <1>1 DEF Marked, GateInv, GateShape
<1> HIDE DEF c
<1>7. /\ challengers' \in Seq(BuiltOnes) /\ Len(challengers') = Len(challengers)
      /\ challengers'[g] = c
      /\ \A h \in 1 .. Len(challengers) : h # g => challengers'[h] = challengers[h]
  BY <1>1, <1>5, <1>6 DEF GateInv, GateShape
<1> QED
  BY <1>1, <1>3, <1>5, <1>7, SweptExpired

LEMMA DuplicateKeeps ==
  ASSUME GateInv, NEW p \in Posts, AlreadyUsed(p)
  PROVE  GateInv'
<1>1. UNCHANGED <<time, meta, secret, boots, key, active, issued, savers, redeemed>>
  BY DEF AlreadyUsed
<1>2. posts[p].at = "checked" /\ Marked(p) /\ posts' = [posts EXCEPT ![p] = Idle]
  BY DEF AlreadyUsed
<1>3. GateShape'
  BY <1>1, <1>2, MarkedShape DEF GateInv, GateShape, Idle, PostShape
<1>4. \A q \in Posts : PostOk(q)'
  BY <1>1, <1>2, MarkedShape DEF GateInv, GateShape, PostOk, Idle
<1>5. time' \in Nat /\ time' >= time /\ Len(challengers') >= Len(challengers)
  BY <1>1, <1>2, MarkedShape DEF GateInv, GateShape
<1> QED
  BY <1>1, <1>2, <1>3, <1>4, <1>5, MarkedShape, StaysRemembered DEF GateInv, GateShape

\* A nonce that is redeemed again was forgotten, hence expired, or its first
\* redemption came after the window.
LEMMA RedeemKeeps ==
  ASSUME GateInv, NEW p \in Posts, Redeem(p)
  PROVE  GateInv'
<1> DEFINE nonce == posts[p].nonce
           gen == posts[p].gen
<1>0. PICK new : new = [nonce |-> nonce, gen |-> gen,
                        late |-> Expired(issued[nonce].exp), no |-> Cardinality(redeemed)]
  OBVIOUS
<1>1. UNCHANGED <<time, meta, secret, boots, key, active, issued, savers>>
  BY DEF Redeem
<1>2. /\ posts[p].at = "checked" /\ Marked(p) /\ posts' = [posts EXCEPT ![p] = Idle]
      /\ redeemed' = redeemed \cup {new} /\ ~ IsDuplicate(p)
  BY <1>0 DEF Redeem
<1>3. GateShape'
  BY <1>1, <1>2, MarkedShape DEF GateInv, GateShape, Idle, PostShape
<1>4. \A q \in Posts : PostOk(q)'
  BY <1>1, <1>2, MarkedShape DEF GateInv, GateShape, PostOk, Idle
<1>5. ASSUME NEW r \in redeemed PROVE Remembered(r)'
  <2>1. Remembered(r)
    BY <1>5 DEF GateInv
  <2>2. r.nonce \in challengers[r.gen].used =>
          r.nonce \in challengers'[r.gen].used \/ Expired(issued[r.nonce].exp)
    BY <1>2, <2>1, MarkedShape DEF Remembered
  <2> QED
    BY <1>1, <1>2, <2>1, <2>2, MarkedShape DEF Remembered, Expired
<1>6. Remembered(new)'
  <2>1. new.nonce = nonce /\ new.gen = gen
    BY <1>0
  <2>2. /\ nonce \in Nonces /\ gen \in 1 .. Len(challengers') /\ issued'[nonce].key # 0
        /\ nonce \in challengers'[gen].used
    BY <1>1, <1>2, MarkedShape
  <2> QED
    BY <2>1, <2>2 DEF Remembered
<1>7. ASSUME NEW r \in redeemed, r.nonce = nonce, r.gen = gen
      PROVE  r.late \/ Expired(issued[nonce].exp)
  <2>1. Remembered(r)
    BY DEF GateInv
  <2>2. challengers[gen].used \in SUBSET Nonces
    <3>1. gen \in 1 .. Len(challengers)
      BY <1>2, MarkedShape
    <3>2. challengers[gen] \in BuiltOnes
      BY <3>1 DEF GateInv, GateShape
    <3> QED
      BY <3>2 DEF BuiltOnes
  <2>3. nonce \notin Swept(challengers[gen].used)
    BY <1>2 DEF IsDuplicate
  <2>4. nonce \in challengers[gen].used => Expired(issued[nonce].exp)
    BY <2>2, <2>3, SweptExpired
  <2> QED
    BY <1>7, <2>1, <2>4 DEF Remembered
<1>8. OncePerWindow'
  BY <1>0, <1>2, <1>7 DEF OncePerWindow, GateInv
<1>9. \A r \in redeemed' : Remembered(r)'
  BY <1>2, <1>5, <1>6
<1> QED
  BY <1>3, <1>4, <1>8, <1>9 DEF GateInv

LEMMA SavesKeep ==
  ASSUME GateInv, NEW a \in Savers,
         \/ WriteEnabled(a) \/ WriteTTL(a) \/ WriteFails(a) \/ ReloadBot(a)
  PROVE  GateInv'
<1> DEFINE Save == [at : {"idle", "ttl", "reload"}, form : Forms, alone : BOOLEAN]
<1>1. /\ UNCHANGED <<time, secret, boots, key, issued, posts, redeemed>>
      /\ savers[a] \in Save /\ time \in Nat
  BY DEF WriteEnabled, WriteTTL, WriteFails, ReloadBot, GateInv, GateShape
<1>2. Away \in Save
  BY DEF Away, Forms
<1>3. ASSUME UNCHANGED <<challengers, active>>, meta' \in Forms, savers' \in [Savers -> Save]
      PROVE  GateInv'
  <2>1. GateShape'
    BY <1>1, <1>3 DEF GateInv, GateShape
  <2>2. \A p \in Posts : PostOk(p)'
    BY <1>1, <1>3 DEF GateInv, PostOk
  <2> QED
    BY <1>1, <1>3, <2>1, <2>2, QuietSteps
<1>4. CASE WriteEnabled(a)
  <2>1. PICK f \in BotForms :
          /\ savers' = [b \in Savers |->
               IF b = a
               THEN [at |-> "ttl", form |-> f, alone |-> \A c \in Savers : ~ Busy(c)]
               ELSE [savers[b] EXCEPT !.alone = FALSE]]
          /\ meta' = [meta EXCEPT !.on = f.on]
    BY <1>4 DEF WriteEnabled
  <2>2. f \in Forms
    BY ChallengeAssumption DEF Forms
  <2>3. meta' \in Forms
    BY <2>1, <2>2 DEF GateInv, GateShape, Forms
  <2>4. \A b \in Savers : [savers[b] EXCEPT !.alone = FALSE] \in Save
    BY DEF GateInv, GateShape
  <2>5. [at |-> "ttl", form |-> f, alone |-> \A c \in Savers : ~ Busy(c)] \in Save
    BY <2>2
  <2>6. savers' \in [Savers -> Save]
    BY <2>1, <2>4, <2>5
  <2> QED
    BY <1>3, <1>4, <2>3, <2>6 DEF WriteEnabled
<1>5. CASE WriteTTL(a)
  <2>1. meta' \in Forms
    BY <1>1, <1>5 DEF WriteTTL, GateInv, GateShape, Forms
  <2>2. savers' \in [Savers -> Save]
    BY <1>1, <1>5 DEF WriteTTL, GateInv, GateShape
  <2> QED
    BY <1>3, <1>5, <2>1, <2>2 DEF WriteTTL
<1>6. CASE WriteFails(a)
  BY <1>2, <1>3, <1>6 DEF WriteFails, GateInv, GateShape
<1>7. CASE ReloadBot(a)
  <2>1. /\ challengers' = Build(savers[a].form, challengers)
        /\ active' = Points(savers[a].form, challengers)
        /\ savers[a].form \in Forms /\ UNCHANGED meta /\ savers' = [savers EXCEPT ![a] = Away]
    BY <1>1, <1>7 DEF ReloadBot
  <2>2. /\ challengers' \in Seq(BuiltOnes) /\ Len(challengers') >= Len(challengers)
        /\ active' \in 0 .. Len(challengers')
        /\ \A g \in 1 .. Len(challengers) : challengers'[g] = challengers[g]
    BY <2>1, BuildShape DEF GateInv, GateShape
  <2>3. GateShape'
    BY <1>1, <1>2, <2>1, <2>2 DEF GateInv, GateShape
  <2>4. \A p \in Posts : PostOk(p)'
    BY <1>1, <2>2 DEF GateInv, GateShape, PostOk
  <2>5. /\ \A r \in redeemed' : Remembered(r)'
        /\ OncePerWindow'
    BY <1>1, <2>2, StaysRemembered
  <2> QED
    BY <2>3, <2>4, <2>5 DEF GateInv
<1> QED
  BY <1>4, <1>5, <1>6, <1>7

LEMMA RestartKeeps == GateInv /\ Restart => GateInv'
<1> SUFFICES ASSUME GateInv, Restart PROVE GateInv'
  OBVIOUS
<1>1. /\ challengers' = Build(meta, challengers) /\ active' = Points(meta, challengers)
      /\ posts' = [p \in Posts |-> Idle] /\ savers' = [a \in Savers |-> Away]
      /\ UNCHANGED <<time, meta, issued, redeemed>>
  BY DEF Restart
<1>2. boots' \in Nat \ {0} /\ secret' \in Nat \ {0} /\ key' \in Nat \ {0}
  BY DEF Restart, GetOrCreateChallengeSecret, GateInv, GateShape
<1>3. /\ challengers' \in Seq(BuiltOnes) /\ Len(challengers') >= Len(challengers)
      /\ active' \in 0 .. Len(challengers')
      /\ \A g \in 1 .. Len(challengers) : challengers'[g] = challengers[g]
  BY <1>1, BuildShape DEF GateInv, GateShape
<1>4. GateShape'
  BY <1>1, <1>2, <1>3 DEF GateInv, GateShape, Idle, Away, PostShape, Forms
<1>5. \A p \in Posts : PostOk(p)'
  BY <1>1 DEF PostOk, Idle
<1>6. (\A r \in redeemed' : Remembered(r)') /\ OncePerWindow'
  BY <1>1, <1>3, StaysRemembered DEF GateInv, GateShape
<1> QED
  BY <1>4, <1>5, <1>6 DEF GateInv

LEMMA GateNext == GateInv /\ [NextChallenge]_gateVars => GateInv'
<1> SUFFICES ASSUME GateInv, [NextChallenge]_gateVars PROVE GateInv'
  OBVIOUS
<1>1. ASSUME UNCHANGED <<meta, secret, boots, key, challengers, active, issued,
                         posts, savers, redeemed>>, time' \in {time, time + 1}
      PROVE  GateInv'
  <2>1. GateShape' /\ time' >= time
    BY <1>1 DEF GateInv, GateShape
  <2>2. \A p \in Posts : PostOk(p)'
    BY <1>1 DEF GateInv, PostOk
  <2>3. time' \in Nat
    BY <2>1 DEF GateShape
  <2> QED
    BY <1>1, <2>1, <2>2, <2>3, QuietSteps
<1>2. CASE UNCHANGED gateVars
  BY <1>1, <1>2 DEF gateVars
<1>3. CASE ServePage \/ Tick
  BY <1>1, <1>3 DEF ServePage, Tick
<1>4. CASE Challenged \/ Restart
  BY <1>4, ChallengedKeeps, RestartKeeps
<1>5. ASSUME NEW p \in Posts, \/ Post(p) \/ CheckFails(p) \/ CheckPasses(p)
                              \/ AlreadyUsed(p) \/ Redeem(p)
      PROVE  GateInv'
  BY <1>5, PostsKeep, DuplicateKeeps, RedeemKeeps
<1>6. ASSUME NEW a \in Savers, \/ WriteEnabled(a) \/ WriteTTL(a)
                               \/ WriteFails(a) \/ ReloadBot(a)
      PROVE  GateInv'
  BY <1>6, SavesKeep
<1> QED
  BY <1>2, <1>3, <1>4, <1>5, <1>6 DEF NextChallenge

\* However many copies of a solution race and whatever the sweep removes, a
\* Challenger redeems a nonce a second time only if one of the two passed its
\* checks in time and was marked after the window.
THEOREM NonceOncePerWindow == SpecChallenge => []OncePerWindow
<1>1. GateInv => OncePerWindow
  BY DEF GateInv
<1> QED
  BY <1>1, GateInit, GateNext, PTL DEF SpecChallenge

\* One secret outlives every start, and the cookie was made with it.
KeyInv ==
  /\ secret # 0 /\ key = secret
  /\ browser = [at |-> browser.at, nonce |-> browser.nonce, cookie |-> browser.cookie]
  /\ browser.cookie # NoCookie => browser.cookie.key = key

LEMMA KeyInit == InitChallenge => KeyInv
BY DEF InitChallenge, KeyInv, GetOrCreateChallengeSecret

LEMMA KeyNext == KeyInv /\ [NextChallenge]_gateVars => KeyInv'
<1> SUFFICES ASSUME KeyInv, [NextChallenge]_gateVars PROVE KeyInv'
  OBVIOUS
<1>1. ASSUME UNCHANGED <<secret, key>>,
             NEW at, NEW nonce, NEW cookie, browser' = [at |-> at, nonce |-> nonce, cookie |-> cookie],
             cookie = browser.cookie \/ cookie.key = key
      PROVE  KeyInv'
  BY <1>1 DEF KeyInv
<1>2. ASSUME UNCHANGED <<secret, key, browser>> PROVE KeyInv'
  BY <1>2 DEF KeyInv
<1>3. CASE Challenged
  <2>1. PICK n \in Nonces : browser' = [browser EXCEPT !.at = "sent", !.nonce = n]
    BY <1>3 DEF Challenged
  <2>2. browser' = [at |-> "sent", nonce |-> n, cookie |-> browser.cookie]
    BY <2>1 DEF KeyInv
  <2> QED
    BY <1>1, <1>3, <2>2 DEF Challenged
<1>4. CASE ServePage
  <2>1. \E at, nonce : browser' = [at |-> at, nonce |-> nonce, cookie |-> browser.cookie]
    BY <1>4 DEF ServePage, KeyInv
  <2> QED
    BY <1>1, <1>4, <2>1 DEF ServePage
<1>5. ASSUME NEW p \in Posts, \/ Post(p) \/ CheckFails(p) \/ CheckPasses(p)
                              \/ AlreadyUsed(p) \/ Redeem(p)
      PROVE  KeyInv'
  <2>1. \E at, nonce : GoneFrom(posts[p].nonce) = [at |-> at, nonce |-> nonce, cookie |-> browser.cookie]
    BY DEF GoneFrom, KeyInv
  <2>2. CASE Post(p) \/ CheckPasses(p)
    BY <1>2, <2>2 DEF Post, CheckPasses
  <2>3. CASE CheckFails(p) \/ AlreadyUsed(p)
    BY <1>1, <2>1, <2>3 DEF CheckFails, AlreadyUsed, Refuse
  <2>4. CASE Redeem(p)
    <3>1. PICK cookie : cookie = [exp |-> time + challengers[posts[p].gen].ttl, key |-> key]
      OBVIOUS
    <3>2. \E at, nonce : browser' = [at |-> at, nonce |-> nonce, cookie |-> cookie]
      BY <2>1, <2>4, <3>1 DEF Redeem, IssueCookie
    <3> QED
      BY <1>1, <2>4, <3>1, <3>2 DEF Redeem
  <2> QED
    BY <1>5, <2>2, <2>3, <2>4
<1>6. ASSUME NEW a \in Savers, \/ WriteEnabled(a) \/ WriteTTL(a)
                               \/ WriteFails(a) \/ ReloadBot(a)
      PROVE  KeyInv'
  BY <1>2, <1>6 DEF WriteEnabled, WriteTTL, WriteFails, ReloadBot
<1>7. CASE Restart
  <2>1. UNCHANGED <<secret, key, browser>>
    BY <1>7 DEF Restart, GetOrCreateChallengeSecret, KeyInv
  <2> QED
    BY <1>2, <2>1
<1>8. CASE Tick \/ UNCHANGED gateVars
  BY <1>2, <1>8 DEF Tick, gateVars
<1> QED
  BY <1>3, <1>4, <1>5, <1>6, <1>7, <1>8 DEF NextChallenge

\* Who solved a challenge is not sent to another while the cookie lasts,
\* whatever settings are saved and however often the process starts.
THEOREM SolvedIsAdmitted == SpecChallenge => SolvedStaysAdmitted
<1> DEFINE Kept == Challenged => browser.cookie = NoCookie \/ time > browser.cookie.exp
<1>1. KeyInv /\ [NextChallenge]_gateVars => [Kept]_gateVars
  BY DEF Challenged, PassedChallenge, ParseCookie, Expired, SignedHere, KeyInv
<1> QED
  BY <1>1, KeyInit, KeyNext, PTL DEF SpecChallenge, SolvedStaysAdmitted

\* What is installed is what the rows say.
InstalledAsStored ==
  /\ (active # 0) = meta.on
  /\ active # 0 => challengers[active].ttl = meta.ttl

\* A save that began alone and met no other is alone, and has written what its
\* step says.  While nothing is apart every save is such a one.
SavesAlone ==
  /\ \A a \in Savers : Busy(a) /\ savers[a].alone =>
       /\ \A b \in Savers : Busy(b) => b = a
       /\ meta.on = savers[a].form.on
       /\ savers[a].at = "reload" => meta.ttl = savers[a].form.ttl
  /\ ~ apart =>
       /\ \A a \in Savers : Busy(a) => savers[a].alone
       /\ (\A a \in Savers : ~ Busy(a)) => InstalledAsStored

\* A nonce is known to a Challenger, to the browser and to a post only once it
\* was signed.
Signed(n) == n \in Nonces /\ issued[n].key # 0

NoncesSigned ==
  /\ \A g \in 1 .. Len(challengers) : \A n \in challengers[g].used : Signed(n)
  /\ browser.at \in {"idle", "sent", "page"}
  /\ browser.at # "idle" => Signed(browser.nonce)
  /\ \A p \in Posts : posts[p].at # "idle" => Signed(posts[p].nonce)

Bounds == time <= MaxTime /\ saves \in Nat /\ boots <= MaxBotChanges + 1

FormInv == apart \in BOOLEAN /\ SavesAlone
SignedInv == NoncesSigned /\ Bounds

LEMMA FormInit == InitChallenge => FormInv /\ SignedInv
<1> SUFFICES ASSUME InitChallenge PROVE FormInv /\ SignedInv
  OBVIOUS
<1>1. \A a \in Savers : ~ Busy(a)
  BY DEF InitChallenge, Busy, Away
<1>2. meta \in Forms
  BY ChallengeAssumption DEF InitChallenge, Forms
<1>3. meta.on => challengers = << New(meta.ttl) >> /\ active = 1
  BY DEF InitChallenge, Build, Points
<1>4. ~ meta.on => challengers = << >> /\ active = 0
  BY DEF InitChallenge, Build, Points
<1>5. InstalledAsStored
  BY <1>2, <1>3, <1>4 DEF InstalledAsStored, New, Forms
<1>6. \A g \in 1 .. Len(challengers) : challengers[g].used = {}
  BY <1>2, <1>3, <1>4 DEF New, Forms
<1>7. \A p \in Posts : posts[p].at = "idle"
  BY DEF InitChallenge, Idle
<1>8. NoncesSigned
  BY <1>6, <1>7 DEF NoncesSigned, InitChallenge
<1>9. Bounds
  BY ChallengeAssumption DEF Bounds, InitChallenge
<1> QED
  BY <1>1, <1>5, <1>8, <1>9 DEF FormInv, SignedInv, SavesAlone, InitChallenge

\* A step that is no save changes no Challenger's ttl and none of the rows.
LEMMA FormStays ==
  ASSUME GateInv, FormInv, UNCHANGED <<meta, active, savers, apart>>,
         \A g \in 1 .. Len(challengers) : challengers'[g].ttl = challengers[g].ttl
  PROVE  FormInv'
<1>1. active \in 0 .. Len(challengers)
  BY DEF GateInv, GateShape
<1>2. active # 0 => challengers'[active].ttl = challengers[active].ttl
  BY <1>1 DEF GateInv, GateShape
<1> QED
  BY <1>2 DEF FormInv, SavesAlone, InstalledAsStored, Busy

\* A mark leaves the ttl alone and adds a nonce that was signed.
LEMMA MarkedForm ==
  ASSUME GateInv, NoncesSigned, NEW p \in Posts, posts[p].at = "checked", Marked(p)
  PROVE  \A g \in 1 .. Len(challengers) :
           /\ challengers'[g].ttl = challengers[g].ttl
           /\ \A n \in challengers'[g].used : Signed(n)
<1> DEFINE g == posts[p].gen
           used == Swept(challengers[g].used) \cup {posts[p].nonce}
           c == [challengers[g] EXCEPT !.used = used]
<1>1. g \in 1 .. Len(challengers) /\ Signed(posts[p].nonce)
  BY MarkedShape DEF NoncesSigned
<1>2. challengers[g] \in BuiltOnes
  BY <1>1 DEF GateInv, GateShape
<1>3. c.ttl = challengers[g].ttl /\ c.used = used
  BY <1>2 DEF BuiltOnes
<1>4. challengers' = [challengers EXCEPT ![g] = c]
  BY <1>1 DEF Marked, GateInv, GateShape
<1>5. \A n \in used : Signed(n)
  <2>1. Swept(challengers[g].used) \subseteq challengers[g].used
    BY <1>2, SweptExpired DEF BuiltOnes
  <2> QED
    BY <1>1, <2>1 DEF NoncesSigned
<1> HIDE DEF c
<1>6. /\ challengers'[g] = c
      /\ \A h \in 1 .. Len(challengers) : h # g => challengers'[h] = challengers[h]
  BY <1>1, <1>4 DEF GateInv, GateShape
<1> QED
  BY <1>3, <1>5, <1>6 DEF NoncesSigned

\* What was signed stays signed.
LEMMA SignedStays ==
  ASSUME NoncesSigned,
         \A n \in Nonces : issued[n].key # 0 => issued'[n].key # 0,
         \A g \in 1 .. Len(challengers') : \A n \in challengers'[g].used : Signed(n),
         browser'.at \in {"idle", "sent", "page"},
         browser'.at # "idle" => browser'.nonce \in Nonces /\ issued'[browser'.nonce].key # 0,
         \A p \in Posts : posts'[p].at # "idle" => Signed(posts'[p].nonce)
  PROVE  NoncesSigned'
<1>1. \A n : Signed(n) => Signed(n)'
  BY DEF Signed
<1>2. \A g \in 1 .. Len(challengers') : \A n \in challengers'[g].used : Signed(n)'
  BY <1>1
<1> QED
  BY <1>1, <1>2 DEF NoncesSigned, Signed

\* The browser keeps its page or goes for another attempt.
LEMMA BrowserSigned ==
  ASSUME KeyInv, NoncesSigned, NEW n, NEW k
  PROVE  /\ GoneFrom(n).at \in {"idle", "sent", "page"}
         /\ GoneFrom(n).at # "idle" => Signed(GoneFrom(n).nonce)
         /\ [GoneFrom(n) EXCEPT !.cookie = k].at = GoneFrom(n).at
         /\ [GoneFrom(n) EXCEPT !.cookie = k].nonce = GoneFrom(n).nonce
<1>1. browser = [at |-> browser.at, nonce |-> browser.nonce, cookie |-> browser.cookie]
  BY DEF KeyInv
<1>2. CASE browser.at = "page" /\ browser.nonce = n
  <2>1. GoneFrom(n) = [at |-> "idle", nonce |-> 0, cookie |-> browser.cookie]
    BY <1>1, <1>2 DEF GoneFrom
  <2> QED
    BY <2>1
<1>3. CASE ~ (browser.at = "page" /\ browser.nonce = n)
  <2>1. GoneFrom(n) = [at |-> browser.at, nonce |-> browser.nonce, cookie |-> browser.cookie]
    BY <1>1, <1>3 DEF GoneFrom
  <2> QED
    BY <2>1 DEF NoncesSigned
<1> QED
  BY <1>2, <1>3

\* The challenge's own requests.
LEMMA RequestsForm ==
  ASSUME GateInv, KeyInv, FormInv, SignedInv,
         Challenged \/ ServePage \/ \E p \in Posts : Post(p) \/ CheckFails(p) \/ CheckPasses(p)
  PROVE  FormInv' /\ SignedInv'
<1>1. UNCHANGED <<time, meta, challengers, active, savers, apart, saves, boots>>
  BY DEF Challenged, ServePage, Post, CheckFails, CheckPasses, Refuse
<1>2. FormInv'
  BY <1>1, FormStays
<1>3. \A g \in 1 .. Len(challengers') : \A n \in challengers'[g].used : Signed(n)
  BY <1>1 DEF SignedInv, NoncesSigned
<1>4. posts \in [Posts -> PostShape]
  BY DEF GateInv, GateShape
<1>5. browser = [at |-> browser.at, nonce |-> browser.nonce, cookie |-> browser.cookie]
  BY DEF KeyInv
<1>6. NoncesSigned'
  <2>1. CASE Challenged
    <3>1. PICK n \in Nonces : ChallengeURL(n) /\ browser' = [browser EXCEPT !.at = "sent", !.nonce = n]
      BY <2>1 DEF Challenged
    <3>2. browser' = [at |-> "sent", nonce |-> n, cookie |-> browser.cookie]
      BY <1>5, <3>1
    <3>3. /\ issued'[n].key # 0
          /\ \A m \in Nonces : issued[m].key # 0 => issued'[m].key # 0
      BY <3>1 DEF ChallengeURL, GateInv, GateShape
    <3>4. \A p \in Posts : posts'[p].at # "idle" => Signed(posts'[p].nonce)
      BY <2>1 DEF Challenged, SignedInv, NoncesSigned
    <3>5. browser'.at = "sent" /\ browser'.nonce = n
      BY <3>2
    <3> QED
      BY <1>3, <3>3, <3>4, <3>5, SignedStays DEF SignedInv
  <2>2. CASE ServePage
    <3>1. /\ browser'.at \in {"idle", "sent", "page"}
          /\ browser'.at # "idle" => browser'.nonce = browser.nonce /\ browser.at # "idle"
      BY <1>5, <2>2 DEF ServePage
    <3>2. issued' = issued /\ posts' = posts
      BY <2>2 DEF ServePage
    <3>3. \A p \in Posts : posts'[p].at # "idle" => Signed(posts'[p].nonce)
      BY <3>2 DEF SignedInv, NoncesSigned
    <3>4. browser'.at # "idle" => browser'.nonce \in Nonces /\ issued'[browser'.nonce].key # 0
      BY <3>1, <3>2 DEF SignedInv, NoncesSigned, Signed
    <3> QED
      BY <1>3, <3>1, <3>2, <3>3, <3>4, SignedStays DEF SignedInv
  <2>3. ASSUME NEW p \in Posts, NEW e, posts' = [posts EXCEPT ![p] = e], issued' = issued,
               e.at # "idle" => Signed(e.nonce),
               browser' = browser \/ \E n : browser' = GoneFrom(n)
        PROVE  NoncesSigned'
    <3>1. \A q \in Posts : posts'[q] = IF q = p THEN e ELSE posts[q]
      BY <1>4, <2>3
    <3>2. \A q \in Posts : posts'[q].at # "idle" => Signed(posts'[q].nonce)
      BY <2>3, <3>1 DEF SignedInv, NoncesSigned
    <3>3. browser'.at \in {"idle", "sent", "page"} /\ (browser'.at # "idle" => Signed(browser'.nonce))
      BY <2>3, BrowserSigned DEF SignedInv, NoncesSigned
    <3>4. browser'.at # "idle" => browser'.nonce \in Nonces /\ issued'[browser'.nonce].key # 0
      BY <2>3, <3>3 DEF Signed
    <3> QED
      BY <1>3, <2>3, <3>2, <3>3, <3>4, SignedStays DEF SignedInv
  <2>4. ASSUME NEW p \in Posts, Post(p) PROVE NoncesSigned'
    <3>1. PICK n \in Nonces :
            /\ \/ browser.at = "page" /\ browser.nonce = n
               \/ \E r \in redeemed : r.nonce = n
               \/ \E o \in Posts : posts[o].at # "idle" /\ posts[o].nonce = n
            /\ posts' = [posts EXCEPT ![p] = [at |-> "sent", nonce |-> n, gen |-> active]]
      BY <2>4 DEF Post
    <3>2. Signed(n)
      BY <3>1 DEF SignedInv, NoncesSigned, GateInv, Remembered, Signed
    <3>3. issued' = issued /\ browser' = browser
      BY <2>4 DEF Post
    <3> QED
      BY <2>3, <3>1, <3>2, <3>3
  <2>5. ASSUME NEW p \in Posts, CheckFails(p) PROVE NoncesSigned'
    <3>1. /\ posts' = [posts EXCEPT ![p] = Idle] /\ issued' = issued
          /\ browser' = GoneFrom(posts[p].nonce) /\ Idle.at = "idle"
      BY <2>5 DEF CheckFails, Refuse, Idle
    <3> QED
      BY <2>3, <3>1
  <2>6. ASSUME NEW p \in Posts, CheckPasses(p) PROVE NoncesSigned'
    <3> DEFINE e == [posts[p] EXCEPT !.at = "checked"]
    <3>1. posts' = [posts EXCEPT ![p] = e] /\ issued' = issued /\ browser' = browser /\ posts[p].at = "sent"
      BY <2>6 DEF CheckPasses
    <3>2. e.nonce = posts[p].nonce
      BY <1>4 DEF PostShape
    <3>3. Signed(e.nonce)
      BY <3>1, <3>2 DEF SignedInv, NoncesSigned
    <3> HIDE DEF e
    <3> QED
      BY <2>3, <3>1, <3>3
  <2> QED
    BY <2>1, <2>2, <2>4, <2>5, <2>6
<1> QED
  BY <1>1, <1>2, <1>6 DEF SignedInv, Bounds

\* A checked post ends: its Challenger marks the nonce, and may give a cookie.
LEMMA MarksForm ==
  ASSUME GateInv, KeyInv, FormInv, SignedInv, NEW p \in Posts, AlreadyUsed(p) \/ Redeem(p)
  PROVE  FormInv' /\ SignedInv'
<1>1. /\ posts[p].at = "checked" /\ Marked(p) /\ posts' = [posts EXCEPT ![p] = Idle]
      /\ UNCHANGED <<time, meta, issued, active, savers, apart, saves, boots>>
  BY DEF AlreadyUsed, Redeem
<1>2. Len(challengers') = Len(challengers)
  BY <1>1, MarkedShape
<1>3. \A g \in 1 .. Len(challengers) :
        /\ challengers'[g].ttl = challengers[g].ttl
        /\ \A n \in challengers'[g].used : Signed(n)
  BY <1>1, MarkedForm DEF SignedInv
<1>4. FormInv'
  BY <1>1, <1>3, FormStays
<1>5. \A q \in Posts : posts'[q].at # "idle" => Signed(posts'[q].nonce)
  BY <1>1 DEF GateInv, GateShape, SignedInv, NoncesSigned, Idle
<1>6. \/ browser' = GoneFrom(posts[p].nonce)
      \/ \E k : browser' = [GoneFrom(posts[p].nonce) EXCEPT !.cookie = k]
  BY DEF AlreadyUsed, Redeem, IssueCookie
<1>7. browser'.at \in {"idle", "sent", "page"} /\ (browser'.at # "idle" => Signed(browser'.nonce))
  <2> DEFINE n == posts[p].nonce
  <2>1. \A k : /\ GoneFrom(n).at \in {"idle", "sent", "page"}
               /\ GoneFrom(n).at # "idle" => Signed(GoneFrom(n).nonce)
               /\ [GoneFrom(n) EXCEPT !.cookie = k].at = GoneFrom(n).at
               /\ [GoneFrom(n) EXCEPT !.cookie = k].nonce = GoneFrom(n).nonce
    BY BrowserSigned DEF SignedInv
  <2>2. CASE browser' = GoneFrom(n)
    BY <2>1, <2>2
  <2>3. CASE \E k : browser' = [GoneFrom(n) EXCEPT !.cookie = k]
    <3>1. PICK k : browser' = [GoneFrom(n) EXCEPT !.cookie = k]
      BY <2>3
    <3>2. browser'.at = GoneFrom(n).at /\ browser'.nonce = GoneFrom(n).nonce
      BY <2>1, <3>1, Zenon
    <3> QED
      BY <2>1, <3>2
  <2> QED
    BY <1>6, <2>2, <2>3
<1>8. NoncesSigned'
  BY <1>1, <1>2, <1>3, <1>5, <1>7, SignedStays DEF SignedInv, Signed
<1> QED
  BY <1>1, <1>4, <1>8 DEF SignedInv, Bounds

\* A Challenger built from settings does what they say and knows no nonce.
LEMMA BuiltForm ==
  ASSUME NEW s \in Forms, GateInv, NoncesSigned,
         challengers' = Build(s, challengers), active' = Points(s, challengers)
  PROVE  /\ (active' # 0) = s.on
         /\ active' # 0 => challengers'[active'].ttl = s.ttl
         /\ \A g \in 1 .. Len(challengers') : \A n \in challengers'[g].used : Signed(n)
<1>1. challengers \in Seq(BuiltOnes) /\ New(s.ttl) \in BuiltOnes
  BY DEF GateInv, GateShape, New, Forms, BuiltOnes
<1>2. Len(challengers) \in Nat
  BY <1>1
<1>3. CASE s.on
  <2>1. challengers' = Append(challengers, New(s.ttl)) /\ active' = Len(challengers) + 1
    BY <1>3 DEF Build, Points
  <2>2. /\ Len(challengers') = Len(challengers) + 1
        /\ challengers'[Len(challengers) + 1] = New(s.ttl)
        /\ \A g \in 1 .. Len(challengers) : challengers'[g] = challengers[g]
    BY <1>1, <2>1
  <2>3. New(s.ttl).ttl = s.ttl /\ New(s.ttl).used = {}
    BY DEF New
  <2>4. ASSUME NEW g \in 1 .. Len(challengers'), NEW n \in challengers'[g].used PROVE Signed(n)
    <3>1. CASE g = Len(challengers) + 1
      BY <2>2, <2>3, <2>4, <3>1
    <3>2. CASE g # Len(challengers) + 1
      BY <1>2, <2>2, <2>4, <3>2 DEF NoncesSigned
    <3> QED
      BY <3>1, <3>2
  <2>5. active' # 0 /\ s.on = TRUE
    BY <1>2, <1>3, <2>1 DEF Forms
  <2>6. (active' # 0) = s.on
    BY <2>5, Zenon
  <2>7. challengers'[active'].ttl = s.ttl
    BY <2>1, <2>2, <2>3
  <2> QED
    BY <2>4, <2>6, <2>7
<1>4. CASE ~ s.on
  <2>1. challengers' = challengers /\ active' = 0
    BY <1>4 DEF Build, Points
  <2> QED
    BY <1>4, <2>1 DEF NoncesSigned, Forms
<1> QED
  BY <1>3, <1>4

\* A save or a start changes no page and no post.
LEMMA SavesSigned ==
  ASSUME SignedInv, UNCHANGED <<issued, browser>>, time' = time, saves' \in Nat,
         boots' <= MaxBotChanges + 1,
         \A g \in 1 .. Len(challengers') : \A n \in challengers'[g].used : Signed(n),
         \A p \in Posts : posts'[p].at # "idle" => Signed(posts'[p].nonce)
  PROVE  SignedInv'
<1>1. NoncesSigned'
  BY SignedStays DEF SignedInv, NoncesSigned, Signed
<1> QED
  BY <1>1 DEF SignedInv, Bounds

LEMMA SavesForm ==
  ASSUME GateInv, FormInv, SignedInv, NEW a \in Savers,
         WriteEnabled(a) \/ WriteTTL(a) \/ WriteFails(a) \/ ReloadBot(a)
  PROVE  FormInv' /\ SignedInv'
<1> DEFINE Save == [at : {"idle", "ttl", "reload"}, form : Forms, alone : BOOLEAN]
<1>1. /\ savers \in [Savers -> Save] /\ meta \in Forms /\ apart \in BOOLEAN
      /\ UNCHANGED <<time, boots, issued, browser, posts>> /\ saves \in Nat
  BY DEF GateInv, GateShape, FormInv, SignedInv, Bounds, WriteEnabled, WriteTTL, WriteFails, ReloadBot
<1>2. \A p \in Posts : posts'[p].at # "idle" => Signed(posts'[p].nonce)
  BY <1>1 DEF SignedInv, NoncesSigned
<1>3. \A g \in 1 .. Len(challengers) : \A n \in challengers[g].used : Signed(n)
  BY DEF SignedInv, NoncesSigned
<1>4. boots' <= MaxBotChanges + 1
  BY <1>1 DEF SignedInv, Bounds
<1>5. CASE WriteEnabled(a)
  <2>1. PICK f \in BotForms :
          /\ savers' = [b \in Savers |->
               IF b = a
               THEN [at |-> "ttl", form |-> f, alone |-> \A c \in Savers : ~ Busy(c)]
               ELSE [savers[b] EXCEPT !.alone = FALSE]]
          /\ meta' = [meta EXCEPT !.on = f.on]
    BY <1>5 DEF WriteEnabled
  <2>2. /\ saves' = saves + 1 /\ apart' = (apart \/ \E c \in Savers : Busy(c))
        /\ UNCHANGED <<challengers, active>> /\ ~ Busy(a)
    BY <1>5 DEF WriteEnabled
  <2>3. SignedInv'
    BY <1>1, <1>2, <1>3, <1>4, <2>2, SavesSigned
  <2>4. meta'.on = f.on
    BY <1>1, <2>1 DEF Forms
  <2>5. /\ savers'[a].at = "ttl" /\ savers'[a].form = f
        /\ \A b \in Savers \ {a} : savers'[b].at = savers[b].at
    BY <1>1, <2>1
  <2>6. savers'[a].alone <=> \A c \in Savers : ~ Busy(c)
    <3>1. savers'[a] = [at |-> "ttl", form |-> f, alone |-> \A c \in Savers : ~ Busy(c)]
      BY <2>1
    <3>2. \A b : [at |-> "ttl", form |-> f, alone |-> b].alone = b
      OBVIOUS
    <3> QED
      BY <3>1, <3>2, Zenon
  <2>7. \A b \in Savers \ {a} : ~ savers'[b].alone
    BY <1>1, <2>1
  <2>8. ASSUME NEW b \in Savers, Busy(b)', savers'[b].alone
        PROVE  /\ b = a /\ \A c \in Savers : Busy(c)' => c = b
    <3>1. b = a /\ \A c \in Savers : ~ Busy(c)
      BY <2>6, <2>7, <2>8
    <3> QED
      BY <2>5, <3>1 DEF Busy
  <2>9. ASSUME ~ apart', NEW b \in Savers, Busy(b)' PROVE savers'[b].alone
    <3>1. \A c \in Savers : ~ Busy(c)
      BY <2>2, <2>9
    <3>2. b = a
      BY <2>5, <2>9, <3>1 DEF Busy
    <3> QED
      BY <2>6, <3>1, <3>2
  <2>10. Busy(a)'
    BY <2>5 DEF Busy
  <2>11. SavesAlone'
    BY <2>4, <2>5, <2>8, <2>9, <2>10 DEF SavesAlone
  <2> QED
    BY <1>1, <2>2, <2>3, <2>11 DEF FormInv
<1>6. CASE WriteTTL(a)
  <2> DEFINE e == [savers[a] EXCEPT !.at = "reload"]
  <2>1. /\ savers[a].at = "ttl" /\ meta' = [meta EXCEPT !.ttl = savers[a].form.ttl]
        /\ savers' = [savers EXCEPT ![a] = e]
        /\ UNCHANGED <<challengers, active, saves, apart>>
    BY <1>1, <1>6 DEF WriteTTL
  <2>2. SignedInv'
    BY <1>1, <1>2, <1>3, <1>4, <2>1, SavesSigned
  <2>3. meta'.on = meta.on /\ meta'.ttl = savers[a].form.ttl
    BY <1>1, <2>1 DEF Forms
  <2>4. e.at = "reload" /\ e.form = savers[a].form /\ e.alone = savers[a].alone
    BY <1>1
  <2> HIDE DEF e
  <2>5. savers'[a] = e /\ \A b \in Savers \ {a} : savers'[b] = savers[b]
    BY <1>1, <2>1
  <2>6. Busy(a) /\ \A b \in Savers : Busy(b)' = Busy(b) /\ savers'[b].alone = savers[b].alone
    BY <2>1, <2>4, <2>5 DEF Busy
  <2>7. ASSUME NEW b \in Savers, Busy(b)', savers'[b].alone
        PROVE  /\ \A c \in Savers : Busy(c)' => c = b
               /\ meta'.on = savers'[b].form.on
               /\ savers'[b].at = "reload" => meta'.ttl = savers'[b].form.ttl
    <3>1. Busy(b) /\ savers[b].alone
      BY <2>6, <2>7
    <3>2. /\ \A c \in Savers : Busy(c) => c = b
          /\ meta.on = savers[b].form.on
      BY <3>1 DEF FormInv, SavesAlone
    <3>3. b = a
      BY <2>6, <3>2
    <3> QED
      BY <2>3, <2>4, <2>5, <2>6, <3>2, <3>3
  <2>8. ~ apart' => \A b \in Savers : Busy(b)' => savers'[b].alone
    BY <2>1, <2>6 DEF FormInv, SavesAlone
  <2>9. SavesAlone'
    BY <2>6, <2>7, <2>8 DEF SavesAlone
  <2> QED
    BY <1>1, <2>1, <2>2, <2>9 DEF FormInv
<1>7. CASE WriteFails(a)
  <2>1. savers' = [savers EXCEPT ![a] = Away] /\ apart' /\ UNCHANGED <<challengers, active, saves, meta>>
    BY <1>7 DEF WriteFails
  <2>2. SignedInv'
    BY <1>1, <1>2, <1>3, <1>4, <2>1, SavesSigned
  <2>3. ~ Busy(a)' /\ \A b \in Savers \ {a} : savers'[b] = savers[b]
    BY <1>1, <2>1 DEF Busy, Away
  <2>4. \A b \in Savers : Busy(b)' => Busy(b) /\ savers'[b] = savers[b]
    BY <2>3 DEF Busy
  <2>5. SavesAlone'
    BY <2>1, <2>4 DEF SavesAlone, FormInv
  <2> QED
    BY <1>7, <2>2, <2>5 DEF FormInv, WriteFails
<1>8. CASE ReloadBot(a)
  <2> DEFINE f == savers[a].form
  <2>1. /\ challengers' = Build(f, challengers) /\ active' = Points(f, challengers)
        /\ savers[a].at = "reload" /\ savers' = [savers EXCEPT ![a] = Away]
        /\ apart' = (apart /\ ~ savers[a].alone) /\ UNCHANGED <<saves, meta>>
    BY <1>8 DEF ReloadBot
  <2>2. f \in Forms /\ NoncesSigned
    BY <1>1 DEF SignedInv
  <2>3. /\ (active' # 0) = f.on
        /\ active' # 0 => challengers'[active'].ttl = f.ttl
        /\ \A g \in 1 .. Len(challengers') : \A n \in challengers'[g].used : Signed(n)
    BY <2>1, <2>2, BuiltForm
  <2>4. SignedInv'
    BY <1>1, <1>2, <1>4, <2>1, <2>3, SavesSigned
  <2>5. ~ Busy(a)' /\ \A b \in Savers \ {a} : savers'[b] = savers[b]
    BY <1>1, <2>1 DEF Busy, Away
  <2>6. \A b \in Savers : Busy(b)' => Busy(b) /\ savers'[b] = savers[b]
    BY <2>5 DEF Busy
  <2>7. Busy(a)
    BY <2>1 DEF Busy
  <2>8. ASSUME ~ apart'
        PROVE  (\A b \in Savers : ~ Busy(b)') /\ InstalledAsStored'
    <3>1. savers[a].alone
      BY <2>1, <2>7, <2>8 DEF FormInv, SavesAlone
    <3>2. /\ \A b \in Savers : Busy(b) => b = a
          /\ meta.on = f.on /\ meta.ttl = f.ttl
      BY <2>1, <2>7, <3>1 DEF FormInv, SavesAlone
    <3>3. \A b \in Savers : ~ Busy(b)'
      BY <2>5, <2>6, <3>2
    <3> QED
      BY <2>1, <2>3, <3>2, <3>3 DEF InstalledAsStored
  <2>9. \A b \in Savers : Busy(b)' /\ savers'[b].alone =>
          /\ \A c \in Savers : Busy(c)' => c = b
          /\ meta'.on = savers'[b].form.on
          /\ savers'[b].at = "reload" => meta'.ttl = savers'[b].form.ttl
    BY <2>1, <2>6 DEF FormInv, SavesAlone
  <2>10. SavesAlone'
    BY <2>8, <2>9 DEF SavesAlone
  <2> QED
    BY <1>1, <2>1, <2>4, <2>10 DEF FormInv
<1> QED
  BY <1>5, <1>6, <1>7, <1>8

LEMMA RestartForm == GateInv /\ FormInv /\ SignedInv /\ Restart => FormInv' /\ SignedInv'
<1> SUFFICES ASSUME GateInv, FormInv, SignedInv, Restart PROVE FormInv' /\ SignedInv'
  OBVIOUS
<1>1. /\ challengers' = Build(meta, challengers) /\ active' = Points(meta, challengers)
      /\ posts' = [p \in Posts |-> Idle] /\ savers' = [a \in Savers |-> Away]
      /\ boots' = boots + 1 /\ saves + boots <= MaxBotChanges /\ apart' = FALSE
      /\ UNCHANGED <<time, meta, issued, browser, saves>>
  BY DEF Restart
<1>2. meta \in Forms /\ NoncesSigned /\ saves \in Nat /\ boots \in Nat
  BY DEF GateInv, GateShape, SignedInv, Bounds
<1>3. /\ (active' # 0) = meta.on
      /\ active' # 0 => challengers'[active'].ttl = meta.ttl
      /\ \A g \in 1 .. Len(challengers') : \A n \in challengers'[g].used : Signed(n)
  BY <1>1, <1>2, BuiltForm
<1>4. boots' <= MaxBotChanges + 1
  BY <1>1, <1>2, ChallengeAssumption
<1>5. \A p \in Posts : posts'[p].at = "idle"
  BY <1>1 DEF Idle
<1>6. SignedInv'
  BY <1>1, <1>2, <1>3, <1>4, <1>5, SavesSigned
<1>7. \A a \in Savers : ~ Busy(a)'
  BY <1>1 DEF Busy, Away
<1>8. InstalledAsStored'
  BY <1>1, <1>3 DEF InstalledAsStored
<1> QED
  BY <1>1, <1>6, <1>7, <1>8 DEF FormInv, SavesAlone

LEMMA FormNext ==
  GateInv /\ KeyInv /\ FormInv /\ SignedInv /\ [NextChallenge]_gateVars => FormInv' /\ SignedInv'
<1> SUFFICES ASSUME GateInv, KeyInv, FormInv, SignedInv, [NextChallenge]_gateVars
             PROVE  FormInv' /\ SignedInv'
  OBVIOUS
<1>1. CASE UNCHANGED gateVars \/ Tick
  <2>1. /\ UNCHANGED <<meta, boots, challengers, active, issued, browser, posts, savers, saves, apart>>
        /\ time' = time \/ (time < MaxTime /\ time' = time + 1)
    BY <1>1 DEF gateVars, Tick
  <2>4. time' <= MaxTime
    BY <2>1, ChallengeAssumption DEF GateInv, GateShape, SignedInv, Bounds
  <2>2. FormInv'
    BY <2>1, FormStays
  <2>3. SignedInv'
    BY <2>1, <2>4 DEF SignedInv, NoncesSigned, Signed, Bounds
  <2> QED
    BY <2>2, <2>3
<1>2. CASE Challenged \/ ServePage \/ \E p \in Posts : Post(p) \/ CheckFails(p) \/ CheckPasses(p)
  BY <1>2, RequestsForm
<1>3. ASSUME NEW p \in Posts, AlreadyUsed(p) \/ Redeem(p) PROVE FormInv' /\ SignedInv'
  BY <1>3, MarksForm
<1>4. ASSUME NEW a \in Savers, WriteEnabled(a) \/ WriteTTL(a) \/ WriteFails(a) \/ ReloadBot(a)
      PROVE  FormInv' /\ SignedInv'
  BY <1>4, SavesForm
<1>5. CASE Restart
  BY <1>5, RestartForm
<1> QED
  BY <1>1, <1>2, <1>3, <1>4, <1>5 DEF NextChallenge

LEMMA FormsHold == GateInv /\ FormInv /\ SignedInv => TypeOKChallenge /\ RunsWhatIsStored
<1> SUFFICES ASSUME GateInv, FormInv, SignedInv PROVE TypeOKChallenge /\ RunsWhatIsStored
  OBVIOUS
<1>1. time \in 0 .. MaxTime /\ boots \in 1 .. MaxBotChanges + 1
  BY ChallengeAssumption DEF GateInv, GateShape, SignedInv, Bounds
<1>2. TypeOKChallenge
  BY <1>1 DEF TypeOKChallenge, GateInv, GateShape, SignedInv, NoncesSigned, Signed
<1> QED
  BY <1>2 DEF RunsWhatIsStored, FormInv, SavesAlone, InstalledAsStored

\* -- VerdictCache ------------------------------------------------------------

Entries == [print : Prints, verdict : [engine : 1 .. MaxEngines, print : Prints, rest : Rest],
            exp : Nat]

Apart(cache) == \A i, j \in DOMAIN cache : i # j => cache[i].print # cache[j].print
From(new, old) == \A i \in DOMAIN new : \E j \in DOMAIN old : new[i] = old[j]

\* An element is taken out.
LEMMA TakenOut ==
  ASSUME NEW s \in Seq(Entries), NEW i \in DOMAIN s, Apart(s)
  PROVE  /\ RemoveAt(s, i) \in Seq(Entries) /\ Len(RemoveAt(s, i)) = Len(s) - 1
         /\ Apart(RemoveAt(s, i)) /\ From(RemoveAt(s, i), s)
         /\ \A j \in DOMAIN RemoveAt(s, i) : RemoveAt(s, i)[j].print # s[i].print
<1>1. /\ Len(s) \in Nat /\ DOMAIN s = 1 .. Len(s) /\ i \in 1 .. Len(s)
      /\ \A j \in 1 .. Len(s) : s[j] \in Entries
  BY LenProperties, ElementOfSeq
<1>2. PICK a : a = SubSeq(s, 1, i - 1)
  OBVIOUS
<1>3. PICK b : b = SubSeq(s, i + 1, Len(s))
  OBVIOUS
<1>4. /\ a \in Seq(Entries) /\ Len(a) = i - 1
      /\ \A j \in 1 .. i - 1 : a[j] = s[j]
  BY <1>1, <1>2, SubSeqProperties
<1>5. /\ b \in Seq(Entries) /\ Len(b) = Len(s) - i
      /\ \A j \in 1 .. Len(s) - i : b[j] = s[i + j]
  <2>1. /\ SubSeq(s, i + 1, Len(s)) \in Seq(Entries)
        /\ Len(SubSeq(s, i + 1, Len(s))) = IF i + 1 <= Len(s) THEN Len(s) - (i + 1) + 1 ELSE 0
        /\ \A j \in 1 .. Len(s) - (i + 1) + 1 : SubSeq(s, i + 1, Len(s))[j] = s[(i + 1) + j - 1]
    BY <1>1, SubSeqProperties
  <2> QED
    BY <1>1, <1>3, <2>1
<1>6. PICK t : t = RemoveAt(s, i)
  OBVIOUS
<1>7. t = a \o b
  BY <1>2, <1>3, <1>6 DEF RemoveAt
<1>8. /\ t \in Seq(Entries) /\ Len(t) = Len(a) + Len(b)
      /\ \A j \in 1 .. Len(a) + Len(b) : t[j] = IF j <= Len(a) THEN a[j] ELSE b[j - Len(a)]
  BY <1>4, <1>5, <1>7, ConcatProperties
<1>9. Len(t) = Len(s) - 1 /\ DOMAIN t = 1 .. Len(s) - 1
  BY <1>1, <1>4, <1>5, <1>8, LenProperties
<1>10. ASSUME NEW j \in DOMAIN t
       PROVE  t[j] = s[IF j < i THEN j ELSE j + 1]
  <2>1. j \in 1 .. Len(s) - 1 /\ t[j] = IF j <= i - 1 THEN a[j] ELSE b[j - (i - 1)]
    BY <1>1, <1>4, <1>5, <1>8, <1>9
  <2>2. CASE j < i
    BY <1>1, <1>4, <2>1, <2>2
  <2>3. CASE ~ (j < i)
    <3>1. PICK k : k = j - (i - 1)
      OBVIOUS
    <3>2. k \in 1 .. Len(s) - i /\ i + k = j + 1 /\ t[j] = b[k]
      BY <1>1, <2>1, <2>3, <3>1
    <3>3. b[k] = s[j + 1]
      BY <1>5, <3>2
    <3> QED
      BY <2>3, <3>2, <3>3
  <2> QED
    BY <2>2, <2>3
<1>11. PICK f : f = [j \in DOMAIN t |-> IF j < i THEN j ELSE j + 1]
  OBVIOUS
<1>12. \A j \in DOMAIN t : f[j] \in DOMAIN s /\ f[j] # i /\ t[j] = s[f[j]]
  BY <1>1, <1>9, <1>10, <1>11
<1>13. \A j, k \in DOMAIN t : j # k => f[j] # f[k]
  BY <1>1, <1>9, <1>11
<1>14. Apart(t) /\ From(t, s) /\ \A j \in DOMAIN t : t[j].print # s[i].print
  BY <1>1, <1>12, <1>13 DEF Apart, From
<1> QED
  BY <1>6, <1>8, <1>9, <1>14

\* An element is put in front.
LEMMA PutInFront ==
  ASSUME NEW s \in Seq(Entries), NEW x \in Entries, Apart(s),
         \A j \in DOMAIN s : s[j].print # x.print
  PROVE  /\ <<x>> \o s \in Seq(Entries) /\ Len(<<x>> \o s) = Len(s) + 1
         /\ Apart(<<x>> \o s)
         /\ \A i \in DOMAIN (<<x>> \o s) :
              (<<x>> \o s)[i] = x \/ \E j \in DOMAIN s : (<<x>> \o s)[i] = s[j]
<1>1. Len(s) \in Nat /\ DOMAIN s = 1 .. Len(s)
  BY LenProperties
<1>2. PICK o : o = <<x>>
  OBVIOUS
<1>3. o \in Seq(Entries) /\ Len(o) = 1 /\ o[1] = x
  BY <1>2
<1>4. PICK t : t = <<x>> \o s
  OBVIOUS
<1>5. /\ t \in Seq(Entries) /\ Len(t) = Len(s) + 1
      /\ \A j \in 1 .. Len(s) + 1 : t[j] = IF j <= 1 THEN o[j] ELSE s[j - 1]
  BY <1>1, <1>2, <1>3, <1>4, ConcatProperties
<1>6. DOMAIN t = 1 .. Len(s) + 1
  BY <1>5, LenProperties
<1>7. \A j \in 1 .. Len(s) + 1 : t[j] = IF j = 1 THEN x ELSE s[j - 1]
  BY <1>1, <1>3, <1>5
<1>8. ASSUME NEW k \in DOMAIN t
      PROVE  (k = 1 /\ t[k] = x) \/ (k - 1 \in DOMAIN s /\ t[k] = s[k - 1])
  BY <1>1, <1>6, <1>7
<1>9. \A k \in DOMAIN t : t[k] = x \/ \E j \in DOMAIN s : t[k] = s[j]
  BY <1>8
<1>10. ASSUME NEW j \in DOMAIN t, NEW k \in DOMAIN t, j # k PROVE t[j].print # t[k].print
  <2>1. j \in Int /\ k \in Int
    BY <1>1, <1>6
  <2>2. CASE j = 1 \/ k = 1
    BY <1>8, <1>10, <2>1, <2>2
  <2>3. CASE j # 1 /\ k # 1
    <3>1. /\ j - 1 \in DOMAIN s /\ t[j] = s[j - 1] /\ k - 1 \in DOMAIN s /\ t[k] = s[k - 1]
      BY <1>8, <2>3
    <3>2. j - 1 # k - 1
      BY <1>10, <2>1
    <3> QED
      BY <3>1, <3>2 DEF Apart
  <2> QED
    BY <2>2, <2>3
<1>11. Apart(t)
  BY <1>10 DEF Apart
<1> QED
  BY <1>4, <1>5, <1>9, <1>11

\* The last element is pushed out.
LEMMA PushedOut ==
  ASSUME NEW s \in Seq(Entries), Apart(s), Len(s) # 0
  PROVE  /\ Front(s) \in Seq(Entries) /\ Len(Front(s)) = Len(s) - 1
         /\ Apart(Front(s)) /\ From(Front(s), s)
<1>1. /\ Len(s) \in Nat /\ DOMAIN s = 1 .. Len(s)
      /\ \A j \in 1 .. Len(s) : s[j] \in Entries
  BY LenProperties, ElementOfSeq
<1>2. PICK t : t = Front(s)
  OBVIOUS
<1>3. /\ t \in Seq(Entries) /\ Len(t) = Len(s) - 1
      /\ \A j \in 1 .. Len(s) - 1 : t[j] = s[j]
  <2>1. /\ SubSeq(s, 1, Len(s) - 1) \in Seq(Entries)
        /\ Len(SubSeq(s, 1, Len(s) - 1)) = IF 1 <= Len(s) - 1 THEN Len(s) - 1 - 1 + 1 ELSE 0
        /\ \A j \in 1 .. Len(s) - 1 - 1 + 1 : SubSeq(s, 1, Len(s) - 1)[j] = s[1 + j - 1]
    BY <1>1, SubSeqProperties
  <2> QED
    BY <1>1, <1>2, <2>1 DEF Front
<1>4. DOMAIN t = 1 .. Len(s) - 1
  BY <1>3, LenProperties
<1> QED
  BY <1>1, <1>2, <1>3, <1>4 DEF Apart, From

Sized(cache) == cache \in Seq(Entries) /\ Apart(cache) /\ Len(cache) <= Capacity

\* get and put keep the capacity and one entry per fingerprint.
LEMMA GotSized ==
  ASSUME NEW s, Sized(s), NEW p
  PROVE  Sized(Got(s, p)) /\ From(Got(s, p), s)
<1> USE DEF Sized
<1>1. Len(s) \in Nat /\ DOMAIN s = 1 .. Len(s)
  BY LenProperties
<1>2. CASE ~ Holds(s, p)
  BY <1>2 DEF Got, From
<1>3. CASE Holds(s, p)
  <2>1. PICK i : i = Place(s, p)
    OBVIOUS
  <2>2. i \in DOMAIN s /\ s[i].print = p
    BY <1>3, <2>1 DEF Holds, Place
  <2>3. PICK t : t = RemoveAt(s, i)
    OBVIOUS
  <2>4. /\ t \in Seq(Entries) /\ Len(t) = Len(s) - 1 /\ Apart(t) /\ From(t, s)
        /\ \A j \in DOMAIN t : t[j].print # s[i].print
    BY <2>2, <2>3, TakenOut
  <2>5. s[i] \in Entries
    BY <1>1, <2>2, ElementOfSeq
  <2>6. PICK u : u = <<s[i]>> \o t
    OBVIOUS
  <2>7. /\ u \in Seq(Entries) /\ Len(u) = Len(t) + 1 /\ Apart(u)
        /\ \A k \in DOMAIN u : u[k] = s[i] \/ \E j \in DOMAIN t : u[k] = t[j]
    BY <2>4, <2>5, <2>6, PutInFront
  <2>8. From(u, s)
    BY <2>2, <2>4, <2>7 DEF From
  <2>9. Got(s, p) = t \/ Got(s, p) = u
    BY <1>3, <2>1, <2>3, <2>6 DEF Got
  <2>10. Capacity \in Nat
    BY VerdictsAssumption DEF VerdictsAssumption
  <2> QED
    BY <1>1, <2>4, <2>7, <2>8, <2>9, <2>10
<1> QED
  BY <1>2, <1>3

LEMMA PutSized ==
  ASSUME NEW s, Sized(s), NEW p \in Prints, NEW v, NEW x \in Entries,
         x = [print |-> p, verdict |-> v, exp |-> vtime + VerdictTTL]
  PROVE  /\ Sized(Put(s, p, v))
         /\ \A k \in DOMAIN Put(s, p, v) :
              Put(s, p, v)[k] = x \/ \E j \in DOMAIN s : Put(s, p, v)[k] = s[j]
<1> USE DEF Sized
<1>1. Len(s) \in Nat /\ DOMAIN s = 1 .. Len(s) /\ x.print = p
  BY LenProperties
<1>2. Capacity \in Nat \ {0}
  BY VerdictsAssumption DEF VerdictsAssumption
<1>3. ASSUME NEW t, t \in Seq(Entries), Apart(t), From(t, s), Len(t) + 1 <= Capacity,
             \A j \in DOMAIN t : t[j].print # p, Put(s, p, v) = <<x>> \o t
      PROVE  /\ Sized(Put(s, p, v))
             /\ \A k \in DOMAIN Put(s, p, v) :
                  Put(s, p, v)[k] = x \/ \E j \in DOMAIN s : Put(s, p, v)[k] = s[j]
  <2>1. PICK u : u = <<x>> \o t
    OBVIOUS
  <2>2. /\ u \in Seq(Entries) /\ Len(u) = Len(t) + 1 /\ Apart(u)
        /\ \A k \in DOMAIN u : u[k] = x \/ \E j \in DOMAIN t : u[k] = t[j]
    BY <1>1, <1>3, <2>1, PutInFront
  <2>3. \A k \in DOMAIN u : u[k] = x \/ \E j \in DOMAIN s : u[k] = s[j]
    BY <1>3, <2>2 DEF From
  <2> QED
    BY <1>3, <2>1, <2>2, <2>3
<1>4. CASE Holds(s, p)
  <2>1. PICK i : i = Place(s, p)
    OBVIOUS
  <2>2. i \in DOMAIN s /\ s[i].print = p
    BY <1>4, <2>1 DEF Holds, Place
  <2>3. PICK t : t = RemoveAt(s, i)
    OBVIOUS
  <2>4. /\ t \in Seq(Entries) /\ Len(t) = Len(s) - 1 /\ Apart(t) /\ From(t, s)
        /\ \A j \in DOMAIN t : t[j].print # s[i].print
    BY <2>2, <2>3, TakenOut
  <2>5. Put(s, p, v) = <<x>> \o t
    BY <1>4, <2>1, <2>3 DEF Put
  <2>6. Len(t) + 1 <= Capacity
    BY <1>1, <1>2, <2>4
  <2>7. \A j \in DOMAIN t : t[j].print # p
    BY <2>2, <2>4
  <2> QED
    BY <1>3, <2>4, <2>5, <2>6, <2>7
<1>5. CASE ~ Holds(s, p) /\ Len(s) + 1 > Capacity
  <2>1. PICK t : t = Front(s)
    OBVIOUS
  <2>2. t \in Seq(Entries) /\ Len(t) = Len(s) - 1 /\ Apart(t) /\ From(t, s)
    <3>1. Len(s) # 0
      BY <1>1, <1>2, <1>5
    <3> QED
      BY <2>1, <3>1, PushedOut
  <2>3. \A j \in DOMAIN t : t[j].print # p
    BY <1>5, <2>2 DEF Holds, From
  <2>4. Put(s, p, v) = <<x>> \o t
    BY <1>5, <2>1 DEF Put
  <2>5. Len(t) + 1 <= Capacity
    BY <1>1, <1>2, <2>2
  <2> QED
    BY <1>3, <2>2, <2>3, <2>4, <2>5
<1>6. CASE ~ Holds(s, p) /\ ~ (Len(s) + 1 > Capacity)
  <2>1. Put(s, p, v) = <<x>> \o s
    BY <1>6 DEF Put
  <2>2. \A j \in DOMAIN s : s[j].print # p
    BY <1>6 DEF Holds
  <2>3. From(s, s)
    BY DEF From
  <2>4. Len(s) + 1 <= Capacity
    BY <1>1, <1>2, <1>6
  <2> QED
    BY <1>3, <2>1, <2>2, <2>3, <2>4
<1> QED
  BY <1>4, <1>5, <1>6

VChecks == [at : {"lookup", "evaluate", "put"}, print : Prints, rest : Rest,
            engine : 1 .. MaxEngines, keyed : BOOLEAN, verdict : {0}]

\* Answer b is the evaluation an entry holds, and the entry ends a TTL after it.
Backs(b, x) ==
  /\ Own(b) /\ b.verdict = x.verdict /\ b.print = x.print
  /\ b.at <= vtime /\ x.exp <= b.at + VerdictTTL

\* Answer b is the evaluation that answer a repeats.
Gave(b, a) ==
  /\ Own(b) /\ b.verdict = a.verdict /\ b.print = a.print
  /\ b.at <= a.at /\ a.at - b.at <= VerdictTTL

VerdictShape ==
  /\ vtime \in Nat
  /\ newest \in 1 .. MaxEngines
  /\ checks \in [Checks -> VChecks \cup {Quiet}]
  /\ \A c \in Checks : checks[c].at \in {"lookup", "put"} => checks[c].keyed = TRUE
  /\ \A a \in answers : a.at \in Nat
  /\ DOMAIN entries = 1 .. MaxEngines

\* Every entry is a verdict of its engine that an answer gave, and goes with it.
CachesBacked ==
  \A e \in 1 .. MaxEngines :
    /\ Sized(entries[e])
    /\ \A i \in DOMAIN entries[e] :
         /\ entries[e][i].verdict.engine = e
         /\ \E b \in answers : Backs(b, entries[e][i])

VerdictInv == VerdictShape /\ CachesBacked /\ NoStaleVerdict /\ JudgedByItsEngine

LEMMA VerdictsInit == InitVerdicts => VerdictInv
<1> SUFFICES ASSUME InitVerdicts PROVE VerdictInv
  OBVIOUS
<1>1. MaxEngines \in Nat \ {0} /\ Capacity \in Nat
  BY VerdictsAssumption DEF VerdictsAssumption
<1>2. VerdictShape
  <2>1. ASSUME NEW c \in Checks PROVE checks[c] = Quiet /\ checks[c].at = "idle"
    BY DEF InitVerdicts, Quiet
  <2> QED
    BY <1>1, <2>1 DEF InitVerdicts, VerdictShape
<1>3. CachesBacked
  <2>1. ASSUME NEW e \in 1 .. MaxEngines PROVE entries[e] = <<>>
    BY DEF InitVerdicts
  <2>2. <<>> \in Seq(Entries) /\ Len(<<>>) = 0 /\ DOMAIN <<>> = {}
    OBVIOUS
  <2>3. Sized(<<>>)
    BY <1>1, <2>2 DEF Sized, Apart
  <2> QED
    BY <2>1, <2>2, <2>3 DEF CachesBacked
<1> QED
  BY <1>2, <1>3 DEF InitVerdicts, VerdictInv, NoStaleVerdict, JudgedByItsEngine

\* One more answer, of the engine of its request, that an evaluation gave.
LEMMA OneMoreAnswer ==
  ASSUME NEW a, answers' = answers \cup {a}, NoStaleVerdict, JudgedByItsEngine,
         a.verdict.engine = a.engine, ~ a.keyed => Own(a),
         NEW b \in answers', Gave(b, a)
  PROVE  NoStaleVerdict' /\ JudgedByItsEngine'
<1>1. ASSUME NEW o \in answers' PROVE \E g \in answers' : Gave(g, o)
  <2>1. CASE o \in answers
    BY <2>1 DEF NoStaleVerdict, Gave
  <2>2. CASE o = a
    BY <2>2
  <2> QED
    BY <1>1, <2>1, <2>2
<1>2. NoStaleVerdict'
  BY <1>1 DEF NoStaleVerdict, Gave, Own
<1>3. JudgedByItsEngine'
  BY DEF JudgedByItsEngine, Own
<1> QED
  BY <1>2, <1>3

\* A step that leaves the caches alone and takes no answer away keeps them backed.
LEMMA StillBacked ==
  ASSUME VerdictInv, UNCHANGED entries, answers \subseteq answers', vtime' \in Nat,
         vtime <= vtime'
  PROVE  CachesBacked'
<1>1. ASSUME NEW e \in 1 .. MaxEngines, NEW i \in DOMAIN entries[e],
             NEW b \in answers, Backs(b, entries[e][i])
      PROVE  Backs(b, entries[e][i])'
  BY <1>1 DEF Backs, Own, VerdictInv, VerdictShape
<1>2. ASSUME NEW e \in 1 .. MaxEngines PROVE Sized(entries[e])'
  BY DEF VerdictInv, CachesBacked, Sized
<1> QED
  BY <1>1, <1>2 DEF VerdictInv, CachesBacked

\* A request is in place.
LEMMA CheckKnown ==
  ASSUME VerdictInv, NEW c \in Checks, checks[c].at # "idle"
  PROVE  checks[c] \in VChecks
BY DEF VerdictInv, VerdictShape, Quiet

\* A request that ends, or goes on.
LEMMA CheckMoves ==
  ASSUME VerdictInv, NEW c \in Checks, NEW m \in VChecks \cup {Quiet},
         checks' = [checks EXCEPT ![c] = m],
         m.at \in {"lookup", "put"} => m.keyed = TRUE,
         UNCHANGED <<vtime, newest>>, DOMAIN entries' = 1 .. MaxEngines,
         \A a \in answers' : a.at \in Nat
  PROVE  VerdictShape'
<1>1. checks' \in [Checks -> VChecks \cup {Quiet}]
  BY DEF VerdictInv, VerdictShape
<1>2. ASSUME NEW o \in Checks, checks'[o].at \in {"lookup", "put"}
      PROVE  checks'[o].keyed = TRUE
  <2>1. CASE o = c
    <3>1. checks'[o] = m
      BY <2>1 DEF VerdictInv, VerdictShape
    <3> QED
      BY <1>2, <3>1
  <2>2. CASE o # c
    <3>1. checks'[o] = checks[o]
      BY <2>2 DEF VerdictInv, VerdictShape
    <3> QED
      BY <1>2, <3>1 DEF VerdictInv, VerdictShape
  <2> QED
    BY <2>1, <2>2
<1> QED
  BY <1>1, <1>2 DEF VerdictInv, VerdictShape

LEMMA BeginKept ==
  ASSUME VerdictInv, NEW c \in Checks, BeginCheck(c) PROVE VerdictInv'
<1>1. PICK p \in Prints, h \in Rest, keyed \in BOOLEAN :
        checks' = [checks EXCEPT ![c] =
          [at |-> IF keyed THEN "lookup" ELSE "evaluate", print |-> p, rest |-> h,
           engine |-> newest, keyed |-> keyed, verdict |-> 0]]
  BY DEF BeginCheck
<1>2. PICK m : m = [at |-> IF keyed THEN "lookup" ELSE "evaluate", print |-> p, rest |-> h,
                    engine |-> newest, keyed |-> keyed, verdict |-> 0]
  OBVIOUS
<1>3. newest \in 1 .. MaxEngines
  BY DEF VerdictInv, VerdictShape
<1>4. m \in VChecks
  BY <1>2, <1>3 DEF VChecks
<1>5. m.at \in {"lookup", "put"} => m.keyed = TRUE
  BY <1>2
<1>6. UNCHANGED <<vtime, newest, entries, answers>> /\ checks' = [checks EXCEPT ![c] = m]
  BY <1>1, <1>2 DEF BeginCheck
<1>7. VerdictShape'
  BY <1>4, <1>5, <1>6, CheckMoves DEF VerdictInv, VerdictShape
<1>8. CachesBacked'
  <2>1. vtime' \in Nat /\ vtime <= vtime'
    BY <1>6 DEF VerdictInv, VerdictShape
  <2> QED
    BY <1>6, <2>1, StillBacked
<1> QED
  BY <1>6, <1>7, <1>8 DEF VerdictInv, NoStaleVerdict, JudgedByItsEngine, Own

\* What get leaves in the cache of an engine was there.
LEMMA GotBacked ==
  ASSUME VerdictInv, NEW e \in 1 .. MaxEngines, NEW p,
         entries' = [entries EXCEPT ![e] = Got(@, p)],
         answers \subseteq answers', UNCHANGED vtime
  PROVE  CachesBacked' /\ DOMAIN entries' = 1 .. MaxEngines
<1>1. DOMAIN entries = 1 .. MaxEngines /\ vtime \in Nat
  BY DEF VerdictInv, VerdictShape
<1>2. PICK s : s = entries[e]
  OBVIOUS
<1>3. PICK t : t = Got(s, p)
  OBVIOUS
<1>4. Sized(s)
  BY <1>2 DEF VerdictInv, CachesBacked
<1>5. Sized(t) /\ From(t, s)
  BY <1>3, <1>4, GotSized
<1>6. entries' = [entries EXCEPT ![e] = t]
  BY <1>2, <1>3
<1>7. entries'[e] = t /\ \A o \in 1 .. MaxEngines : o # e => entries'[o] = entries[o]
  BY <1>1, <1>6
<1>8. ASSUME NEW o \in 1 .. MaxEngines PROVE Sized(entries'[o]) /\ From(entries'[o], entries[o])
  <2>1. CASE o = e
    BY <1>2, <1>5, <1>7, <2>1
  <2>2. CASE o # e
    <3>1. entries'[o] = entries[o]
      BY <1>7, <2>2
    <3>2. Sized(entries[o])
      BY DEF VerdictInv, CachesBacked
    <3>3. From(entries[o], entries[o])
      BY DEF From
    <3> QED
      BY <3>1, <3>2, <3>3
  <2> QED
    BY <2>1, <2>2
<1>9. ASSUME NEW o \in 1 .. MaxEngines, NEW i \in DOMAIN entries'[o]
      PROVE  /\ entries'[o][i].verdict.engine = o
             /\ \E b \in answers' : Backs(b, entries[o][i])'
  <2>1. PICK j \in DOMAIN entries[o] : entries'[o][i] = entries[o][j]
    BY <1>8 DEF From
  <2>2. entries[o][j].verdict.engine = o
    BY DEF VerdictInv, CachesBacked
  <2>3. PICK b \in answers : Backs(b, entries[o][j])
    BY DEF VerdictInv, CachesBacked
  <2> QED
    BY <2>1, <2>2, <2>3 DEF Backs, Own
<1> QED
  BY <1>1, <1>6, <1>8, <1>9 DEF CachesBacked, Sized

LEMMA LookUpKept ==
  ASSUME VerdictInv, NEW c \in Checks, LookUp(c) PROVE VerdictInv'
<1>1. PICK m : m = checks[c]
  OBVIOUS
<1>2. m \in VChecks /\ m.at = "lookup" /\ m.keyed = TRUE /\ m.engine \in 1 .. MaxEngines
  <2>1. m \in VChecks /\ m.at = "lookup"
    BY <1>1, CheckKnown DEF LookUp
  <2>2. m.keyed = TRUE
    BY <1>1, <2>1 DEF VerdictInv, VerdictShape
  <2> QED
    BY <2>1, <2>2 DEF VChecks
<1>3. PICK e \in 1 .. MaxEngines : e = m.engine
  BY <1>2
<1>4. PICK p : p = m.print
  OBVIOUS
<1>5. entries' = [entries EXCEPT ![e] = Got(@, p)] /\ UNCHANGED <<vtime, newest>>
  BY <1>1, <1>3, <1>4 DEF LookUp
<1>6. vtime \in Nat /\ \A a \in answers : a.at \in Nat
  BY DEF VerdictInv, VerdictShape
<1>7. CASE ~ Hit(Cached(c), p)
  <2>1. checks' = [checks EXCEPT ![c].at = "evaluate"] /\ UNCHANGED answers
    BY <1>1, <1>4, <1>7 DEF LookUp
  <2>2. PICK n : n = [m EXCEPT !.at = "evaluate"]
    OBVIOUS
  <2>3. n \in VChecks /\ n.at = "evaluate"
    BY <1>2, <2>2 DEF VChecks
  <2>4. checks' = [checks EXCEPT ![c] = n]
    BY <1>1, <2>1, <2>2
  <2>5. CachesBacked' /\ DOMAIN entries' = 1 .. MaxEngines
    BY <1>5, <2>1, GotBacked
  <2>6. VerdictShape'
    BY <1>5, <1>6, <2>1, <2>3, <2>4, <2>5, CheckMoves
  <2> QED
    BY <2>1, <2>5, <2>6 DEF VerdictInv, NoStaleVerdict, JudgedByItsEngine, Own
<1>8. CASE Hit(Cached(c), p)
  <2>1. PICK s : s = entries[e]
    OBVIOUS
  <2>2. PICK i : i = Place(s, p)
    OBVIOUS
  <2>3. Cached(c) = s
    BY <1>1, <1>3, <2>1 DEF Cached
  <2>4. i \in DOMAIN s /\ s[i].print = p /\ ~ (vtime > s[i].exp)
    BY <1>8, <2>2, <2>3 DEF Hit, Holds, Place, Over
  <2>5. PICK x : x = s[i]
    OBVIOUS
  <2>6. x.verdict.engine = e /\ \E g \in answers : Backs(g, x)
    BY <2>1, <2>4, <2>5 DEF VerdictInv, CachesBacked
  <2>7. PICK g \in answers : Backs(g, x)
    BY <2>6
  <2>8. PICK a : a = [engine |-> e, verdict |-> x.verdict, print |-> p, rest |-> m.rest,
                      keyed |-> m.keyed, at |-> vtime]
    OBVIOUS
  <2>9. answers' = answers \cup {a} /\ checks' = [checks EXCEPT ![c] = Quiet]
    BY <1>1, <1>3, <1>4, <1>8, <2>2, <2>3, <2>5, <2>8 DEF LookUp, Answer
  <2>10. CachesBacked' /\ DOMAIN entries' = 1 .. MaxEngines
    BY <1>5, <2>9, GotBacked
  <2>11. VerdictShape'
    <3>1. \A o \in answers' : o.at \in Nat
      BY <1>6, <2>8, <2>9
    <3>2. Quiet.at \notin {"lookup", "put"}
      BY DEF Quiet
    <3> QED
      BY <1>5, <2>9, <2>10, <3>1, <3>2, CheckMoves
  <2>12. Gave(g, a)
    <3>1. /\ x.exp \in Nat /\ g.at \in Nat /\ VerdictTTL \in Nat
      <4>1. x \in Entries
        <5>1. s \in Seq(Entries)
          BY <2>1 DEF VerdictInv, CachesBacked, Sized
        <5>2. DOMAIN s = 1 .. Len(s) /\ Len(s) \in Nat
          BY <5>1, LenProperties
        <5> QED
          BY <2>4, <2>5, <5>1, <5>2, ElementOfSeq
      <4> QED
        BY <1>6, <2>7, <4>1, VerdictsAssumption DEF Entries, VerdictsAssumption
    <3>2. vtime <= x.exp
      BY <1>6, <2>4, <2>5, <3>1
    <3>3. g.at <= vtime /\ vtime - g.at <= VerdictTTL
      BY <1>6, <2>7, <3>1, <3>2 DEF Backs
    <3>4. a.at = vtime /\ a.verdict = x.verdict /\ a.print = x.print
      BY <2>4, <2>5, <2>8
    <3> QED
      BY <2>7, <3>3, <3>4 DEF Gave, Backs
  <2>13. a.verdict.engine = a.engine /\ a.keyed
    BY <1>2, <2>6, <2>8
  <2>14. g \in answers'
    BY <2>9
  <2>15. NoStaleVerdict /\ JudgedByItsEngine
    BY DEF VerdictInv
  <2>16. NoStaleVerdict' /\ JudgedByItsEngine'
    BY <2>9, <2>12, <2>13, <2>14, <2>15, OneMoreAnswer
  <2> QED
    BY <2>10, <2>11, <2>16 DEF VerdictInv
<1> QED
  BY <1>7, <1>8

\* The answer of an evaluation that has just ended.
LEMMA EvaluatedAnswer ==
  ASSUME VerdictInv, NEW c \in Checks, checks[c] \in VChecks, Answer(c, Verdict(c)),
         UNCHANGED <<vtime, newest>>
  PROVE  /\ NoStaleVerdict' /\ JudgedByItsEngine'
         /\ DOMAIN entries' = 1 .. MaxEngines => VerdictShape'
         /\ \E b \in answers' : /\ b.verdict = Verdict(c) /\ Own(b)
                                /\ b.print = checks[c].print /\ b.at = vtime
<1>1. PICK m : m = checks[c]
  OBVIOUS
<1>2. PICK a : a = [engine |-> m.engine, verdict |-> Verdict(c), print |-> m.print,
                    rest |-> m.rest, keyed |-> m.keyed, at |-> vtime]
  OBVIOUS
<1>3. answers' = answers \cup {a} /\ checks' = [checks EXCEPT ![c] = Quiet]
  BY <1>1, <1>2 DEF Answer
<1>4. vtime \in Nat /\ VerdictTTL \in Nat /\ \A o \in answers : o.at \in Nat
  BY VerdictsAssumption DEF VerdictInv, VerdictShape, VerdictsAssumption
<1>5. Own(a) /\ a.verdict.engine = a.engine
  BY <1>1, <1>2 DEF Own, Verdict
<1>6. Gave(a, a) /\ a \in answers'
  BY <1>2, <1>3, <1>4, <1>5 DEF Gave
<1>7. NoStaleVerdict' /\ JudgedByItsEngine'
  BY <1>3, <1>5, <1>6, OneMoreAnswer DEF VerdictInv
<1>8. ASSUME DOMAIN entries' = 1 .. MaxEngines PROVE VerdictShape'
  <2>1. \A o \in answers' : o.at \in Nat
    BY <1>2, <1>3, <1>4
  <2>2. Quiet.at \notin {"lookup", "put"}
    BY DEF Quiet
  <2> QED
    BY <1>3, <1>8, <2>1, <2>2, CheckMoves
<1>9. a.verdict = Verdict(c) /\ a.print = checks[c].print /\ a.at = vtime
  BY <1>1, <1>2
<1> QED
  BY <1>5, <1>6, <1>7, <1>8, <1>9

LEMMA EvaluateKept ==
  ASSUME VerdictInv, NEW c \in Checks, Evaluate(c) PROVE VerdictInv'
<1>1. PICK m : m = checks[c]
  OBVIOUS
<1>2. m \in VChecks /\ UNCHANGED <<vtime, newest, entries>>
  BY <1>1, CheckKnown DEF Evaluate
<1>3. DOMAIN entries' = 1 .. MaxEngines /\ vtime' \in Nat /\ vtime <= vtime'
  BY <1>2 DEF VerdictInv, VerdictShape
<1>4. CASE m.keyed
  <2>1. checks' = [checks EXCEPT ![c].at = "put"] /\ UNCHANGED answers
    BY <1>1, <1>4 DEF Evaluate
  <2>2. PICK n : n = [m EXCEPT !.at = "put"]
    OBVIOUS
  <2>3. n \in VChecks
    BY <1>2, <2>2 DEF VChecks
  <2>4. n.keyed = TRUE
    BY <1>2, <1>4, <2>2 DEF VChecks
  <2>5. checks' = [checks EXCEPT ![c] = n]
    BY <1>1, <2>1, <2>2
  <2>6. \A a \in answers' : a.at \in Nat
    BY <2>1 DEF VerdictInv, VerdictShape
  <2>7. VerdictShape'
    BY <1>2, <1>3, <2>3, <2>4, <2>5, <2>6, CheckMoves
  <2>8. CachesBacked'
    BY <1>2, <1>3, <2>1, StillBacked
  <2> QED
    BY <2>1, <2>7, <2>8 DEF VerdictInv, NoStaleVerdict, JudgedByItsEngine, Own
<1>5. CASE ~ m.keyed
  <2>1. Answer(c, Verdict(c))
    BY <1>1, <1>5 DEF Evaluate
  <2>2. NoStaleVerdict' /\ JudgedByItsEngine' /\ VerdictShape'
    BY <1>1, <1>2, <1>3, <2>1, EvaluatedAnswer
  <2>3. CachesBacked'
    BY <1>2, <1>3, <2>1, StillBacked DEF Answer
  <2> QED
    BY <2>2, <2>3 DEF VerdictInv
<1> QED
  BY <1>4, <1>5

LEMMA FailKept ==
  ASSUME VerdictInv, NEW c \in Checks, EvaluateFails(c) PROVE VerdictInv'
<1>1. UNCHANGED <<vtime, newest, entries, answers>> /\ checks' = [checks EXCEPT ![c] = Quiet]
  BY DEF EvaluateFails
<1>2. Quiet.at \notin {"lookup", "put"}
  BY DEF Quiet
<1>3. DOMAIN entries' = 1 .. MaxEngines /\ vtime' \in Nat /\ vtime <= vtime'
  BY <1>1 DEF VerdictInv, VerdictShape
<1>4. \A a \in answers' : a.at \in Nat
  BY <1>1 DEF VerdictInv, VerdictShape
<1>5. VerdictShape'
  BY <1>1, <1>2, <1>3, <1>4, CheckMoves
<1>6. CachesBacked'
  BY <1>1, <1>3, StillBacked
<1> QED
  BY <1>1, <1>5, <1>6 DEF VerdictInv, NoStaleVerdict, JudgedByItsEngine, Own

LEMMA PutKept ==
  ASSUME VerdictInv, NEW c \in Checks, PutAndAnswer(c) PROVE VerdictInv'
<1>1. PICK m : m = checks[c]
  OBVIOUS
<1>2. m \in VChecks
  BY <1>1, CheckKnown DEF PutAndAnswer
<1>3. PICK e \in 1 .. MaxEngines : e = m.engine
  BY <1>2 DEF VChecks
<1>4. PICK v : v = [engine |-> e, print |-> m.print, rest |-> m.rest]
  OBVIOUS
<1>5. v = Verdict(c)
  BY <1>1, <1>3, <1>4 DEF Verdict
<1>6. PICK s : s = entries[e]
  OBVIOUS
<1>7. PICK t : t = Put(s, m.print, v)
  OBVIOUS
<1>8. /\ entries' = [entries EXCEPT ![e] = t] /\ Answer(c, Verdict(c))
      /\ UNCHANGED <<vtime, newest>>
  BY <1>1, <1>3, <1>5, <1>6, <1>7 DEF PutAndAnswer
<1>9. DOMAIN entries = 1 .. MaxEngines /\ vtime \in Nat /\ VerdictTTL \in Nat
  BY VerdictsAssumption DEF VerdictInv, VerdictShape, VerdictsAssumption
<1>10. DOMAIN entries' = 1 .. MaxEngines
  BY <1>8, <1>9
<1>11. NoStaleVerdict' /\ JudgedByItsEngine' /\ VerdictShape'
  BY <1>1, <1>2, <1>8, <1>10, EvaluatedAnswer
<1>12. PICK b \in answers' : b.verdict = v /\ Own(b) /\ b.print = m.print /\ b.at = vtime
  BY <1>1, <1>2, <1>5, <1>8, EvaluatedAnswer
<1>13. PICK x : x = [print |-> m.print, verdict |-> v, exp |-> vtime + VerdictTTL]
  OBVIOUS
<1>14. x \in Entries /\ m.print \in Prints
  BY <1>2, <1>4, <1>9, <1>13 DEF VChecks, Entries
<1>15. Backs(b, x)
  BY <1>9, <1>12, <1>13 DEF Backs
<1>16. Sized(s)
  BY <1>6 DEF VerdictInv, CachesBacked
<1>17. Sized(t) /\ \A k \in DOMAIN t : t[k] = x \/ \E j \in DOMAIN s : t[k] = s[j]
  BY <1>7, <1>13, <1>14, <1>16, PutSized
<1>18. answers \subseteq answers'
  BY <1>8 DEF Answer
<1>19. ASSUME NEW o \in 1 .. MaxEngines PROVE Sized(entries'[o])
  BY <1>8, <1>9, <1>17 DEF VerdictInv, CachesBacked
<1>20. ASSUME NEW o \in 1 .. MaxEngines, NEW i \in DOMAIN entries'[o]
       PROVE  /\ entries'[o][i].verdict.engine = o
              /\ \E g \in answers' : Backs(g, entries'[o][i])
  <2>1. CASE entries'[o][i] = x /\ o = e
    BY <1>4, <1>12, <1>13, <1>15, <2>1
  <2>2. ASSUME NEW j \in DOMAIN entries[o], entries'[o][i] = entries[o][j]
        PROVE  /\ entries'[o][i].verdict.engine = o
               /\ \E g \in answers' : Backs(g, entries'[o][i])
    BY <1>18, <2>2 DEF VerdictInv, CachesBacked
  <2>3. CASE o # e
    <3>1. entries'[o] = entries[o]
      BY <1>8, <1>9, <2>3
    <3> QED
      BY <2>2, <3>1
  <2>4. CASE o = e
    <3>1. entries'[o] = t /\ entries[o] = s
      BY <1>6, <1>8, <1>9, <2>4
    <3> QED
      BY <1>17, <2>1, <2>2, <2>4, <3>1
  <2> QED
    BY <2>3, <2>4
<1>21. CachesBacked'
  <2>1. ASSUME NEW o \in 1 .. MaxEngines, NEW i \in DOMAIN entries'[o], NEW g \in answers',
               Backs(g, entries'[o][i])
        PROVE  Backs(g, entries[o][i])'
    BY <1>8, <2>1 DEF Backs, Own
  <2> QED
    BY <1>19, <1>20, <2>1 DEF CachesBacked, Sized
<1> QED
  BY <1>11, <1>21 DEF VerdictInv

LEMMA VerdictsNext == VerdictInv /\ [NextVerdicts]_verdictVars => VerdictInv'
<1> SUFFICES ASSUME VerdictInv, [NextVerdicts]_verdictVars PROVE VerdictInv'
  OBVIOUS
<1>1. CASE ReplaceEngine \/ VTick
  <2>1. /\ UNCHANGED <<entries, checks, answers>> /\ vtime' \in Nat /\ vtime <= vtime'
        /\ newest' \in 1 .. MaxEngines
    <3>1. MaxEngines \in Nat
      BY VerdictsAssumption DEF VerdictsAssumption
    <3> QED
      BY <1>1, <3>1 DEF ReplaceEngine, VTick, VerdictInv, VerdictShape
  <2>2. VerdictShape'
    BY <2>1 DEF VerdictInv, VerdictShape
  <2>3. CachesBacked'
    BY <2>1, StillBacked
  <2> QED
    BY <2>1, <2>2, <2>3 DEF VerdictInv, NoStaleVerdict, JudgedByItsEngine, Own
<1>2. CASE UNCHANGED verdictVars
  BY <1>2 DEF verdictVars, VerdictInv, VerdictShape, CachesBacked, Sized, Backs, NoStaleVerdict,
              JudgedByItsEngine, Own
<1>3. CASE \E c \in Checks : \/ BeginCheck(c) \/ LookUp(c) \/ Evaluate(c)
                             \/ EvaluateFails(c) \/ PutAndAnswer(c)
  BY <1>3, BeginKept, LookUpKept, EvaluateKept, FailKept, PutKept
<1> QED
  BY <1>1, <1>2, <1>3 DEF NextVerdicts

\* Whatever requests overlap and whatever engines are swapped in, and whatever
\* the caches pushed out: an answer is a verdict that an evaluation gave a
\* request with this fingerprint at most verdictCacheTTL ago, by the engine
\* that was installed when the request came.
THEOREM Verdicts == SpecVerdicts => []VerdictsAreSound
<1>1. ASSUME VerdictInv PROVE VerdictsAreSound
  <2>1. ASSUME NEW e \in 1 .. MaxEngines
        PROVE  /\ Len(entries[e]) <= Capacity
               /\ \A i, j \in DOMAIN entries[e] :
                    i # j => entries[e][i].print # entries[e][j].print
               /\ \A i \in DOMAIN entries[e] : entries[e][i].verdict.engine = e
    BY <1>1 DEF VerdictInv, CachesBacked, Sized, Apart
  <2>2. TypeOKVerdicts
    BY <1>1, <2>1 DEF VerdictInv, VerdictShape, TypeOKVerdicts
  <2> QED
    BY <1>1, <2>2 DEF VerdictInv, VerdictsAreSound
<1> QED
  BY <1>1, VerdictsInit, VerdictsNext, PTL DEF SpecVerdicts

\* -- Hosts -------------------------------------------------------------------

SvcRows == [here : BOOLEAN, host : Hostnames \cup {NoName}, aliases : SUBSET Hostnames,
         canonical : Hostnames \cup {NoName}]

Edits == [at : {"idle", "add", "names", "update", "insert", "host", "aliases", "rest",
                "list", "install"},
          api : BOOLEAN, id : 0 .. MaxServices, row : SvcRows, read : [Ids -> SvcRows],
          alone : BOOLEAN]

HostShape ==
  /\ svcRows \in [Ids -> SvcRows] /\ svcList \in [Ids -> SvcRows]
  /\ lastId \in 0 .. MaxServices
  /\ owners = Owners(svcList)
  /\ editors \in [Editors -> Edits]
  /\ blind \in BOOLEAN /\ revived \in BOOLEAN /\ mixed \in BOOLEAN /\ hostsBehind \in BOOLEAN

\* A new service has no key yet, another one has; what will be written is one.
Keyed(n) ==
  /\ n.at \in {"add", "insert"} => n.id = 0 /\ n.row.here
  /\ n.at \in {"names", "update", "host", "aliases", "rest"} => n.id # 0 /\ n.row.here

\* No key is given twice: a handler's service has one, and rows come in order.
KeysOnce ==
  /\ \A e \in Editors : editors[e].id <= lastId /\ Keyed(editors[e])
  /\ \A i \in Ids : i > lastId \/ ~ svcRows[i].here => svcRows[i] = Gone

\* Nothing is written yet that the registry does not show.
Unwritten == {"idle", "add", "names", "update", "insert", "host"}
Clean(e) == editors[e].at \in Unwritten

\* A handler that came alone and met no other is still alone; while the registry
\* is not behind every handler is such a one, and what it installs is the table.
AloneInForce ==
  /\ \A e \in Editors : Editing(e) /\ editors[e].alone =>
       /\ \A o \in Editors : Editing(o) => o = e
       /\ editors[e].at = "install" => editors[e].read = svcRows
  /\ ~ hostsBehind =>
       /\ \A e \in Editors : Editing(e) => editors[e].alone
       /\ (\A e \in Editors : Clean(e)) => svcList = svcRows

Pending(e) == editors[e].at \in Validated

\* What a handler has validated and not written stays free of the others' names.
NamesApart ==
  ~ blind /\ ~ revived =>
    /\ \A i, j \in Ids : i # j => HostsOf(svcRows[i]) \cap HostsOf(svcRows[j]) = {}
    /\ \A e, o \in Editors : Pending(e) /\ Pending(o) => e = o
    /\ \A e \in Editors : Pending(e) =>
         /\ editors[e].row.host = NoName => editors[e].row.aliases = {}
         /\ \A j \in Ids : j # editors[e].id =>
              HostsOf(editors[e].row) \cap HostsOf(svcRows[j]) = {}

Target(s) == s.canonical \in HostsOf(s) \cup {NoName}
Halfway(i) == \E e \in Editors : editors[e].id = i /\ editors[e].at = "aliases"

\* Without torn or overlapping changes of one service: its target of redirects
\* is one of its names, but between the two writes of a change.
TargetsKept ==
  ~ mixed =>
    /\ \A e, o \in Editors : editors[e].id = editors[o].id /\ editors[e].id # 0 => e = o
    /\ \A i \in Ids : Target(svcRows[i]) \/ Halfway(i)
    /\ \A e \in Editors : Pending(e) => Target(editors[e].row)
    /\ \A e \in Editors : \A i \in Ids :
         i = editors[e].id /\ editors[e].at \in {"names", "aliases"} /\ svcRows[i].here =>
           svcRows[i].host = editors[e].row.host

HostInv == HostShape /\ KeysOnce /\ AloneInForce /\ NamesApart /\ TargetsKept

LEMMA Empties == Gone \in SvcRows /\ NoServices \in [Ids -> SvcRows] /\ NoEdit \in Edits
BY HostsAssumption DEF Gone, NoServices, NoEdit, SvcRows, Edits, HostsAssumption

\* A handler goes on, or ends.
LEMMA ShapeMoves ==
  ASSUME HostInv, NEW e \in Editors, NEW n \in Edits, editors' = [editors EXCEPT ![e] = n],
         svcRows' \in [Ids -> SvcRows], svcList' \in [Ids -> SvcRows], lastId' \in 0 .. MaxServices,
         owners' = Owners(svcList'),
         blind' \in BOOLEAN, revived' \in BOOLEAN, mixed' \in BOOLEAN, hostsBehind' \in BOOLEAN
  PROVE  /\ HostShape'
         /\ editors'[e] = n /\ \A o \in Editors : o # e => editors'[o] = editors[o]
<1>1. editors' \in [Editors -> Edits]
  BY DEF HostInv, HostShape
<1>2. owners' = Owners(svcList)'
  BY DEF Owners, Claims
<1>3. editors'[e] = n /\ \A o \in Editors : o # e => editors'[o] = editors[o]
  BY DEF HostInv, HostShape
<1> QED
  BY <1>1, <1>2, <1>3 DEF HostShape

LEMMA KeysMove ==
  ASSUME HostInv, NEW e \in Editors, NEW n \in Edits, n.id <= lastId, Keyed(n),
         editors'[e] = n, \A o \in Editors : o # e => editors'[o] = editors[o],
         lastId' \in Nat, lastId <= lastId',
         \A i \in Ids : i > lastId' \/ ~ svcRows'[i].here => svcRows'[i] = Gone
  PROVE  KeysOnce'
<1>1. lastId \in Nat /\ \A o \in Editors : editors[o].id \in Nat
  BY DEF HostInv, HostShape, Edits
<1>2. ASSUME NEW o \in Editors PROVE editors'[o].id <= lastId'
  <2>1. CASE o = e
    <3>1. n.id \in Nat
      BY DEF Edits
    <3> QED
      BY <1>1, <2>1, <3>1
  <2>2. CASE o # e
    BY <1>1, <2>2 DEF HostInv, KeysOnce
  <2> QED
    BY <2>1, <2>2
<1>3. \A o \in Editors : Keyed(editors'[o])
  BY DEF HostInv, KeysOnce
<1> QED
  BY <1>2, <1>3 DEF KeysOnce, Keyed

LEMMA AloneMoves ==
  ASSUME HostInv, NEW e \in Editors, NEW n \in Edits, Editing(e),
         editors'[e] = n, \A o \in Editors : o # e => editors'[o] = editors[o],
         n.at # "idle" => n.alone = editors[e].alone,
         n.at = "install" => n.read = svcRows',
         \/ /\ UNCHANGED <<svcRows, svcList>>
            /\ n.at \in Unwritten => Clean(e)
            /\ hostsBehind => hostsBehind'
         \/ /\ UNCHANGED svcList /\ n.at \notin Unwritten \cup {"install"}
            /\ hostsBehind => hostsBehind'
         \/ UNCHANGED svcRows /\ n.at = "idle" /\ hostsBehind'
         \/ /\ UNCHANGED svcRows /\ n.at = "idle" /\ svcList' = svcRows
            /\ ~ hostsBehind' => ~ hostsBehind \/ editors[e].alone
  PROVE  AloneInForce'
<1> USE DEF Unwritten
<1>1. ASSUME NEW o \in Editors, Editing(o)', editors'[o].alone
      PROVE  /\ \A p \in Editors : Editing(p)' => p = o
             /\ editors'[o].at = "install" => editors'[o].read = svcRows'
  <2>1. Editing(o) /\ editors[o].alone
    BY <1>1 DEF Editing
  <2>2. \A p \in Editors : Editing(p) => p = o
    BY <2>1 DEF HostInv, AloneInForce
  <2>3. o = e
    BY <2>2
  <2> QED
    BY <2>2, <2>3 DEF Editing
<1>2. ASSUME ~ hostsBehind', NEW o \in Editors, Editing(o)' PROVE editors'[o].alone
  <2>1. CASE ~ hostsBehind
    BY <1>2, <2>1 DEF HostInv, AloneInForce, Editing
  <2>2. CASE hostsBehind
    <3>1. n.at = "idle" /\ editors[e].alone
      BY <1>2, <2>2
    <3>2. \A p \in Editors : Editing(p) => p = e
      BY <3>1 DEF HostInv, AloneInForce
    <3> QED
      BY <1>2, <3>1, <3>2 DEF Editing
  <2> QED
    BY <2>1, <2>2
<1>3. ASSUME ~ hostsBehind', \A o \in Editors : Clean(o)' PROVE svcList' = svcRows'
  <2>1. n.at \in Unwritten /\ \A o \in Editors : o # e => Clean(o)
    BY <1>3 DEF Clean
  <2>2. CASE UNCHANGED <<svcRows, svcList>> /\ (n.at \in Unwritten => Clean(e))
             /\ (hostsBehind => hostsBehind')
    BY <1>3, <2>1, <2>2 DEF HostInv, AloneInForce
  <2>3. CASE svcList' = svcRows /\ UNCHANGED svcRows
    BY <2>3
  <2> QED
    BY <1>3, <2>1, <2>2, <2>3
<1> QED
  BY <1>1, <1>2, <1>3 DEF AloneInForce

\* A handler goes on or ends, and writes nothing or takes something away.
LEMMA NamesMove ==
  ASSUME HostInv, NEW e \in Editors, NEW n \in Edits,
         editors'[e] = n, \A o \in Editors : o # e => editors'[o] = editors[o],
         n.at \in Validated => /\ Pending(e) /\ n.row = editors[e].row /\ n.id = editors[e].id,
         UNCHANGED svcRows, blind => blind', revived => revived'
  PROVE  NamesApart'
<1> SUFFICES ASSUME ~ blind', ~ revived' PROVE NamesApart'
  BY DEF NamesApart
<1>1. ~ blind /\ ~ revived
  OBVIOUS
<1>2. \A o \in Editors : Pending(o)' => /\ Pending(o) /\ editors'[o].row = editors[o].row
                                        /\ editors'[o].id = editors[o].id
  BY DEF Pending
<1>3. \A i, j \in Ids : i # j => HostsOf(svcRows[i])' \cap HostsOf(svcRows[j])' = {}
  BY <1>1 DEF HostInv, NamesApart, HostsOf
<1>4. ASSUME NEW o \in Editors, Pending(o)'
      PROVE  /\ editors'[o].row.host = NoName => editors'[o].row.aliases = {}
             /\ \A j \in Ids : j # editors'[o].id =>
                  HostsOf(editors'[o].row) \cap HostsOf(svcRows'[j]) = {}
  BY <1>1, <1>2, <1>4 DEF HostInv, NamesApart
<1>5. \A p, o \in Editors : Pending(p)' /\ Pending(o)' => p = o
  BY <1>1, <1>2 DEF HostInv, NamesApart
<1> QED
  BY <1>3, <1>4, <1>5 DEF NamesApart, HostsOf

\* The handler that has validated its names writes a row of names nobody has.
LEMMA NamesWritten ==
  ASSUME HostInv, NEW e \in Editors, NEW n \in Edits, NEW i \in Ids, NEW r \in SvcRows,
         editors'[e] = n, \A o \in Editors : o # e => editors'[o] = editors[o],
         Pending(e),
         n.at \in Validated => n.row = editors[e].row /\ n.id = editors[e].id /\ i = n.id,
         svcRows' = [svcRows EXCEPT ![i] = r], blind => blind', revived => revived',
         ~ blind' /\ ~ revived' =>
            \A j \in Ids : j # i => HostsOf(r) \cap HostsOf(svcRows[j]) = {}
  PROVE  NamesApart'
<1> SUFFICES ASSUME ~ blind', ~ revived' PROVE NamesApart'
  BY DEF NamesApart
<1>1. ~ blind /\ ~ revived
  OBVIOUS
<1>2. svcRows'[i] = r /\ \A j \in Ids : j # i => svcRows'[j] = svcRows[j]
  BY DEF HostInv, HostShape
<1>3. ASSUME NEW j \in Ids, NEW k \in Ids, j # k
      PROVE  HostsOf(svcRows'[j]) \cap HostsOf(svcRows'[k]) = {}
  <2>1. CASE j = i
    BY <1>2, <1>3, <2>1
  <2>2. CASE k = i
    BY <1>2, <1>3, <2>2
  <2>3. CASE j # i /\ k # i
    BY <1>1, <1>2, <1>3, <2>3 DEF HostInv, NamesApart
  <2> QED
    BY <2>1, <2>2, <2>3
<1>4. ASSUME NEW o \in Editors, Pending(o)' PROVE o = e
  BY <1>1, <1>4 DEF HostInv, NamesApart, Pending
<1>5. ASSUME NEW o \in Editors, Pending(o)'
      PROVE  /\ editors'[o].row.host = NoName => editors'[o].row.aliases = {}
             /\ \A j \in Ids : j # editors'[o].id =>
                  HostsOf(editors'[o].row) \cap HostsOf(svcRows'[j]) = {}
  <2>1. o = e /\ editors'[o].row = editors[e].row /\ editors'[o].id = editors[e].id
        /\ i = editors[e].id
    BY <1>4, <1>5 DEF Pending
  <2> QED
    BY <1>1, <1>2, <2>1 DEF HostInv, NamesApart
<1> QED
  BY <1>3, <1>4, <1>5 DEF NamesApart, HostsOf

\* A handler goes on or ends, writes nothing, and leaves no row half-way.
LEMMA TargetsMove ==
  ASSUME HostInv, NEW e \in Editors, NEW n \in Edits,
         editors'[e] = n, \A o \in Editors : o # e => editors'[o] = editors[o],
         (n.id = editors[e].id /\ n.row = editors[e].row) \/ (n.id = 0 /\ n.at = "idle"),
         n.at \in Validated => Pending(e) \/ Target(n.row),
         n.at \in {"names", "aliases"} => editors[e].at \in {"names", "aliases"},
         editors[e].at = "aliases" => n.at = "aliases" \/ mixed',
         UNCHANGED svcRows, mixed => mixed'
  PROVE  TargetsKept'
<1> SUFFICES ASSUME ~ mixed' PROVE TargetsKept'
  BY DEF TargetsKept
<1>1. ~ mixed
  OBVIOUS
<1>2. \A o \in Editors : editors'[o].id # 0 => editors'[o].id = editors[o].id /\ editors'[o].row = editors[o].row
  OBVIOUS
<1>3. \A p, o \in Editors : editors'[p].id = editors'[o].id /\ editors'[p].id # 0 => p = o
  BY <1>1, <1>2 DEF HostInv, TargetsKept
<1>4. ASSUME NEW i \in Ids PROVE Target(svcRows'[i]) \/ Halfway(i)'
  <2>1. CASE Halfway(i)
    <3>1. PICK o \in Editors : editors[o].id = i /\ editors[o].at = "aliases"
      BY <2>1 DEF Halfway
    <3>2. editors'[o].id = i /\ editors'[o].at = "aliases"
      BY <3>1
    <3> QED
      BY <3>2 DEF Halfway
  <2>2. CASE Target(svcRows[i])
    BY <2>2
  <2> QED
    BY <1>1, <2>1, <2>2 DEF HostInv, TargetsKept
<1>5. ASSUME NEW o \in Editors, Pending(o)' PROVE Target(editors'[o].row)
  BY <1>1, <1>5 DEF HostInv, TargetsKept, Pending, Validated
<1>6. ASSUME NEW o \in Editors, NEW i \in Ids, i = editors'[o].id,
             editors'[o].at \in {"names", "aliases"}, svcRows'[i].here
      PROVE  svcRows'[i].host = editors'[o].row.host
  BY <1>1, <1>6 DEF HostInv, TargetsKept
<1> QED
  BY <1>3, <1>4, <1>5, <1>6 DEF TargetsKept, Target, HostsOf, Halfway, Pending

\* What a handler finds of itself.
LEMMA EditKnown ==
  ASSUME HostInv, NEW e \in Editors
  PROVE  /\ editors[e] \in Edits /\ editors[e].row \in SvcRows /\ editors[e].id \in Nat
         /\ editors[e].id <= lastId /\ Keyed(editors[e]) /\ lastId \in Nat /\ MaxServices \in Nat
         /\ lastId <= MaxServices /\ NoEdit \in Edits
         /\ NoEdit.at = "idle" /\ NoEdit.id = 0 /\ NoEdit.at \notin Validated
         /\ \A i \in Ids : svcRows[i] \in SvcRows
<1>1. editors[e] \in Edits /\ lastId \in 0 .. MaxServices /\ \A i \in Ids : svcRows[i] \in SvcRows
  BY DEF HostInv, HostShape
<1>2. editors[e].id <= lastId /\ Keyed(editors[e])
  BY DEF HostInv, KeysOnce
<1>3. NoEdit.at = "idle" /\ NoEdit.id = 0 /\ NoEdit.at \notin Validated
  BY DEF NoEdit, Validated
<1> QED
  BY <1>1, <1>2, <1>3, Empties, HostsAssumption DEF Edits, HostsAssumption

\* The rows are in order while none is written.
LEMMA RowsInOrder ==
  ASSUME HostInv, UNCHANGED <<svcRows, lastId>>
  PROVE  \A i \in Ids : i > lastId' \/ ~ svcRows'[i].here => svcRows'[i] = Gone
BY DEF HostInv, KeysOnce

LEMMA CheckKept ==
  ASSUME HostInv, NEW e \in Editors, Check(e) PROVE HostInv'
<1>1. PICK m : m = editors[e]
  OBVIOUS
<1>2. PICK n : n = [m EXCEPT !.at = AfterCheck[m.at]]
  OBVIOUS
<1>3. editors' = [editors EXCEPT ![e] = n] /\ m \in Edits
  BY <1>1, <1>2, EditKnown DEF Check
<1>4. m.at \in {"add", "names", "update"}
  BY <1>1 DEF Check, AfterCheck
<1>5. /\ n \in Edits /\ n.at \in {"insert", "aliases", "host"} /\ n.id = m.id /\ n.row = m.row
      /\ n.alone = m.alone /\ (n.at = "aliases" => m.at = "names")
  BY <1>2, <1>3, <1>4 DEF AfterCheck, Edits
<1>6. /\ UNCHANGED <<svcRows, lastId, svcList, owners, revived, mixed, hostsBehind>>
      /\ blind' = (blind \/ svcList # svcRows \/ \E o \in Editors : editors[o].at \in Validated)
      /\ ValidateHosts(m.id, m.row, svcList)
  BY <1>1 DEF Check
<1>7. m.row \in SvcRows /\ m.id <= lastId /\ lastId \in Nat /\ Editing(e)
  BY <1>1, <1>4, EditKnown DEF Editing
<1>8. /\ HostShape'
      /\ editors'[e] = n /\ \A o \in Editors : o # e => editors'[o] = editors[o]
  BY <1>3, <1>5, <1>6, ShapeMoves DEF HostInv, HostShape
<1>9. KeysOnce'
  <2>1. Keyed(n)
    BY <1>1, <1>2, <1>3, <1>4, <1>5, EditKnown DEF Keyed, AfterCheck
  <2> QED
    BY <1>5, <1>6, <1>7, <1>8, <2>1, KeysMove, RowsInOrder
<1>10. AloneInForce'
  <2>1. n.at # "install" /\ Clean(e)
    BY <1>1, <1>4, <1>5 DEF Clean, Unwritten
  <2> QED
    BY <1>1, <1>5, <1>6, <1>7, <1>8, <2>1, AloneMoves
<1>11. /\ m.row.host = NoName => m.row.aliases = {}
       /\ \A j \in Ids : j # m.id => HostsOf(m.row) \cap HostsOf(svcList[j]) = {}
       /\ Target(m.row)
  BY <1>6 DEF ValidateHosts, HostsOf, Target
<1>12. NamesApart'
  <2> SUFFICES ASSUME ~ blind', ~ revived' PROVE NamesApart'
    BY DEF NamesApart
  <2>1. ~ blind /\ ~ revived /\ svcList = svcRows /\ \A o \in Editors : ~ Pending(o)
    BY <1>6 DEF Pending
  <2>2. \A i, j \in Ids : i # j => HostsOf(svcRows'[i]) \cap HostsOf(svcRows'[j]) = {}
    BY <1>6, <2>1 DEF HostInv, NamesApart
  <2>3. \A o \in Editors : Pending(o)' => o = e
    BY <1>8, <2>1 DEF Pending
  <2>4. /\ editors'[e].row.host = NoName => editors'[e].row.aliases = {}
        /\ \A j \in Ids : j # editors'[e].id =>
             HostsOf(editors'[e].row) \cap HostsOf(svcRows'[j]) = {}
    BY <1>5, <1>6, <1>8, <1>11, <2>1
  <2> QED
    BY <2>2, <2>3, <2>4 DEF NamesApart, HostsOf
<1>13. TargetsKept'
  <2>1. Target(n.row)
    BY <1>5, <1>11
  <2>2. editors[e].at # "aliases"
    BY <1>1, <1>4
  <2>3. n.at \in {"names", "aliases"} => editors[e].at \in {"names", "aliases"}
    BY <1>1, <1>5
  <2>4. n.id = editors[e].id /\ n.row = editors[e].row
    BY <1>1, <1>5
  <2>5. UNCHANGED svcRows /\ (mixed => mixed')
    BY <1>6
  <2>6. n.at \in Validated => Pending(e) \/ Target(n.row)
    BY <2>1
  <2>7. editors[e].at = "aliases" => n.at = "aliases" \/ mixed'
    BY <2>2
  <2> QED
    BY <1>5, <1>8, <2>3, <2>4, <2>5, <2>6, <2>7, TargetsMove
<1> QED
  BY <1>8, <1>9, <1>10, <1>12, <1>13 DEF HostInv

\* A handler that has no names left to write goes on or ends; none validates.
LEMMA GoesOn ==
  ASSUME HostInv, NEW e \in Editors, NEW n \in Edits, editors' = [editors EXCEPT ![e] = n],
         Editing(e), UNCHANGED <<svcRows, lastId, owners, svcList, blind, revived>>,
         (n.id = editors[e].id /\ n.row = editors[e].row) \/ (n.id = 0 /\ n.at = "idle"),
         n.at # "idle" => n.alone = editors[e].alone,
         n.at = "install" => n.read = svcRows,
         n.at \in {"idle", "list", "install"},
         hostsBehind' \in BOOLEAN, mixed' \in BOOLEAN,
         hostsBehind => hostsBehind', n.at = "idle" => Clean(e) \/ hostsBehind',
         editors[e].at = "aliases" => mixed', mixed => mixed'
  PROVE  HostInv'
<1>1. /\ HostShape'
      /\ editors'[e] = n /\ \A o \in Editors : o # e => editors'[o] = editors[o]
  BY ShapeMoves DEF HostInv, HostShape
<1>2. n.id <= lastId /\ lastId \in Nat /\ Keyed(n)
  BY EditKnown DEF Keyed
<1>3. KeysOnce'
  BY <1>1, <1>2, KeysMove, RowsInOrder
<1>4. AloneInForce'
  <2>1. CASE n.at = "idle" /\ hostsBehind'
    BY <1>1, <2>1, AloneMoves
  <2>2. CASE ~ (n.at = "idle" /\ hostsBehind')
    <3>1. n.at \in Unwritten => Clean(e)
      BY <2>2 DEF Unwritten
    <3> QED
      BY <1>1, <3>1, AloneMoves
  <2> QED
    BY <2>1, <2>2
<1>5. n.at \notin Validated /\ n.at \notin {"names", "aliases"}
  BY DEF Validated
<1>6. NamesApart'
  BY <1>1, <1>5, NamesMove
<1>7. TargetsKept'
  BY <1>1, <1>5, TargetsMove
<1> QED
  BY <1>1, <1>3, <1>4, <1>6, <1>7 DEF HostInv

LEMMA QuietKept ==
  ASSUME HostInv, NEW e \in Editors,
         \/ CheckRefuses(e) \/ RefusesTheRest(e) \/ NamesFail(e) \/ ReadServicesFails(e)
  PROVE  HostInv'
<1>1. PICK n : n = NoEdit
  OBVIOUS
<1>2. n \in Edits /\ n.id = 0 /\ n.at = "idle"
  BY <1>1, EditKnown
<1>3. /\ editors' = [editors EXCEPT ![e] = n]
      /\ UNCHANGED <<svcRows, lastId, owners, svcList, blind, revived>>
  BY <1>1 DEF CheckRefuses, RefusesTheRest, NamesFail, ReadServicesFails, Ended
<1>4. Editing(e)
  BY DEF CheckRefuses, RefusesTheRest, NamesFail, ReadServicesFails, Editing, AfterCheck, Validated
<1>5. hostsBehind \in BOOLEAN /\ mixed \in BOOLEAN
  BY DEF HostInv, HostShape
<1>6. CASE CheckRefuses(e)
  <2>1. UNCHANGED <<hostsBehind, mixed>>
    BY <1>6 DEF CheckRefuses
  <2>2. Clean(e) /\ editors[e].at # "aliases"
    BY <1>6 DEF CheckRefuses, AfterCheck, Clean, Unwritten
  <2> QED
    BY <1>2, <1>3, <1>4, <1>5, <2>1, <2>2, GoesOn
<1>7. CASE NamesFail(e)
  <2>1. /\ mixed' = (mixed \/ editors[e].at = "aliases")
        /\ hostsBehind' = (hostsBehind \/ editors[e].at = "aliases")
    BY <1>7 DEF NamesFail
  <2>2. editors[e].at # "aliases" => Clean(e)
    BY <1>7 DEF NamesFail, Clean, Unwritten, Validated
  <2> QED
    BY <1>2, <1>3, <1>4, <1>5, <2>1, <2>2, GoesOn
<1>8. CASE RefusesTheRest(e) \/ ReadServicesFails(e)
  <2>1. hostsBehind' = TRUE /\ UNCHANGED mixed /\ editors[e].at # "aliases"
    BY <1>8 DEF RefusesTheRest, ReadServicesFails
  <2> QED
    BY <1>2, <1>3, <1>4, <1>5, <2>1, GoesOn
<1> QED
  BY <1>6, <1>7, <1>8

LEMMA OnwardKept ==
  ASSUME HostInv, NEW e \in Editors, TakesTheRest(e) \/ ReadServices(e)
  PROVE  HostInv'
<1>1. PICK m : m = editors[e]
  OBVIOUS
<1>2. m \in Edits /\ svcRows \in [Ids -> SvcRows] /\ hostsBehind \in BOOLEAN /\ mixed \in BOOLEAN
  BY <1>1, EditKnown DEF HostInv, HostShape
<1>3. Editing(e) /\ m.at # "aliases"
  BY <1>1 DEF TakesTheRest, ReadServices, Editing
<1>4. /\ UNCHANGED <<svcRows, lastId, owners, svcList, blind, revived>>
      /\ hostsBehind' \in BOOLEAN /\ mixed' \in BOOLEAN
      /\ (hostsBehind => hostsBehind') /\ (mixed => mixed')
  BY <1>2 DEF TakesTheRest, ReadServices
<1>5. CASE TakesTheRest(e)
  <2>1. PICK n : n = [m EXCEPT !.at = "list"]
    OBVIOUS
  <2>2. editors' = [editors EXCEPT ![e] = n]
    BY <1>1, <1>5, <2>1 DEF TakesTheRest
  <2>3. n \in Edits /\ n.at = "list" /\ n.id = m.id /\ n.row = m.row /\ n.alone = m.alone
    BY <1>2, <2>1 DEF Edits
  <2>4. /\ n.id = editors[e].id /\ n.row = editors[e].row /\ n.alone = editors[e].alone
        /\ n.at # "idle" /\ editors[e].at # "aliases"
    BY <1>1, <1>3, <2>3
  <2> QED
    BY <1>3, <1>4, <2>2, <2>3, <2>4, GoesOn
<1>6. CASE ReadServices(e)
  <2>1. PICK n : n = [m EXCEPT !.at = "install", !.read = svcRows]
    OBVIOUS
  <2>2. editors' = [editors EXCEPT ![e] = n]
    BY <1>1, <1>6, <2>1 DEF ReadServices
  <2>3. /\ n \in Edits /\ n.at = "install" /\ n.id = m.id /\ n.row = m.row /\ n.alone = m.alone
        /\ n.read = svcRows
    BY <1>2, <2>1 DEF Edits
  <2>4. /\ n.id = editors[e].id /\ n.row = editors[e].row /\ n.alone = editors[e].alone
        /\ n.at # "idle" /\ editors[e].at # "aliases"
    BY <1>1, <1>3, <2>3
  <2> QED
    BY <1>3, <1>4, <2>2, <2>3, <2>4, GoesOn
<1> QED
  BY <1>5, <1>6

LEMMA InstallKept ==
  ASSUME HostInv, NEW e \in Editors, Install(e) PROVE HostInv'
<1>1. PICK n : n = NoEdit
  OBVIOUS
<1>2. n \in Edits /\ n.id = 0 /\ n.at = "idle" /\ lastId \in Nat /\ n.at \notin Validated
  BY <1>1, EditKnown
<1>3. /\ editors' = [editors EXCEPT ![e] = n]
      /\ UNCHANGED <<svcRows, lastId, blind, revived, mixed>>
      /\ svcList' = editors[e].read /\ owners' = Owners(svcList')
      /\ hostsBehind' = (hostsBehind /\ ~ editors[e].alone) /\ editors[e].at = "install"
  BY <1>1 DEF Install, Ended
<1>4. Editing(e) /\ editors[e].read \in [Ids -> SvcRows]
  BY <1>3, EditKnown DEF Editing, Edits
<1>5. /\ HostShape'
      /\ editors'[e] = n /\ \A o \in Editors : o # e => editors'[o] = editors[o]
  BY <1>2, <1>3, <1>4, ShapeMoves DEF HostInv, HostShape
<1>6. KeysOnce'
  <2>1. n.id <= lastId /\ Keyed(n)
    BY <1>2 DEF Keyed
  <2> QED
    BY <1>2, <1>3, <1>5, <2>1, KeysMove, RowsInOrder
<1>7. AloneInForce'
  <2>1. CASE hostsBehind'
    BY <1>2, <1>3, <1>4, <1>5, <2>1, AloneMoves
  <2>2. CASE ~ hostsBehind'
    <3>1. editors[e].alone
      BY <1>3, <1>4, <2>2 DEF HostInv, AloneInForce
    <3>2. svcList' = svcRows
      BY <1>3, <1>4, <3>1 DEF HostInv, AloneInForce
    <3> QED
      BY <1>2, <1>3, <1>4, <1>5, <3>1, <3>2, AloneMoves
  <2> QED
    BY <2>1, <2>2
<1>8. NamesApart'
  BY <1>2, <1>3, <1>5, NamesMove
<1>9. TargetsKept'
  BY <1>2, <1>3, <1>5, TargetsMove
<1> QED
  BY <1>5, <1>6, <1>7, <1>8, <1>9 DEF HostInv

\* The last validated handler writes a row.
LEMMA WriteKept ==
  ASSUME HostInv, NEW e \in Editors, NEW i \in Ids, NEW r \in SvcRows, NEW next \in {"list", "aliases", "rest"},
         WritesRow(e, i, r, next), Pending(e), revived' \in BOOLEAN, revived => revived',
         ~ r.here => r = Gone, i <= lastId', i \in Nat,
         lastId' \in 0 .. MaxServices, lastId <= lastId',
         editors[e].at = "insert" => i = lastId + 1 /\ lastId' = i /\ next = "list",
         editors[e].at # "insert" => i = editors[e].id /\ UNCHANGED lastId,
         next = "aliases" /\ r.here => r.host = editors[e].row.host,
         next # "aliases" /\ ~ mixed => Target(r),
         ~ blind /\ ~ revived' =>
            \A j \in Ids : j # i => HostsOf(r) \cap HostsOf(svcRows[j]) = {}
  PROVE  HostInv'
<1>1. PICK m : m = editors[e]
  OBVIOUS
<1>2. PICK n : n = [m EXCEPT !.at = next]
  OBVIOUS
<1>3. /\ editors' = [editors EXCEPT ![e] = n] /\ svcRows' = [svcRows EXCEPT ![i] = r]
      /\ UNCHANGED <<svcList, owners, blind, mixed, hostsBehind>>
  BY <1>1, <1>2 DEF WritesRow
<1>4. m \in Edits /\ m.id <= lastId /\ Keyed(m) /\ m.id \in Nat /\ lastId \in Nat
  BY <1>1, EditKnown
<1>5. n \in Edits /\ n.at = next /\ n.id = m.id /\ n.row = m.row /\ n.alone = m.alone
  BY <1>2, <1>4 DEF Edits
<1>6. m.at \in {"insert", "host", "aliases"} /\ Editing(e)
  BY <1>1 DEF Pending, Validated, Editing
<1>7. /\ svcRows' \in [Ids -> SvcRows] /\ svcRows'[i] = r
      /\ \A j \in Ids : j # i => svcRows'[j] = svcRows[j]
  BY <1>3 DEF HostInv, HostShape
<1>8. /\ HostShape'
      /\ editors'[e] = n /\ \A o \in Editors : o # e => editors'[o] = editors[o]
  BY <1>3, <1>5, <1>7, ShapeMoves DEF HostInv, HostShape
<1>9. KeysOnce'
  <2>1. Keyed(n)
    BY <1>1, <1>4, <1>5, <1>6 DEF Keyed
  <2>2. ASSUME NEW j \in Ids, j > lastId' \/ ~ svcRows'[j].here PROVE svcRows'[j] = Gone
    <3>1. CASE j = i
      BY <1>7, <2>2, <3>1
    <3>2. CASE j # i
      <4>1. j \in Nat /\ svcRows'[j] = svcRows[j]
        BY <1>7, <3>2, HostsAssumption DEF Ids, HostsAssumption
      <4>2. j > lastId \/ ~ svcRows[j].here
        BY <1>4, <2>2, <4>1
      <4> QED
        BY <4>1, <4>2 DEF HostInv, KeysOnce
    <3> QED
      BY <3>1, <3>2
  <2>3. n.id <= lastId /\ lastId' \in Nat
    BY <1>4, <1>5
  <2> QED
    BY <1>5, <1>8, <2>1, <2>2, <2>3, KeysMove
<1>10. AloneInForce'
  <2>1. n.at \notin Unwritten \cup {"install"}
    BY <1>5 DEF Unwritten
  <2>2. n.alone = editors[e].alone /\ n.at # "install" /\ UNCHANGED svcList
        /\ (hostsBehind => hostsBehind')
    BY <1>1, <1>3, <1>5
  <2> QED
    BY <1>5, <1>6, <1>8, <2>1, <2>2, AloneMoves
<1>11. NamesApart'
  <2>1. n.at \in Validated => n.row = editors[e].row /\ n.id = editors[e].id /\ i = n.id
    BY <1>1, <1>5, <1>6 DEF Validated
  <2>2. (blind => blind') /\ (~ blind' => ~ blind)
    BY <1>3
  <2> QED
    BY <1>3, <1>5, <1>8, <2>1, <2>2, NamesWritten
<1>12. TargetsKept'
  <2> SUFFICES ASSUME ~ mixed' PROVE TargetsKept'
    BY DEF TargetsKept
  <2>1. ~ mixed
    BY <1>3
  <2>2. \A o \in Editors : editors'[o].id = editors[o].id /\ editors'[o].row = editors[o].row
    BY <1>1, <1>5, <1>8
  <2>3. \A p, o \in Editors : editors'[p].id = editors'[o].id /\ editors'[p].id # 0 => p = o
    BY <2>1, <2>2 DEF HostInv, TargetsKept
  <2>4. ASSUME NEW j \in Ids PROVE Target(svcRows'[j]) \/ Halfway(j)'
    <3>1. CASE j = i /\ next # "aliases"
      BY <1>7, <2>1, <3>1
    <3>2. CASE j = i /\ next = "aliases"
      <4>1. m.at # "insert"
        BY <1>1, <3>2
      <4>2. editors'[e].id = j /\ editors'[e].at = "aliases"
        BY <1>1, <1>5, <1>8, <3>2, <4>1
      <4> QED
        BY <4>2 DEF Halfway
    <3>3. CASE j # i
      <4>1. svcRows'[j] = svcRows[j]
        BY <1>7, <3>3
      <4>2. CASE Halfway(j)
        <5>1. PICK o \in Editors : editors[o].id = j /\ editors[o].at = "aliases"
          BY <4>2 DEF Halfway
        <5>2. CASE o = e
          BY <1>1, <3>3, <5>1, <5>2
        <5>3. CASE o # e
          BY <1>8, <5>1, <5>3 DEF Halfway
        <5> QED
          BY <5>2, <5>3
      <4>3. CASE Target(svcRows[j])
        BY <4>1, <4>3
      <4> QED
        BY <2>1, <4>2, <4>3 DEF HostInv, TargetsKept
    <3> QED
      BY <3>1, <3>2, <3>3
  <2>5. ASSUME NEW o \in Editors, Pending(o)' PROVE Target(editors'[o].row)
    <3>1. Pending(o)
      BY <1>8, <2>5 DEF Pending
    <3> QED
      BY <2>1, <2>2, <3>1 DEF HostInv, TargetsKept
  <2>6. ASSUME NEW o \in Editors, NEW j \in Ids, j = editors'[o].id,
               editors'[o].at \in {"names", "aliases"}, svcRows'[j].here
        PROVE  svcRows'[j].host = editors'[o].row.host
    <3>1. CASE o = e
      <4>1. next = "aliases" /\ j = m.id
        BY <1>5, <1>8, <2>6, <3>1
      <4>2. i = m.id
        BY <1>1, <4>1
      <4> QED
        BY <1>1, <1>5, <1>7, <1>8, <2>6, <3>1, <4>1, <4>2
    <3>2. CASE o # e
      <4>1. editors'[o] = editors[o]
        BY <1>8, <3>2
      <4>2. j # i
        <5>1. editors[o].id = j /\ j <= lastId /\ j # 0
          BY <2>6, <4>1, EditKnown DEF Keyed
        <5>2. CASE m.at = "insert"
          BY <1>1, <1>4, <5>1, <5>2
        <5>3. CASE m.at # "insert"
          BY <1>1, <2>1, <3>2, <5>1, <5>3 DEF HostInv, TargetsKept
        <5> QED
          BY <5>2, <5>3
      <4>3. svcRows'[j] = svcRows[j]
        BY <1>7, <4>2
      <4> QED
        BY <2>1, <2>6, <4>1, <4>3 DEF HostInv, TargetsKept
    <3> QED
      BY <3>1, <3>2
  <2> QED
    BY <2>3, <2>4, <2>5, <2>6 DEF TargetsKept, Target, HostsOf, Halfway, Pending
<1> QED
  BY <1>8, <1>9, <1>10, <1>11, <1>12 DEF HostInv

LEMMA InsertKept ==
  ASSUME HostInv, NEW e \in Editors, InsertService(e) PROVE HostInv'
<1>1. PICK i : i = lastId + 1
  OBVIOUS
<1>2. PICK r : r = editors[e].row
  OBVIOUS
<1>3. /\ editors[e].at = "insert" /\ lastId < MaxServices /\ lastId' = i
      /\ WritesRow(e, i, r, "list") /\ UNCHANGED revived
  BY <1>1, <1>2 DEF InsertService
<1>4. /\ r \in SvcRows /\ lastId \in Nat /\ MaxServices \in Nat /\ Keyed(editors[e])
  BY <1>2, EditKnown
<1>5. i \in Ids /\ i \in Nat /\ i <= lastId' /\ lastId' \in 0 .. MaxServices /\ lastId <= lastId'
  BY <1>1, <1>3, <1>4 DEF Ids
<1>6. Pending(e) /\ editors[e].id = 0
  BY <1>3, <1>4 DEF Pending, Validated, Keyed
<1>7. revived' \in BOOLEAN /\ (revived => revived')
  BY <1>3 DEF HostInv, HostShape
<1>8. ~ mixed => Target(r)
  BY <1>2, <1>6 DEF HostInv, TargetsKept
<1>9. ASSUME ~ blind, ~ revived', NEW j \in Ids, j # i
      PROVE  HostsOf(r) \cap HostsOf(svcRows[j]) = {}
  <2>1. j # editors[e].id
    BY <1>6 DEF Ids
  <2> QED
    BY <1>2, <1>3, <1>6, <1>9, <2>1 DEF HostInv, NamesApart
<1>10. ~ r.here => r = Gone
  <2>1. r.here
    BY <1>2, <1>3, <1>4 DEF Keyed
  <2> QED
    BY <2>1
<1> QED
  BY <1>1, <1>3, <1>4, <1>5, <1>6, <1>7, <1>8, <1>9, <1>10, WriteKept

\* The service a handler changes.
LEMMA ItsService ==
  ASSUME HostInv, NEW e \in Editors, editors[e].at \in {"host", "aliases"}
  PROVE  /\ editors[e].id \in Ids /\ editors[e].id \in Nat /\ editors[e].id <= lastId
         /\ lastId \in 0 .. MaxServices /\ Pending(e) /\ Gone \in SvcRows /\ ~ Gone.here
         /\ HostsOf(Gone) = {} /\ Target(Gone)
         /\ editors[e].row \in SvcRows /\ svcRows[editors[e].id] \in SvcRows
<1>1. editors[e].id \in Nat /\ editors[e].id # 0 /\ editors[e].id <= lastId /\ lastId \in Nat
      /\ lastId <= MaxServices /\ MaxServices \in Nat
  BY EditKnown DEF Keyed
<1>2. editors[e].id \in Ids
  BY <1>1 DEF Ids
<1>3. Gone \in SvcRows /\ ~ Gone.here /\ HostsOf(Gone) = {} /\ Target(Gone)
  BY Empties DEF Gone, HostsOf, Target
<1> QED
  BY <1>1, <1>2, <1>3, EditKnown DEF Pending, Validated

LEMMA UpdateKept ==
  ASSUME HostInv, NEW e \in Editors, UpdateService(e) PROVE HostInv'
<1>1. PICK m : m = editors[e]
  OBVIOUS
<1>2. PICK i : i = m.id
  OBVIOUS
<1>3. PICK s : s = svcRows[i]
  OBVIOUS
<1>4. PICK r : r = IF s.here THEN [s EXCEPT !.host = m.row.host] ELSE Gone
  OBVIOUS
<1>5. /\ m.at = "host" /\ WritesRow(e, i, r, "aliases") /\ UNCHANGED lastId
      /\ revived' = (revived \/ (s.host = NoName /\ s.aliases # {} /\ m.row.host # NoName))
  BY <1>1, <1>2, <1>3, <1>4 DEF UpdateService
<1>6. /\ i \in Ids /\ i \in Nat /\ i <= lastId' /\ lastId' \in 0 .. MaxServices /\ Pending(e)
      /\ lastId <= lastId' /\ m.row \in SvcRows /\ s \in SvcRows
  BY <1>1, <1>2, <1>3, <1>5, ItsService
<1>7. r \in SvcRows /\ (~ r.here => r = Gone) /\ (r.here => r.host = m.row.host)
  BY <1>4, <1>6, ItsService, Empties DEF SvcRows, Gone
<1>8. revived' \in BOOLEAN /\ (revived => revived')
  BY <1>5 DEF HostInv, HostShape
<1>9. ASSUME ~ blind, ~ revived', NEW j \in Ids, j # i
      PROVE  HostsOf(r) \cap HostsOf(svcRows[j]) = {}
  <2>1. ~ revived
    BY <1>8, <1>9
  <2>2. /\ HostsOf(s) \cap HostsOf(svcRows[j]) = {} /\ HostsOf(m.row) \cap HostsOf(svcRows[j]) = {}
    BY <1>1, <1>2, <1>3, <1>6, <1>9, <2>1 DEF HostInv, NamesApart
  <2>3. CASE ~ s.here
    BY <1>1, <1>4, <1>5, <2>3, ItsService
  <2>4. CASE s.here
    <3>1. r.host = m.row.host /\ r.aliases = s.aliases
      BY <1>4, <1>6, <2>4 DEF SvcRows
    <3>2. HostsOf(r) \subseteq HostsOf(s) \cup HostsOf(m.row)
      BY <1>5, <1>9, <3>1 DEF HostsOf
    <3> QED
      BY <2>2, <3>2
  <2> QED
    BY <2>3, <2>4
<1>10. /\ editors[e].at # "insert" /\ i = editors[e].id
       /\ (r.here => r.host = editors[e].row.host)
  BY <1>1, <1>2, <1>5, <1>7
<1> QED
  BY <1>5, <1>6, <1>7, <1>8, <1>9, <1>10, WriteKept

LEMMA SetHostsKept ==
  ASSUME HostInv, NEW e \in Editors, SetServiceHosts(e) PROVE HostInv'
<1>1. PICK m : m = editors[e]
  OBVIOUS
<1>2. PICK i : i = m.id
  OBVIOUS
<1>3. PICK s : s = svcRows[i]
  OBVIOUS
<1>4. PICK r : r = IF s.here THEN [m.row EXCEPT !.host = s.host] ELSE Gone
  OBVIOUS
<1>5. PICK next : next = IF m.api THEN "rest" ELSE "list"
  OBVIOUS
<1>6. m.at = "aliases" /\ WritesRow(e, i, r, next) /\ UNCHANGED <<lastId, revived>>
  BY <1>1, <1>2, <1>3, <1>4, <1>5 DEF SetServiceHosts
<1>7. /\ i \in Ids /\ i \in Nat /\ i <= lastId' /\ lastId' \in 0 .. MaxServices /\ Pending(e)
      /\ lastId <= lastId' /\ m.row \in SvcRows /\ s \in SvcRows
  BY <1>1, <1>2, <1>3, <1>6, ItsService
<1>8. m.row.here
  BY <1>1, <1>6, EditKnown DEF Keyed
<1>9. r \in SvcRows /\ (~ r.here => r = Gone)
  BY <1>4, <1>7, <1>8, Empties DEF SvcRows, Gone
<1>10. revived' \in BOOLEAN /\ (revived => revived')
  BY <1>6 DEF HostInv, HostShape
<1>11. ASSUME ~ blind, ~ revived', NEW j \in Ids, j # i
       PROVE  HostsOf(r) \cap HostsOf(svcRows[j]) = {}
  <2>1. ~ revived
    BY <1>10, <1>11
  <2>2. /\ HostsOf(s) \cap HostsOf(svcRows[j]) = {} /\ HostsOf(m.row) \cap HostsOf(svcRows[j]) = {}
        /\ m.row.host = NoName => m.row.aliases = {}
    BY <1>1, <1>2, <1>3, <1>7, <1>11, <2>1 DEF HostInv, NamesApart
  <2>3. CASE ~ s.here
    BY <1>1, <1>4, <1>6, <2>3, ItsService
  <2>4. CASE s.here
    <3>1. r.host = s.host /\ r.aliases = m.row.aliases
      BY <1>4, <1>7, <2>4 DEF SvcRows
    <3>2. HostsOf(r) \subseteq HostsOf(s) \cup HostsOf(m.row)
      BY <2>2, <3>1 DEF HostsOf
    <3> QED
      BY <2>2, <3>2
  <2> QED
    BY <2>3, <2>4
<1>12. ASSUME ~ mixed PROVE Target(r)
  <2>1. Target(m.row)
    BY <1>1, <1>7, <1>12 DEF HostInv, TargetsKept
  <2>2. s.here => s.host = m.row.host
    BY <1>1, <1>2, <1>3, <1>6, <1>7, <1>12 DEF HostInv, TargetsKept
  <2>3. CASE ~ s.here
    BY <1>1, <1>4, <1>6, <2>3, ItsService
  <2>4. CASE s.here
    <3>1. r.host = m.row.host /\ r.aliases = m.row.aliases /\ r.canonical = m.row.canonical
      BY <1>4, <1>7, <2>2, <2>4 DEF SvcRows
    <3> QED
      BY <2>1, <3>1 DEF Target, HostsOf
  <2> QED
    BY <2>3, <2>4
<1>13. /\ editors[e].at # "insert" /\ i = editors[e].id /\ next \in {"list", "rest"}
       /\ next # "aliases"
  BY <1>1, <1>2, <1>5, <1>6
<1> QED
  BY <1>6, <1>7, <1>9, <1>10, <1>11, <1>12, <1>13, WriteKept

\* A handler begins: the others are no longer alone.
LEMMA BeginsKept ==
  ASSUME HostInv, NEW e \in Editors, NEW entry \in Edits, Begins(e, entry), Keyed(entry),
         entry.at \in {"add", "names", "update", "list"}, entry.at = "list" => entry.id = 0,
         entry.id <= lastId,
         entry.at # "list" => UNCHANGED svcRows,
         UNCHANGED svcRows \/ \E i \in Ids : svcRows' = [svcRows EXCEPT ![i] = Gone],
         entry.at = "names" =>
           \A i \in Ids : i = entry.id => svcRows[i].host = entry.row.host,
         UNCHANGED <<lastId, svcList, owners, blind, revived>>
  PROVE  HostInv'
<1>1. PICK n : n = [entry EXCEPT !.alone = \A p \in Editors : ~ Editing(p)]
  OBVIOUS
<1>2. /\ n \in Edits /\ n.at = entry.at /\ n.id = entry.id /\ n.row = entry.row
      /\ (n.alone => \A p \in Editors : ~ Editing(p))
  BY <1>1 DEF Edits
<1>3. /\ ~ Editing(e)
      /\ editors' = [o \in Editors |->
           IF o = e THEN n ELSE [editors[o] EXCEPT !.alone = FALSE]]
      /\ hostsBehind' = (hostsBehind \/ \E p \in Editors : Editing(p))
      /\ mixed' = (mixed \/ (entry.id # 0 /\ \E p \in Editors : editors[p].id = entry.id))
  BY <1>1 DEF Begins
<1>4. editors'[e] = n
  BY <1>3
<1>5. ASSUME NEW o \in Editors, o # e
      PROVE  /\ editors'[o] \in Edits /\ editors'[o].at = editors[o].at
             /\ editors'[o].id = editors[o].id /\ editors'[o].row = editors[o].row
             /\ editors'[o].alone = FALSE
  <2>1. PICK m : m = editors[o]
    OBVIOUS
  <2>2. m \in Edits /\ editors'[o] = [m EXCEPT !.alone = FALSE]
    BY <1>3, <1>5, <2>1, EditKnown
  <2> QED
    BY <2>1, <2>2 DEF Edits
<1>6. /\ \A i \in Ids : svcRows'[i] = svcRows[i] \/ svcRows'[i] = Gone
      /\ svcRows' \in [Ids -> SvcRows]
  <2>1. CASE UNCHANGED svcRows
    BY <2>1 DEF HostInv, HostShape
  <2>2. ASSUME NEW i \in Ids, svcRows' = [svcRows EXCEPT ![i] = Gone]
        PROVE  /\ \A j \in Ids : svcRows'[j] = svcRows[j] \/ svcRows'[j] = Gone
               /\ svcRows' \in [Ids -> SvcRows]
    BY <2>2, Empties DEF HostInv, HostShape
  <2> QED
    BY <2>1, <2>2
<1>7. /\ ~ Gone.here /\ HostsOf(Gone) = {} /\ Target(Gone)
  BY DEF Gone, HostsOf, Target
<1>8. HostShape'
  <2>1. editors' \in [Editors -> Edits]
    BY <1>2, <1>3, <1>4, <1>5
  <2>2. owners' = Owners(svcList)'
    BY DEF HostInv, HostShape, Owners, Claims
  <2>3. mixed' \in BOOLEAN /\ hostsBehind' \in BOOLEAN
    BY <1>3 DEF HostInv, HostShape
  <2> QED
    BY <1>6, <2>1, <2>2, <2>3 DEF HostInv, HostShape
<1>9. KeysOnce'
  <2>1. ASSUME NEW o \in Editors PROVE editors'[o].id <= lastId /\ Keyed(editors'[o])
    <3>1. CASE o = e
      BY <1>2, <1>4, <3>1 DEF Keyed
    <3>2. CASE o # e
      BY <1>5, <3>2, EditKnown DEF Keyed
    <3> QED
      BY <3>1, <3>2
  <2>2. \A i \in Ids : i > lastId \/ ~ svcRows'[i].here => svcRows'[i] = Gone
    BY <1>6 DEF HostInv, KeysOnce
  <2> QED
    BY <2>1, <2>2 DEF KeysOnce, Keyed
<1>10. AloneInForce'
  <2>1. ASSUME NEW o \in Editors, Editing(o)', editors'[o].alone
        PROVE  /\ \A p \in Editors : Editing(p)' => p = o
               /\ editors'[o].at = "install" => editors'[o].read = svcRows'
    <3>1. o = e
      BY <1>5, <2>1
    <3>2. \A p \in Editors : ~ Editing(p)
      BY <1>2, <1>4, <2>1, <3>1
    <3> QED
      BY <1>2, <1>4, <1>5, <3>1, <3>2 DEF Editing
  <2>2. ASSUME ~ hostsBehind'
        PROVE  /\ \A o \in Editors : Editing(o)' => editors'[o].alone
               /\ (\A o \in Editors : Clean(o)') => svcList' = svcRows'
    <3>1. ~ hostsBehind /\ \A p \in Editors : ~ Editing(p)
      BY <1>3, <2>2
    <3>2. ASSUME NEW o \in Editors, Editing(o)' PROVE editors'[o].alone
      <4>1. o = e
        BY <1>5, <3>1, <3>2 DEF Editing
      <4> QED
        BY <1>1, <1>4, <3>1, <4>1 DEF Edits
    <3>3. ASSUME \A o \in Editors : Clean(o)' PROVE svcList' = svcRows'
      <4>1. UNCHANGED svcRows
        <5>1. n.at # "list"
          BY <1>4, <3>3 DEF Clean, Unwritten
        <5> QED
          BY <1>2, <5>1
      <4>2. \A o \in Editors : Clean(o)
        BY <3>1 DEF Clean, Editing, Unwritten
      <4> QED
        BY <3>1, <4>1, <4>2 DEF HostInv, AloneInForce
    <3> QED
      BY <3>2, <3>3
  <2> QED
    BY <2>1, <2>2 DEF AloneInForce
<1>11. NamesApart'
  <2> SUFFICES ASSUME ~ blind', ~ revived' PROVE NamesApart'
    BY DEF NamesApart
  <2>1. ~ blind /\ ~ revived
    OBVIOUS
  <2>2. \A i, j \in Ids : i # j => HostsOf(svcRows'[i]) \cap HostsOf(svcRows'[j]) = {}
    BY <1>6, <1>7, <2>1 DEF HostInv, NamesApart
  <2>3. ASSUME NEW o \in Editors, Pending(o)'
        PROVE  /\ o # e /\ Pending(o)
               /\ editors'[o].id = editors[o].id /\ editors'[o].row = editors[o].row
    <3>1. o # e
      BY <1>2, <1>4, <2>3 DEF Pending, Validated
    <3> QED
      BY <1>5, <2>3, <3>1 DEF Pending
  <2>4. \A p, o \in Editors : Pending(p)' /\ Pending(o)' => p = o
    BY <2>1, <2>3 DEF HostInv, NamesApart
  <2>5. ASSUME NEW o \in Editors, Pending(o)'
        PROVE  /\ editors'[o].row.host = NoName => editors'[o].row.aliases = {}
               /\ \A j \in Ids : j # editors'[o].id =>
                    HostsOf(editors'[o].row) \cap HostsOf(svcRows'[j]) = {}
    BY <1>6, <1>7, <2>1, <2>3, <2>5 DEF HostInv, NamesApart
  <2> QED
    BY <2>2, <2>4, <2>5 DEF NamesApart, HostsOf
<1>12. TargetsKept'
  <2> SUFFICES ASSUME ~ mixed' PROVE TargetsKept'
    BY DEF TargetsKept
  <2>1. ~ mixed /\ (entry.id # 0 => \A p \in Editors : editors[p].id # entry.id)
    BY <1>3
  <2>2. ASSUME NEW p \in Editors, NEW o \in Editors, editors'[p].id = editors'[o].id,
               editors'[p].id # 0
        PROVE  p = o
    <3>1. CASE p = e \/ o = e
      BY <1>2, <1>4, <1>5, <2>1, <2>2, <3>1
    <3>2. CASE p # e /\ o # e
      BY <1>5, <2>1, <2>2, <3>2 DEF HostInv, TargetsKept
    <3> QED
      BY <3>1, <3>2
  <2>3. ASSUME NEW i \in Ids PROVE Target(svcRows'[i]) \/ Halfway(i)'
    <3>1. CASE Halfway(i)
      <4>1. PICK o \in Editors : editors[o].id = i /\ editors[o].at = "aliases"
        BY <3>1 DEF Halfway
      <4>2. o # e
        BY <1>3, <4>1 DEF Editing
      <4>3. editors'[o].id = i /\ editors'[o].at = "aliases"
        BY <1>5, <4>1, <4>2
      <4> QED
        BY <4>3 DEF Halfway
    <3>2. CASE Target(svcRows[i])
      BY <1>6, <1>7, <3>2
    <3> QED
      BY <2>1, <3>1, <3>2 DEF HostInv, TargetsKept
  <2>4. ASSUME NEW o \in Editors, Pending(o)' PROVE Target(editors'[o].row)
    <3>1. o # e
      BY <1>2, <1>4, <2>4 DEF Pending, Validated
    <3>2. Pending(o) /\ editors'[o].row = editors[o].row
      BY <1>5, <2>4, <3>1 DEF Pending
    <3> QED
      BY <2>1, <3>2 DEF HostInv, TargetsKept
  <2>5. ASSUME NEW o \in Editors, NEW i \in Ids, i = editors'[o].id,
               editors'[o].at \in {"names", "aliases"}, svcRows'[i].here
        PROVE  svcRows'[i].host = editors'[o].row.host
    <3>1. svcRows'[i] = svcRows[i]
      BY <1>6, <1>7, <2>5
    <3>2. CASE o = e
      BY <1>2, <1>4, <2>5, <3>1, <3>2
    <3>3. CASE o # e
      <4>1. /\ i = editors[o].id /\ editors[o].at \in {"names", "aliases"} /\ svcRows[i].here
            /\ editors'[o].row = editors[o].row
        BY <1>5, <2>5, <3>1, <3>3
      <4>2. svcRows[i].host = editors[o].row.host
        BY <2>1, <4>1 DEF HostInv, TargetsKept
      <4> QED
        BY <3>1, <4>1, <4>2
    <3> QED
      BY <3>2, <3>3
  <2> QED
    BY <2>2, <2>3, <2>4, <2>5 DEF TargetsKept, Target, HostsOf, Halfway, Pending
<1> QED
  BY <1>8, <1>9, <1>10, <1>11, <1>12 DEF HostInv

LEMMA AddKept ==
  ASSUME HostInv, NEW e \in Editors, BeginAdd(e) PROVE HostInv'
<1>1. PICK h \in Hostnames \cup {NoName} :
        Begins(e, [NoEdit EXCEPT !.at = "add", !.row = Answering(h, {}, NoName)])
  BY DEF BeginAdd
<1>2. PICK r : r = Answering(h, {}, NoName)
  OBVIOUS
<1>3. PICK n : n = [NoEdit EXCEPT !.at = "add", !.row = r]
  OBVIOUS
<1>4. r \in SvcRows /\ r.here
  BY <1>2 DEF Answering, SvcRows
<1>5. n \in Edits /\ n.at = "add" /\ n.id = 0 /\ n.row = r
  BY <1>3, <1>4, Empties DEF Edits, NoEdit
<1>6. Begins(e, n) /\ UNCHANGED <<svcRows, lastId, svcList, owners, blind, revived>>
  BY <1>1, <1>2, <1>3 DEF BeginAdd
<1>7. Keyed(n) /\ n.id <= lastId
  BY <1>4, <1>5, EditKnown DEF Keyed
<1> QED
  BY <1>5, <1>6, <1>7, BeginsKept

\* An edit of a service that is there.
LEMMA EditKept ==
  ASSUME HostInv, NEW e \in Editors, NEW i \in Ids, svcRows[i].here, NEW r \in SvcRows, r.here,
         NEW n \in Edits, n.at \in {"names", "update"}, n.id = i, n.row = r, Begins(e, n),
         n.at = "names" => r.host = svcRows[i].host,
         UNCHANGED <<svcRows, lastId, svcList, owners, blind, revived>>
  PROVE  HostInv'
<1>1. MaxServices \in Nat
  BY EditKnown
<1>2. i \in Nat /\ i # 0
  BY <1>1 DEF Ids
<1>3. i <= lastId
  <2>1. ~ (i > lastId)
    BY DEF HostInv, KeysOnce, Gone
  <2> QED
    BY <1>2, <2>1, EditKnown
<1>4. Keyed(n)
  BY <1>2 DEF Keyed
<1> QED
  BY <1>2, <1>3, <1>4, BeginsKept

LEMMA NamesKept ==
  ASSUME HostInv, NEW e \in Editors, BeginHosts(e) PROVE HostInv'
<1>1. PICK i \in Ids, aliases \in SUBSET Hostnames, canonical \in Hostnames \cup {NoName} :
        /\ svcRows[i].here
        /\ Begins(e, [NoEdit EXCEPT !.at = "names", !.id = i,
                        !.row = Answering(svcRows[i].host, aliases, canonical)])
  BY DEF BeginHosts
<1>2. PICK r : r = Answering(svcRows[i].host, aliases, canonical)
  OBVIOUS
<1>3. PICK n : n = [NoEdit EXCEPT !.at = "names", !.id = i, !.row = r]
  OBVIOUS
<1>4. r \in SvcRows /\ r.here /\ r.host = svcRows[i].host
  BY <1>2, EditKnown DEF Answering, SvcRows
<1>5. n \in Edits /\ n.at = "names" /\ n.id = i /\ n.row = r
  <2>1. i \in 0 .. MaxServices
    BY EditKnown DEF Ids
  <2> QED
    BY <1>3, <1>4, <2>1, Empties DEF Edits, NoEdit
<1>6. Begins(e, n) /\ UNCHANGED <<svcRows, lastId, svcList, owners, blind, revived>>
  BY <1>1, <1>2, <1>3 DEF BeginHosts
<1> QED
  BY <1>1, <1>4, <1>5, <1>6, EditKept

LEMMA PayloadKept ==
  ASSUME HostInv, NEW e \in Editors, BeginUpdate(e) PROVE HostInv'
<1>1. PICK i \in Ids, host \in Hostnames \cup {NoName}, aliases \in SUBSET Hostnames,
           canonical \in Hostnames \cup {NoName} :
        /\ svcRows[i].here
        /\ Begins(e, [NoEdit EXCEPT !.at = "update", !.api = TRUE, !.id = i,
                        !.row = Answering(host, aliases, canonical)])
  BY DEF BeginUpdate
<1>2. PICK r : r = Answering(host, aliases, canonical)
  OBVIOUS
<1>3. PICK n : n = [NoEdit EXCEPT !.at = "update", !.api = TRUE, !.id = i, !.row = r]
  OBVIOUS
<1>4. r \in SvcRows /\ r.here
  BY <1>2 DEF Answering, SvcRows
<1>5. n \in Edits /\ n.at = "update" /\ n.id = i /\ n.row = r
  <2>1. i \in 0 .. MaxServices
    BY EditKnown DEF Ids
  <2> QED
    BY <1>3, <1>4, <2>1, Empties DEF Edits, NoEdit
<1>6. Begins(e, n) /\ UNCHANGED <<svcRows, lastId, svcList, owners, blind, revived>>
  BY <1>1, <1>2, <1>3 DEF BeginUpdate
<1> QED
  BY <1>1, <1>4, <1>5, <1>6, EditKept

LEMMA DeleteKept ==
  ASSUME HostInv, NEW e \in Editors, DeleteService(e) PROVE HostInv'
<1>1. PICK i \in Ids : /\ Begins(e, [NoEdit EXCEPT !.at = "list"])
                       /\ svcRows' = [svcRows EXCEPT ![i] = Gone]
  BY DEF DeleteService
<1>2. PICK n : n = [NoEdit EXCEPT !.at = "list"]
  OBVIOUS
<1>3. n \in Edits /\ n.at = "list" /\ n.id = 0
  BY <1>2, Empties DEF Edits, NoEdit
<1>4. Begins(e, n) /\ UNCHANGED <<lastId, svcList, owners, blind, revived>>
  BY <1>1, <1>2 DEF DeleteService
<1>5. Keyed(n) /\ n.id <= lastId
  BY <1>3, EditKnown DEF Keyed
<1> QED
  BY <1>1, <1>3, <1>4, <1>5, BeginsKept

LEMMA RegistryStartKept == HostInv /\ StartRegistry => HostInv'
<1> SUFFICES ASSUME HostInv, StartRegistry PROVE HostInv'
  OBVIOUS
<1>1. /\ UNCHANGED <<svcRows, lastId, blind, revived>> /\ svcList' = svcRows
      /\ owners' = Owners(svcRows) /\ hostsBehind' = FALSE
      /\ editors' = [e \in Editors |-> NoEdit]
      /\ mixed' = (mixed \/ \E e \in Editors : editors[e].at = "aliases")
  BY DEF StartRegistry
<1>2. \A e \in Editors : editors'[e] = NoEdit
  BY <1>1
<1>3. NoEdit.at = "idle" /\ NoEdit.id = 0
  BY DEF NoEdit
<1>4. lastId \in Nat
  BY HostsAssumption DEF HostInv, HostShape, HostsAssumption
<1>5. HostShape'
  <2>1. owners' = Owners(svcList)'
    BY <1>1 DEF Owners, Claims
  <2> QED
    BY <1>1, <2>1, Empties DEF HostInv, HostShape
<1>6. KeysOnce'
  <2>1. Keyed(NoEdit) /\ 0 <= lastId
    BY <1>3, <1>4 DEF Keyed
  <2> QED
    BY <1>1, <1>2, <1>3, <2>1 DEF HostInv, KeysOnce, Keyed
<1>7. AloneInForce'
  BY <1>1, <1>2, <1>3 DEF AloneInForce, Editing
<1>8. NamesApart'
  BY <1>1, <1>2, <1>3 DEF HostInv, NamesApart, Pending, Validated, HostsOf
<1>9. TargetsKept'
  <2> SUFFICES ASSUME ~ mixed' PROVE TargetsKept'
    BY DEF TargetsKept
  <2>1. ~ mixed /\ \A i \in Ids : ~ Halfway(i)
    BY <1>1 DEF Halfway
  <2>2. \A i \in Ids : Target(svcRows'[i])
    BY <1>1, <2>1 DEF HostInv, TargetsKept
  <2> QED
    BY <1>2, <1>3, <2>2 DEF TargetsKept, Pending, Validated, Target, HostsOf
<1> QED
  BY <1>5, <1>6, <1>7, <1>8, <1>9 DEF HostInv

LEMMA HostsInit == InitHosts => HostInv
<1> SUFFICES ASSUME InitHosts PROVE HostInv
  OBVIOUS
<1>1. PICK host \in Hostnames \cup {NoName}, canonical \in Hostnames \cup {NoName},
           aliases \in SUBSET Hostnames :
        svcRows = [NoServices EXCEPT ![1] = Answering(host, aliases, canonical)]
  BY DEF InitHosts
<1>2. /\ ValidateHosts(1, svcRows[1], svcRows) /\ lastId = 1
      /\ svcList = svcRows /\ owners = Owners(svcRows)
      /\ editors = [e \in Editors |-> NoEdit]
      /\ blind = FALSE /\ revived = FALSE /\ mixed = FALSE /\ hostsBehind = FALSE
  BY DEF InitHosts
<1>3. PICK r : r = Answering(host, aliases, canonical)
  OBVIOUS
<1>4. r \in SvcRows /\ r.here
  BY <1>3 DEF Answering, SvcRows
<1>5. MaxServices \in Nat \ {0} /\ Gone \in SvcRows /\ NoEdit \in Edits
  BY Empties, HostsAssumption DEF HostsAssumption
<1>6. /\ 1 \in Ids /\ svcRows[1] = r /\ \A i \in Ids : i # 1 => svcRows[i] = Gone
      /\ svcRows \in [Ids -> SvcRows]
  BY <1>1, <1>3, <1>4, <1>5 DEF NoServices, Ids
<1>7. \A e \in Editors : editors[e] = NoEdit
  BY <1>2
<1>8. NoEdit.at = "idle" /\ NoEdit.id = 0
  BY DEF NoEdit
<1>9. HostShape
  <2>1. editors \in [Editors -> Edits]
    BY <1>2, <1>5
  <2>2. lastId \in 0 .. MaxServices
    BY <1>2, <1>5
  <2> QED
    BY <1>2, <1>6, <2>1, <2>2 DEF HostShape
<1>10. KeysOnce
  <2>1. Keyed(NoEdit)
    BY <1>8 DEF Keyed
  <2>2. \A i \in Ids : i > 1 \/ ~ svcRows[i].here => svcRows[i] = Gone
    BY <1>4, <1>5, <1>6
  <2> QED
    BY <1>2, <1>7, <1>8, <2>1, <2>2 DEF KeysOnce
<1>11. AloneInForce
  BY <1>2, <1>7, <1>8 DEF AloneInForce, Editing
<1>12. NamesApart
  <2>1. HostsOf(Gone) = {}
    BY DEF Gone, HostsOf
  <2>2. \A i, j \in Ids : i # j => HostsOf(svcRows[i]) \cap HostsOf(svcRows[j]) = {}
    BY <1>6, <2>1
  <2> QED
    BY <1>7, <1>8, <2>2 DEF NamesApart, Pending, Validated
<1>13. TargetsKept
  <2>1. Target(Gone)
    BY DEF Gone, Target
  <2>2. Target(r)
    BY <1>2, <1>6 DEF ValidateHosts, Target
  <2>3. \A i \in Ids : Target(svcRows[i])
    BY <1>6, <2>1, <2>2
  <2> QED
    BY <1>7, <1>8, <2>3 DEF TargetsKept, Pending, Validated
<1> QED
  BY <1>9, <1>10, <1>11, <1>12, <1>13 DEF HostInv

LEMMA HostsNext == HostInv /\ [NextHosts]_hostVars => HostInv'
<1> SUFFICES ASSUME HostInv, [NextHosts]_hostVars PROVE HostInv'
  OBVIOUS
<1>1. CASE UNCHANGED hostVars
  <2>1. /\ UNCHANGED <<svcRows, lastId, svcList, owners, editors>>
        /\ UNCHANGED <<blind, revived, mixed, hostsBehind>>
    BY <1>1 DEF hostVars
  <2>2. HostShape'
    BY <2>1 DEF HostInv, HostShape, Owners, Claims
  <2>3. KeysOnce'
    BY <2>1 DEF HostInv, KeysOnce, Keyed
  <2>4. AloneInForce'
    BY <2>1 DEF HostInv, AloneInForce, Editing, Clean
  <2>5. NamesApart'
    BY <2>1 DEF HostInv, NamesApart, Pending, HostsOf
  <2>6. TargetsKept'
    BY <2>1 DEF HostInv, TargetsKept, Target, Halfway, Pending, HostsOf
  <2> QED
    BY <2>2, <2>3, <2>4, <2>5, <2>6 DEF HostInv
<1>2. ASSUME NEW e \in Editors,
             \/ BeginAdd(e) \/ BeginHosts(e) \/ BeginUpdate(e) \/ DeleteService(e)
             \/ Check(e) \/ CheckRefuses(e)
      PROVE  HostInv'
  BY <1>2, AddKept, NamesKept, PayloadKept, DeleteKept, CheckKept, QuietKept
<1>3. ASSUME NEW e \in Editors,
             \/ InsertService(e) \/ UpdateService(e) \/ SetServiceHosts(e)
             \/ TakesTheRest(e) \/ RefusesTheRest(e) \/ NamesFail(e)
      PROVE  HostInv'
  BY <1>3, InsertKept, UpdateKept, SetHostsKept, OnwardKept, QuietKept
<1>4. ASSUME NEW e \in Editors,
             \/ ReadServices(e) \/ ReadServicesFails(e) \/ Install(e)
      PROVE  HostInv'
  BY <1>4, OnwardKept, QuietKept, InstallKept
<1>5. CASE NextHosts
  BY <1>2, <1>3, <1>4, <1>5, RegistryStartKept DEF NextHosts
<1> QED
  BY <1>1, <1>5

\* The first of some services.
LEMMA FirstService ==
  ASSUME NEW S, S \subseteq Ids, S # {}
  PROVE  \E i \in S : \A j \in S : i <= j
<1>1. S \subseteq Nat
  BY HostsAssumption DEF Ids, HostsAssumption
<1>2. PICK i \in S : \A j \in S : ~ (<<j, i>> \in OpToRel(<, Nat))
  BY <1>1, NatLessThanWellFounded, WFMin
<1>3. ASSUME NEW j \in S PROVE ~ (j < i)
  BY <1>1, <1>2 DEF OpToRel
<1> QED
  BY <1>1, <1>3

\* The index gives a name to the first service that lists it.
LEMMA OwnersFirst ==
  ASSUME NEW list, NEW n \in Hostnames
  PROVE  /\ Claims(list, n) = {} => Owners(list)[n] = 0
         /\ Claims(list, n) # {} =>
              /\ Owners(list)[n] \in Claims(list, n)
              /\ \A j \in Claims(list, n) : Owners(list)[n] <= j
<1>1. CASE Claims(list, n) = {}
  BY <1>1 DEF Owners
<1>2. CASE Claims(list, n) # {}
  <2>1. Claims(list, n) \subseteq Ids
    BY DEF Claims
  <2>2. \E i \in Claims(list, n) : \A j \in Claims(list, n) : i <= j
    BY <1>2, <2>1, FirstService
  <2> QED
    BY <1>2, <2>2 DEF Owners
<1> QED
  BY <1>1, <1>2

LEMMA NamesHold == HostInv => NamesInForce
<1> SUFFICES ASSUME HostInv, ~ hostsBehind, \A e \in Editors : ~ Editing(e)
             PROVE  svcList = svcRows /\ owners = Owners(svcRows)
  BY DEF NamesInForce
<1>1. \A e \in Editors : Clean(e)
  BY DEF Editing, Clean, Unwritten
<1> QED
  BY <1>1 DEF HostInv, HostShape, AloneInForce

LEMMA OneClaim ==
  ASSUME HostInv, ~ blind, ~ revived, NEW n \in Hostnames
  PROVE  ~ (Cardinality(Claims(svcRows, n)) > 1)
<1>1. \A i, j \in Claims(svcRows, n) : i = j
  BY DEF HostInv, NamesApart, Claims
<1>2. CASE Claims(svcRows, n) = {}
  BY <1>2, FS_EmptySet
<1>3. CASE Claims(svcRows, n) # {}
  <2>1. PICK i : Claims(svcRows, n) = {i}
    BY <1>1, <1>3
  <2>2. Cardinality({i}) = 1
    BY FS_Singleton
  <2> QED
    BY <2>1, <2>2
<1> QED
  BY <1>2, <1>3

LEMMA RedirectsHold ==
  ASSUME HostInv, ~ mixed, ~ hostsBehind, \A e \in Editors : ~ Editing(e),
         NEW n \in Hostnames, NEW to, to = Redirect(svcList, owners, n), to # NoName
  PROVE  /\ owners[to] # 0
         /\ Redirect(svcList, owners, to) # NoName => owners[to] < owners[n]
<1>1. svcList = svcRows /\ owners = Owners(svcRows)
  BY NamesHold DEF NamesInForce
<1>2. PICK i : i = owners[n]
  OBVIOUS
<1>3. i # 0 /\ to = svcRows[i].canonical /\ to # n
  BY <1>1, <1>2 DEF Redirect
<1>4. i \in Claims(svcRows, n) /\ i \in Ids
  BY <1>1, <1>2, <1>3, OwnersFirst DEF Claims
<1>5. Target(svcRows[i])
  <2>1. ~ Halfway(i)
    BY DEF Halfway, Editing
  <2> QED
    BY <1>4, <2>1 DEF HostInv, TargetsKept
<1>6. to \in HostsOf(svcRows[i]) /\ svcRows[i] \in SvcRows
  BY <1>3, <1>4, <1>5 DEF Target, HostInv, HostShape
<1>7. to \in Hostnames /\ i \in Claims(svcRows, to)
  BY <1>4, <1>6 DEF HostsOf, SvcRows, Claims
<1>8. owners[to] \in Claims(svcRows, to) /\ owners[to] <= i
  BY <1>1, <1>7, OwnersFirst
<1>9. owners[to] \in Nat /\ owners[to] # 0 /\ i \in Nat
  BY <1>4, <1>8, HostsAssumption DEF Claims, Ids, HostsAssumption
<1>10. owners[to] = i => Redirect(svcList, owners, to) = NoName
  BY <1>1, <1>3 DEF Redirect
<1> QED
  BY <1>2, <1>8, <1>9, <1>10

\* Whatever handlers add, rename, remove and reload services at once: a name is
\* one service's unless names were checked blindly or came back with a host,
\* and a redirect is answered and ends.
THEOREM Names == SpecHosts => []NamesAreSound
<1>1. ASSUME HostInv PROVE NamesAreSound
  <2>1. OnlyBlindChecksShareNames
    BY <1>1, OneClaim DEF OnlyBlindChecksShareNames
  <2>2. RedirectsEnd
    BY <1>1, RedirectsHold DEF RedirectsEnd
  <2> QED
    BY <2>1, <2>2 DEF NamesAreSound
<1> QED
  BY <1>1, HostsInit, HostsNext, PTL DEF SpecHosts

\* -- GeoRules ----------------------------------------------------------------

GeoTable == [Scopes -> {"none", "block", "allow"}]
GeoWork == [at : {"idle", "read", "install", "list", "score"}, rows : GeoTable, alone : BOOLEAN]

GeoShape ==
  /\ geoRows \in GeoTable /\ geoBlocker \in GeoTable
  /\ geoRisk \in BOOLEAN /\ geoBehind \in BOOLEAN
  /\ geoCalls \in [GeoCalls -> GeoWork]

\* A handler that came alone and met no other is alone, has read the table as it
\* is, and once it is past the Blocker that has it too; while nothing is behind
\* every handler is such a one, and after the last both copies are the table.
GeoAlone ==
  /\ \A c \in GeoCalls : Serving(c) /\ geoCalls[c].alone =>
       /\ \A o \in GeoCalls : Serving(o) => o = c
       /\ geoCalls[c].at \in {"install", "score"} => geoCalls[c].rows = geoRows
       /\ geoCalls[c].at \in {"list", "score"} => geoBlocker = geoRows
  /\ ~ geoBehind =>
       /\ \A c \in GeoCalls : Serving(c) => geoCalls[c].alone
       /\ (\A c \in GeoCalls : ~ Serving(c)) =>
            geoBlocker = geoRows /\ geoRisk = RiskCountry(geoRows)

GeoInv == GeoShape /\ GeoAlone

LEMMA GeoEmpty == NoRules \in GeoTable /\ GeoIdle \in GeoWork /\ GeoIdle.at = "idle"
BY DEF NoRules, GeoTable, GeoIdle, GeoWork

LEMMA GeoStarts == InitGeo => GeoInv
<1> SUFFICES ASSUME InitGeo PROVE GeoInv
  OBVIOUS
<1>1. \A c \in GeoCalls : geoCalls[c] = GeoIdle
  BY DEF InitGeo
<1>2. GeoShape
  BY GeoEmpty DEF InitGeo, GeoShape
<1>3. RiskCountry(NoRules) = FALSE
  BY DEF RiskCountry, NoRules
<1> QED
  BY <1>1, <1>2, <1>3, GeoEmpty DEF InitGeo, GeoInv, GeoAlone, Serving

\* A handler goes on or ends.
LEMMA GeoMoves ==
  ASSUME GeoInv, NEW c \in GeoCalls, NEW n \in GeoWork, Serving(c),
         geoCalls' = [geoCalls EXCEPT ![c] = n], UNCHANGED geoRows,
         geoBlocker' \in GeoTable, geoRisk' \in BOOLEAN, geoBehind' \in BOOLEAN,
         n.at # "idle" /\ n.alone => /\ geoCalls[c].alone
                                     /\ n.at \in {"install", "score"} => n.rows = geoRows
                                     /\ n.at \in {"list", "score"} => geoBlocker' = geoRows,
         n.at # "idle" => (geoBehind => geoBehind') /\ (n.alone = geoCalls[c].alone \/ geoBehind'),
         n.at = "idle" => \/ geoBehind'
                          \/ /\ ~ geoBehind \/ geoCalls[c].alone
                             /\ geoBlocker' = geoRows /\ geoRisk' = RiskCountry(geoRows)
  PROVE  GeoInv'
<1>1. geoCalls'[c] = n /\ \A o \in GeoCalls : o # c => geoCalls'[o] = geoCalls[o]
  BY DEF GeoInv, GeoShape
<1>2. GeoShape'
  BY DEF GeoInv, GeoShape
<1>3. ASSUME NEW o \in GeoCalls, Serving(o)', geoCalls'[o].alone
      PROVE  /\ \A p \in GeoCalls : Serving(p)' => p = o
             /\ geoCalls'[o].at \in {"install", "score"} => geoCalls'[o].rows = geoRows'
             /\ geoCalls'[o].at \in {"list", "score"} => geoBlocker' = geoRows'
  <2>1. geoCalls[o].alone /\ Serving(o)
    BY <1>1, <1>3 DEF Serving
  <2>2. \A p \in GeoCalls : Serving(p) => p = o
    BY <2>1 DEF GeoInv, GeoAlone
  <2>3. o = c
    BY <2>2
  <2> QED
    BY <1>1, <1>3, <2>2, <2>3 DEF Serving
<1>4. ASSUME ~ geoBehind', NEW o \in GeoCalls, Serving(o)' PROVE geoCalls'[o].alone
  <2>1. CASE o = c
    <3>1. n.at # "idle"
      BY <1>1, <1>4, <2>1 DEF Serving
    <3>2. ~ geoBehind /\ n.alone = geoCalls[c].alone
      BY <1>4, <3>1
    <3>3. geoCalls[c].alone
      BY <3>2 DEF GeoInv, GeoAlone
    <3> QED
      BY <1>1, <2>1, <3>2, <3>3
  <2>2. CASE o # c
    <3>1. Serving(o) /\ geoCalls'[o] = geoCalls[o]
      BY <1>1, <1>4, <2>2 DEF Serving
    <3>2. ~ geoCalls[c].alone
      BY <2>2, <3>1 DEF GeoInv, GeoAlone
    <3>3. ~ geoBehind
      BY <1>4, <3>2
    <3> QED
      BY <3>1, <3>3 DEF GeoInv, GeoAlone
  <2> QED
    BY <2>1, <2>2
<1>5. ASSUME ~ geoBehind', \A o \in GeoCalls : ~ Serving(o)'
      PROVE  geoBlocker' = geoRows' /\ geoRisk' = RiskCountry(geoRows')
  <2>1. n.at = "idle"
    BY <1>1, <1>5 DEF Serving
  <2> QED
    BY <1>5, <2>1
<1> QED
  BY <1>2, <1>3, <1>4, <1>5 DEF GeoInv, GeoAlone, RiskCountry

LEMMA GeoChanges ==
  ASSUME GeoInv, NEW c \in GeoCalls, ChangeGeoRule(c) PROVE GeoInv'
<1>1. PICK n : n = [GeoIdle EXCEPT !.at = "read", !.alone = \A p \in GeoCalls : ~ Serving(p)]
  OBVIOUS
<1>2. n \in GeoWork /\ n.at = "read" /\ (n.alone <=> \A p \in GeoCalls : ~ Serving(p))
  BY <1>1, GeoEmpty DEF GeoIdle, GeoWork
<1>3. /\ geoCalls' = [o \in GeoCalls |-> IF o = c THEN n ELSE [geoCalls[o] EXCEPT !.alone = FALSE]]
      /\ geoBehind' = (geoBehind \/ \E p \in GeoCalls : Serving(p))
      /\ UNCHANGED <<geoBlocker, geoRisk>> /\ ~ Serving(c)
  BY <1>1 DEF ChangeGeoRule
<1>4. geoCalls'[c] = n
  BY <1>3
<1>5. ASSUME NEW o \in GeoCalls, o # c
      PROVE  geoCalls'[o] \in GeoWork /\ geoCalls'[o].at = geoCalls[o].at /\ geoCalls'[o].alone = FALSE
  <2>1. PICK m : m = geoCalls[o]
    OBVIOUS
  <2>2. m \in GeoWork /\ geoCalls'[o] = [m EXCEPT !.alone = FALSE]
    BY <1>3, <1>5, <2>1 DEF GeoInv, GeoShape
  <2> QED
    BY <2>1, <2>2 DEF GeoWork
<1>6. geoRows' \in GeoTable
  BY DEF ChangeGeoRule, GeoInv, GeoShape, GeoTable
<1>7. GeoShape'
  <2>1. geoCalls' \in [GeoCalls -> GeoWork]
    BY <1>2, <1>3, <1>4, <1>5
  <2> QED
    BY <1>3, <1>6, <2>1 DEF GeoInv, GeoShape
<1>8. ASSUME NEW o \in GeoCalls, Serving(o)', geoCalls'[o].alone
      PROVE  o = c /\ \A p \in GeoCalls : Serving(p)' => p = c
  <2>1. o = c
    BY <1>5, <1>8
  <2>2. \A p \in GeoCalls : ~ Serving(p)
    BY <1>2, <1>4, <1>8, <2>1
  <2> QED
    BY <1>5, <2>1, <2>2 DEF Serving
<1>9. ASSUME ~ geoBehind', NEW o \in GeoCalls, Serving(o)' PROVE geoCalls'[o].alone
  <2>1. \A p \in GeoCalls : ~ Serving(p)
    BY <1>3, <1>9
  <2>2. o = c
    BY <1>5, <1>9, <2>1 DEF Serving
  <2> QED
    BY <1>2, <1>4, <2>1, <2>2
<1>10. Serving(c)' /\ geoCalls'[c].at = "read"
  BY <1>2, <1>4 DEF Serving
<1>11. GeoAlone'
  <2>1. ASSUME NEW o \in GeoCalls, Serving(o)', geoCalls'[o].alone
        PROVE  /\ \A p \in GeoCalls : Serving(p)' => p = o
               /\ geoCalls'[o].at = "read"
    BY <1>8, <1>10, <2>1
  <2> QED
    BY <1>9, <1>10, <2>1 DEF GeoAlone
<1> QED
  BY <1>7, <1>11 DEF GeoInv

LEMMA GeoGoesOn ==
  ASSUME GeoInv, NEW c \in GeoCalls,
         \/ ListGeoRules(c) \/ ReloadBlocker(c) \/ ReloadGeoRules(c) \/ GeoReadFails(c)
  PROVE  GeoInv'
<1>1. PICK m : m = geoCalls[c]
  OBVIOUS
<1>2. /\ m \in GeoWork /\ m.rows \in GeoTable /\ geoRows \in GeoTable /\ geoBlocker \in GeoTable
      /\ geoRisk \in BOOLEAN /\ geoBehind \in BOOLEAN
  BY <1>1 DEF GeoInv, GeoShape, GeoWork
<1>3. Serving(c) /\ UNCHANGED geoRows
  BY DEF ListGeoRules, ReloadBlocker, ReloadGeoRules, GeoReadFails, Serving
<1>4. m.alone => /\ m.at \in {"install", "score"} => m.rows = geoRows
                 /\ m.at \in {"list", "score"} => geoBlocker = geoRows
  BY <1>1, <1>3 DEF GeoInv, GeoAlone
<1>5. ~ geoBehind => m.alone
  BY <1>1, <1>3 DEF GeoInv, GeoAlone
<1>6. CASE ListGeoRules(c)
  <2>1. PICK n : n = [m EXCEPT !.at = IF @ = "read" THEN "install" ELSE "score", !.rows = geoRows]
    OBVIOUS
  <2>2. geoCalls' = [geoCalls EXCEPT ![c] = n] /\ m.at \in {"read", "list"}
        /\ UNCHANGED <<geoBlocker, geoRisk, geoBehind>>
    BY <1>1, <1>6, <2>1 DEF ListGeoRules
  <2>3. /\ n \in GeoWork /\ n.rows = geoRows /\ n.alone = m.alone
        /\ n.at = IF m.at = "read" THEN "install" ELSE "score"
    BY <1>2, <2>1 DEF GeoWork
  <2>4. n.at # "idle" /\ (n.at \in {"list", "score"} => m.at = "list")
    BY <2>2, <2>3
  <2> QED
    BY <1>1, <1>2, <1>3, <1>4, <2>2, <2>3, <2>4, GeoMoves
<1>7. CASE ReloadBlocker(c)
  <2>1. PICK n : n = [m EXCEPT !.at = "list"]
    OBVIOUS
  <2>2. /\ geoCalls' = [geoCalls EXCEPT ![c] = n] /\ m.at = "install"
        /\ geoBlocker' = m.rows /\ UNCHANGED <<geoRisk, geoBehind>>
    BY <1>1, <1>7, <2>1 DEF ReloadBlocker
  <2>3. n \in GeoWork /\ n.alone = m.alone /\ n.at = "list"
    BY <1>2, <2>1 DEF GeoWork
  <2>4. m.alone => geoBlocker' = geoRows
    BY <1>4, <2>2
  <2> QED
    BY <1>1, <1>2, <1>3, <2>2, <2>3, <2>4, GeoMoves
<1>8. CASE ReloadGeoRules(c)
  <2>1. PICK n : n = GeoIdle
    OBVIOUS
  <2>2. /\ geoCalls' = [geoCalls EXCEPT ![c] = n] /\ m.at = "score" /\ n \in GeoWork /\ n.at = "idle"
        /\ geoRisk' = RiskCountry(m.rows) /\ UNCHANGED geoBlocker
        /\ geoBehind' = (geoBehind /\ ~ m.alone)
    BY <1>1, <1>8, <2>1, GeoEmpty DEF ReloadGeoRules
  <2>3. geoRisk' \in BOOLEAN /\ geoBehind' \in BOOLEAN
    BY <1>2, <2>2 DEF RiskCountry
  <2>4. m.alone => geoBlocker' = geoRows /\ geoRisk' = RiskCountry(geoRows)
    BY <1>4, <2>2
  <2>5. m.alone \/ geoBehind'
    BY <1>2, <1>5, <2>2
  <2> QED
    BY <1>1, <1>2, <1>3, <2>2, <2>3, <2>4, <2>5, GeoMoves
<1>9. CASE GeoReadFails(c) /\ m.at = "read"
  <2>1. PICK n : n = GeoIdle
    OBVIOUS
  <2>2. /\ geoCalls' = [geoCalls EXCEPT ![c] = n] /\ n \in GeoWork /\ n.at = "idle"
        /\ UNCHANGED <<geoBlocker, geoRisk>> /\ geoBehind' = TRUE
    BY <1>1, <1>9, <2>1, GeoEmpty DEF GeoReadFails
  <2> QED
    BY <1>2, <1>3, <2>2, GeoMoves
<1>10. CASE GeoReadFails(c) /\ m.at # "read"
  <2>1. PICK n : n = [m EXCEPT !.at = "score", !.rows = NoRules, !.alone = FALSE]
    OBVIOUS
  <2>2. /\ geoCalls' = [geoCalls EXCEPT ![c] = n]
        /\ UNCHANGED <<geoBlocker, geoRisk>> /\ geoBehind' = TRUE
    BY <1>1, <1>10, <2>1 DEF GeoReadFails
  <2>3. n \in GeoWork /\ n.at = "score" /\ n.alone = FALSE
    BY <1>2, <2>1, GeoEmpty DEF GeoWork
  <2> QED
    BY <1>2, <1>3, <2>2, <2>3, GeoMoves
<1> QED
  BY <1>6, <1>7, <1>8, <1>9, <1>10

LEMMA GeoRestarts == GeoInv /\ StartGeo => GeoInv'
<1> SUFFICES ASSUME GeoInv, StartGeo PROVE GeoInv'
  OBVIOUS
<1>1. /\ UNCHANGED geoRows /\ geoBlocker' = geoRows /\ geoRisk' = RiskCountry(geoRows)
      /\ geoCalls' = [c \in GeoCalls |-> GeoIdle] /\ geoBehind' = FALSE
  BY DEF StartGeo
<1>2. \A c \in GeoCalls : geoCalls'[c] = GeoIdle
  BY <1>1
<1>3. GeoShape'
  <2>1. RiskCountry(geoRows) \in BOOLEAN
    BY DEF RiskCountry
  <2> QED
    BY <1>1, <2>1, GeoEmpty DEF GeoInv, GeoShape
<1> QED
  BY <1>1, <1>2, <1>3, GeoEmpty DEF GeoInv, GeoAlone, Serving, RiskCountry

LEMMA GeoNext == GeoInv /\ [NextGeo]_geoVars => GeoInv'
<1> SUFFICES ASSUME GeoInv, [NextGeo]_geoVars PROVE GeoInv'
  OBVIOUS
<1>1. CASE UNCHANGED geoVars
  BY <1>1 DEF geoVars, GeoInv, GeoShape, GeoAlone, Serving, RiskCountry
<1>2. CASE NextGeo
  BY <1>2, GeoChanges, GeoGoesOn, GeoRestarts DEF NextGeo
<1> QED
  BY <1>1, <1>2

LEMMA GeoHold == GeoInv => TypeOKGeo /\ GeoFollowsTable
<1> SUFFICES ASSUME GeoInv PROVE TypeOKGeo /\ GeoFollowsTable
  OBVIOUS
<1>1. TypeOKGeo
  BY DEF GeoInv, GeoShape, GeoTable, GeoWork, TypeOKGeo
<1>2. GeoFollowsTable
  BY DEF GeoInv, GeoAlone, GeoFollowsTable
<1> QED
  BY <1>1, <1>2

LEMMA HostsTyped == HostInv => TypeOKHosts
<1> SUFFICES ASSUME HostInv PROVE TypeOKHosts
  OBVIOUS
<1>1. ASSUME NEW i \in Ids PROVE HostsOf(svcRows[i]) \subseteq Hostnames
  <2>1. svcRows[i] \in SvcRows
    BY DEF HostInv, HostShape
  <2> QED
    BY <2>1 DEF HostsOf, SvcRows
<1>2. owners \in [Hostnames -> 0 .. MaxServices]
  <2>1. owners = Owners(svcList)
    BY DEF HostInv, HostShape
  <2>2. ASSUME NEW n \in Hostnames PROVE Owners(svcList)[n] \in 0 .. MaxServices
    <3>1. Claims(svcList, n) \subseteq 0 .. MaxServices /\ 0 \in 0 .. MaxServices
      BY HostsAssumption DEF Claims, Ids
    <3>2. Owners(svcList)[n] \in Claims(svcList, n) \cup {0}
      BY OwnersFirst
    <3> QED
      BY <3>1, <3>2
  <2>3. Owners(svcList) \in [Hostnames -> 0 .. MaxServices]
    BY <2>2 DEF Owners
  <2> QED
    BY <2>1, <2>3
<1>3. \A e \in Editors : editors[e].id \in 0 .. MaxServices
  BY DEF HostInv, HostShape, Edits
<1> QED
  BY <1>1, <1>2, <1>3 DEF TypeOKHosts

\* -- LiveLog -----------------------------------------------------------------

Channels == [rows : Seq(Rows), open : BOOLEAN]
Links == [at : {"off", "on", "leaving", "seen", "count"}, read : BOOLEAN, upTo : Nat]
Views == [at : {"hidden", "seeding", "seeded", "counting"}, seed : SUBSET Rows, max : Nat,
          pending : SUBSET Rows, counted : [Rows -> Nat]]
Bells == [count : Int, badge : Int, mark : {"idle", "sent", "answered"}]

LiveShape ==
  /\ stream \in {"stats", "bell"}
  /\ made \in 0 .. MaxRows /\ waiting \in Seq(Rows)
  /\ table \in SUBSET Rows /\ pushing \in table \cup {0}
  /\ subs \in SUBSET Conns
  /\ chans \in [Conns -> Channels] /\ conns \in [Conns -> Links]
  /\ view \in Views /\ bell \in Bells /\ seenUpTo \in Nat
  /\ alone \in BOOLEAN /\ muddled \in BOOLEAN

\* Rows wait in the order of their requests, the stored ones came before.
RowsLineUp ==
  /\ Len(waiting) <= made
  /\ \A i \in 1 .. Len(waiting) : waiting[i] = made - Len(waiting) + i
  /\ \A r \in table : r <= made - Len(waiting)

\* A channel of the set is open and its handler there; a browser reads one
\* stream; a channel holds stored rows, none twice and none still to be sent.
ChannelsSound ==
  /\ \A c \in subs : chans[c].open /\ conns[c].at \in {"on", "seen", "count"}
  /\ \A c, d \in Live : c = d
  /\ \A c \in Live : conns[c].at \in {"on", "seen", "count"}
  /\ \A c \in Conns : \A i \in 1 .. Len(chans[c].rows) :
       /\ chans[c].rows[i] \in table \ {pushing}
       /\ \A j \in 1 .. Len(chans[c].rows) : chans[c].rows[i] = chans[c].rows[j] => i = j

\* A row that the browser may yet be sent.
Coming(r) == r = pushing \/ \E c \in Live : r \in RowsIn(chans[c].rows)

\* The seed is the rows up to its newest; what was counted beyond it, or waits
\* for it, is sent no more; and every row is counted, lost or to be sent.
ViewSound ==
  /\ stream = "bell" => view.at = "hidden"
  /\ view.at # "counting" => view.max = 0 /\ \A r \in Rows : view.counted[r] = 0
  /\ view.at = "hidden" => view.pending = {}
  /\ \A r \in view.pending : r \in table /\ ~ Coming(r)
  /\ \A q \in view.seed : q \in table /\ \A r \in table : r <= q => r \in view.seed
  /\ view.at = "seeded" =>
       \A r \in table : r \in view.seed \cup view.pending \cup missed \/ Coming(r)
  /\ view.at = "counting" =>
       /\ view.max \in table \cup {0}
       /\ \A r \in Rows :
            /\ view.counted[r] \in {0, 1}
            /\ view.counted[r] = 1 => r \in table /\ (r > view.max => ~ Coming(r))
            /\ r \in table /\ r <= view.max => view.counted[r] = 1
            /\ r \in table => view.counted[r] = 1 \/ r \in missed \/ Coming(r)

\* No blocked row and no count is on its way to the browser.
NoneComing ==
  /\ \A r \in table \cap BlockedRows : ~ Coming(r)
  /\ \A c \in Live : conns[c].at \notin {"seen", "count"}

\* The badge, or the count on its way to it, is what the table says, unless
\* rows are on their way; a mark leaves no unread row before its answer.
BellSound ==
  stream = "bell" =>
    /\ alone => bell.mark = "idle"
    /\ ~ muddled /\ bell.count = NoCount /\ NoneComing =>
         /\ bell.mark = "idle" => bell.badge = Unread(seenUpTo)
         /\ bell.mark = "answered" => Unread(seenUpTo) = 0
    /\ alone /\ bell.count # NoCount /\ NoneComing => bell.count = Unread(seenUpTo)
    /\ \A c \in Live : alone /\ conns[c].at = "count" => conns[c].upTo = seenUpTo

LiveInv == LiveShape /\ RowsLineUp /\ ChannelsSound /\ ViewSound /\ BellSound

\* A count of rows is no "none".
LEMMA UnreadKnown ==
  ASSUME LiveShape, NEW n PROVE Unread(n) \in Nat /\ Unread(n) # NoCount
<1>1. IsFiniteSet(Rows)
  BY FS_Interval, LiveAssumption DEF Rows
<1>2. {r \in table \cap BlockedRows : r > n} \subseteq Rows
  BY DEF LiveShape
<1>3. IsFiniteSet({r \in table \cap BlockedRows : r > n})
  BY <1>1, <1>2, FS_Subset
<1>4. Unread(n) \in Nat
  BY <1>3, FS_CardinalityType DEF Unread
<1> QED
  BY <1>4 DEF NoCount

LEMMA LiveStarts == InitLive => LiveInv
<1> SUFFICES ASSUME InitLive PROVE LiveInv
  OBVIOUS
<1>1. \A c \in Conns : /\ chans[c].rows = << >> /\ conns[c].at = "off"
                       /\ conns[c].read = FALSE
  BY DEF InitLive, Shut, Unconnected
<1>2. Live = {}
  BY <1>1 DEF Live
<1>3. << >> \in Seq(Rows) /\ Len(<< >>) = 0 /\ [r \in Rows |-> 0] \in [Rows -> Nat]
  OBVIOUS
<1>4. LiveShape
  <2>1. waiting \in Seq(Rows) /\ 0 \in 0 .. MaxRows
    BY <1>3, LiveAssumption DEF InitLive
  <2>2. chans \in [Conns -> Channels]
    BY <1>3 DEF InitLive, Shut, Channels
  <2>3. conns \in [Conns -> Links]
    BY DEF InitLive, Unconnected, Links
  <2>4. view \in Views
    BY <1>3 DEF InitLive, Views
  <2>5. bell \in Bells
    BY DEF InitLive, Bells, NoCount
  <2> QED
    BY <2>1, <2>2, <2>3, <2>4, <2>5 DEF InitLive, LiveShape
<1>5. RowsLineUp
  BY <1>3 DEF InitLive, RowsLineUp
<1>6. ChannelsSound
  BY <1>1, <1>2, <1>3 DEF InitLive, ChannelsSound
<1>7. ViewSound
  BY <1>2 DEF InitLive, ViewSound
<1>8. BellSound
  <2>1. {r \in table \cap BlockedRows : r > seenUpTo} = {}
    BY DEF InitLive
  <2>2. Unread(seenUpTo) = 0
    BY <2>1, FS_EmptySet DEF Unread
  <2> QED
    BY <1>2, <2>2 DEF InitLive, BellSound, NoCount
<1> QED
  BY <1>4, <1>5, <1>6, <1>7, <1>8 DEF LiveInv

\* A step that is not the view's own.
LEMMA ViewStays ==
  ASSUME LiveInv, UNCHANGED <<stream, table, view>>,
         \A r \in missed : r \in missed',
         \A r \in Rows : Coming(r)' => Coming(r),
         \A r \in table : Coming(r) => Coming(r)' \/ r \in missed' \/ view.at = "hidden"
  PROVE  ViewSound'
<1>1. table \in SUBSET Rows /\ view.pending \in SUBSET Rows
  BY DEF LiveInv, LiveShape, Views
<1>2. view.at = "seeded" =>
        \A r \in table : r \in view.seed \cup view.pending \cup missed' \/ Coming(r)'
  BY DEF LiveInv, ViewSound
<1>3. view.at = "counting" =>
       /\ view.max \in table \cup {0}
       /\ \A r \in Rows :
            /\ view.counted[r] \in {0, 1}
            /\ view.counted[r] = 1 => r \in table /\ (r > view.max => ~ Coming(r)')
            /\ r \in table /\ r <= view.max => view.counted[r] = 1
            /\ r \in table => view.counted[r] = 1 \/ r \in missed' \/ Coming(r)'
  BY DEF LiveInv, ViewSound
<1>4. \A r \in view.pending : r \in table /\ ~ Coming(r)'
  BY <1>1 DEF LiveInv, ViewSound
<1>5. /\ stream = "bell" => view.at = "hidden"
      /\ view.at # "counting" => view.max = 0 /\ \A r \in Rows : view.counted[r] = 0
      /\ view.at = "hidden" => view.pending = {}
      /\ \A q \in view.seed : q \in table /\ \A r \in table : r <= q => r \in view.seed
  BY DEF LiveInv, ViewSound
<1> HIDE DEF Coming
<1> QED
  BY <1>2, <1>3, <1>4, <1>5 DEF ViewSound

\* A step that neither counts nor marks.
LEMMA BellStays ==
  ASSUME LiveInv, UNCHANGED <<stream, table, seenUpTo, bell>>,
         alone' => alone, muddled => muddled',
         NoneComing' => NoneComing \/ stream = "stats" \/ (muddled' /\ ~ alone'),
         \A c \in Live' : conns'[c].at = "count" =>
           c \in Live /\ conns[c].at = "count" /\ conns'[c].upTo = conns[c].upTo
  PROVE  BellSound'
<1>1. \A n : Unread(n)' = Unread(n)
  BY DEF Unread
<1> HIDE DEF NoneComing
<1> QED
  BY <1>1 DEF LiveInv, BellSound

\* What the rows of a channel are.
LEMMA RowsOf ==
  ASSUME NEW s \in Seq(Rows)
  PROVE  RowsIn(s) = {s[i] : i \in 1 .. Len(s)}
BY DEF RowsIn

LEMMA RowsTaken ==
  ASSUME NEW s \in Seq(Rows), s # << >>,
         \A i, j \in 1 .. Len(s) : s[i] = s[j] => i = j
  PROVE  /\ Tail(s) \in Seq(Rows) /\ Head(s) \in RowsIn(s)
         /\ RowsIn(Tail(s)) = RowsIn(s) \ {Head(s)}
         /\ \A i \in 1 .. Len(Tail(s)) : Tail(s)[i] \in RowsIn(s)
         /\ \A i, j \in 1 .. Len(Tail(s)) : Tail(s)[i] = Tail(s)[j] => i = j
<1>1. /\ Tail(s) \in Seq(Rows) /\ Len(Tail(s)) = Len(s) - 1 /\ Head(s) = s[1]
      /\ \A i \in 1 .. Len(s) - 1 : Tail(s)[i] = s[i + 1]
      /\ Len(s) \in Nat \ {0}
  OBVIOUS
<1>2. RowsIn(Tail(s)) = {Tail(s)[i] : i \in 1 .. Len(s) - 1}
  BY <1>1, RowsOf
<1>3. RowsIn(s) = {s[i] : i \in 1 .. Len(s)}
  BY RowsOf
<1>4. ASSUME NEW r PROVE r \in RowsIn(Tail(s)) <=> r \in RowsIn(s) /\ r # Head(s)
  <2>1. ASSUME r \in RowsIn(Tail(s)) PROVE r \in RowsIn(s) /\ r # Head(s)
    <3>1. PICK i \in 1 .. Len(s) - 1 : r = s[i + 1]
      BY <1>1, <1>2, <2>1
    <3>2. i + 1 \in 1 .. Len(s) /\ 1 \in 1 .. Len(s) /\ i + 1 # 1
      BY <1>1
    <3> QED
      BY <1>1, <1>3, <3>1, <3>2
  <2>2. ASSUME r \in RowsIn(s), r # Head(s) PROVE r \in RowsIn(Tail(s))
    <3>1. PICK i \in 1 .. Len(s) : r = s[i]
      BY <1>3, <2>2
    <3>2. i - 1 \in 1 .. Len(s) - 1 /\ s[(i - 1) + 1] = s[i]
      BY <1>1, <2>2, <3>1
    <3> QED
      BY <1>1, <1>2, <3>1, <3>2
  <2> QED
    BY <2>1, <2>2
<1>5. \A i \in 1 .. Len(Tail(s)) : Tail(s)[i] \in RowsIn(s)
  <2> TAKE i \in 1 .. Len(Tail(s))
  <2>1. i + 1 \in 1 .. Len(s) /\ Tail(s)[i] = s[i + 1]
    BY <1>1
  <2> QED
    BY <1>3, <2>1
<1>6. \A i, j \in 1 .. Len(Tail(s)) : Tail(s)[i] = Tail(s)[j] => i = j
  <2> TAKE i, j \in 1 .. Len(Tail(s))
  <2>1. i + 1 \in 1 .. Len(s) /\ j + 1 \in 1 .. Len(s)
        /\ Tail(s)[i] = s[i + 1] /\ Tail(s)[j] = s[j + 1]
    BY <1>1
  <2> QED
    BY <2>1
<1>7. Head(s) \in RowsIn(s)
  BY <1>1, <1>3
<1> QED
  BY <1>1, <1>4, <1>5, <1>6, <1>7

\* Whether rows are on their way hangs on the row to be sent and on the
\* channels that are read.
LEMMA ComingSame ==
  ASSUME pushing' = pushing, Live' = Live, \A c \in Live : chans'[c].rows = chans[c].rows
  PROVE  \A r : Coming(r)' <=> Coming(r)
BY DEF Coming

LEMMA NoneSame ==
  ASSUME UNCHANGED <<pushing, table>>, Live' = Live,
         \A c \in Live : chans'[c].rows = chans[c].rows /\ conns'[c].at = conns[c].at
  PROVE  NoneComing' <=> NoneComing
<1>1. \A r : Coming(r)' <=> Coming(r)
  BY ComingSame
<1> HIDE DEF Coming
<1> QED
  BY <1>1 DEF NoneComing

LEMMA RequestKept == LiveInv /\ Request => LiveInv'
<1> SUFFICES ASSUME LiveInv, Request PROVE LiveInv'
  OBVIOUS
<1>1. /\ made < MaxRows /\ made' = made + 1 /\ waiting' = Append(waiting, made + 1)
      /\ UNCHANGED <<stream, table, pushing, subs, chans, conns, view, missed>>
      /\ UNCHANGED <<seenUpTo, bell, alone, muddled>>
  BY DEF Request, linkVars, viewVars, bellVars
<1>2. waiting \in Seq(Rows) /\ made \in 0 .. MaxRows
  BY DEF LiveInv, LiveShape
<1>3. made' \in 0 .. MaxRows /\ made + 1 \in Rows
  BY <1>1, <1>2, LiveAssumption DEF Rows
<1>4. /\ waiting' \in Seq(Rows) /\ Len(waiting') = Len(waiting) + 1 /\ Len(waiting) \in Nat
      /\ \A i \in 1 .. Len(waiting) : waiting'[i] = waiting[i]
      /\ waiting'[Len(waiting) + 1] = made + 1
  BY <1>1, <1>2, <1>3
<1>5. LiveShape'
  BY <1>1, <1>3, <1>4 DEF LiveInv, LiveShape
<1>6. RowsLineUp'
  <2>1. Len(waiting') <= made' /\ made' - Len(waiting') = made - Len(waiting)
    BY <1>1, <1>2, <1>4 DEF LiveInv, RowsLineUp
  <2>2. \A i \in 1 .. Len(waiting') : waiting'[i] = made' - Len(waiting') + i
    BY <1>1, <1>2, <1>4, <2>1 DEF LiveInv, RowsLineUp
  <2> QED
    BY <1>1, <2>1, <2>2 DEF LiveInv, RowsLineUp
<1>7. Live' = Live
  BY <1>1 DEF Live
<1>8. ChannelsSound'
  BY <1>1, <1>7 DEF LiveInv, ChannelsSound
<1>9. \A r : Coming(r)' <=> Coming(r)
  BY <1>1, <1>7, ComingSame
<1>10. ViewSound'
  BY <1>1, <1>9, ViewStays
<1>11. BellSound'
  BY <1>1, <1>7, NoneSame, BellStays
<1> QED
  BY <1>5, <1>6, <1>8, <1>10, <1>11 DEF LiveInv

\* What is taken from the queue is newer than every stored row.
LEMMA HeadIsNew ==
  ASSUME LiveInv, waiting # << >>
  PROVE  /\ Head(waiting) \in Rows /\ \A r \in table : r < Head(waiting)
         /\ Tail(waiting) \in Seq(Rows) /\ Len(Tail(waiting)) <= made
         /\ \A i \in 1 .. Len(Tail(waiting)) : Tail(waiting)[i] = made - Len(Tail(waiting)) + i
         /\ \A r \in table \cup {Head(waiting)} : r <= made - Len(Tail(waiting))
<1>1. waiting \in Seq(Rows) /\ made \in 0 .. MaxRows /\ table \in SUBSET Rows
  BY DEF LiveInv, LiveShape
<1>2. /\ Tail(waiting) \in Seq(Rows) /\ Len(Tail(waiting)) = Len(waiting) - 1
      /\ Head(waiting) = waiting[1] /\ Len(waiting) \in Nat \ {0} /\ Head(waiting) \in Rows
      /\ \A i \in 1 .. Len(waiting) - 1 : Tail(waiting)[i] = waiting[i + 1]
  BY <1>1
<1>3. Head(waiting) = made - Len(waiting) + 1
  BY <1>1, <1>2 DEF LiveInv, RowsLineUp
<1>4. \A r \in table : r < Head(waiting)
  BY <1>1, <1>2, <1>3 DEF LiveInv, RowsLineUp, Rows
<1>5. Len(Tail(waiting)) <= made /\ made - Len(Tail(waiting)) = Head(waiting)
  BY <1>1, <1>2, <1>3 DEF LiveInv, RowsLineUp
<1>6. \A i \in 1 .. Len(Tail(waiting)) : Tail(waiting)[i] = made - Len(Tail(waiting)) + i
  BY <1>1, <1>2 DEF LiveInv, RowsLineUp
<1>7. \A r \in table \cup {Head(waiting)} : r <= made - Len(Tail(waiting))
  BY <1>1, <1>2, <1>4, <1>5 DEF Rows
<1> QED
  BY <1>2, <1>4, <1>5, <1>6, <1>7

LEMMA InsertRowKept == LiveInv /\ InsertRow => LiveInv'
<1> SUFFICES ASSUME LiveInv, InsertRow PROVE LiveInv'
  OBVIOUS
<1> DEFINE h == Head(waiting)
<1>1. /\ waiting # << >> /\ pushing = 0 /\ waiting' = Tail(waiting)
      /\ table' = table \cup {h} /\ pushing' = h
      /\ UNCHANGED <<stream, made, subs, chans, conns, view, missed>>
      /\ UNCHANGED <<seenUpTo, bell, alone, muddled>>
  BY DEF InsertRow, linkVars, viewVars, bellVars
<1>2. h \in Rows /\ (\A r \in table : r < h) /\ h \notin table /\ h # 0
  BY <1>1, HeadIsNew DEF LiveInv, LiveShape, Rows
<1>3. LiveShape'
  BY <1>1, <1>2, HeadIsNew DEF LiveInv, LiveShape
<1>4. RowsLineUp'
  BY <1>1, HeadIsNew DEF RowsLineUp
<1> HIDE DEF h
<1>5. Live' = Live
  BY <1>1 DEF Live
<1>6. ChannelsSound'
  BY <1>1, <1>2, <1>5 DEF LiveInv, ChannelsSound
<1>7. ~ Coming(h) /\ \A r \in Rows : Coming(r)' <=> r = h \/ Coming(r)
  <2>1. \A r \in Rows : Coming(r)' <=> r = h \/ Coming(r)
    BY <1>1, <1>5 DEF Coming, Rows
  <2>2. \A c \in Conns : h \notin RowsIn(chans[c].rows)
    <3> TAKE c \in Conns
    <3>1. chans[c].rows \in Seq(Rows)
      BY DEF LiveInv, LiveShape, Channels
    <3> QED
      BY <1>2, <3>1, RowsOf DEF LiveInv, ChannelsSound
  <2>3. ~ Coming(h)
    BY <1>1, <1>2, <2>2 DEF Coming, Live
  <2> QED
    BY <2>1, <2>3
<1>8. ViewSound'
  <2>1. view \in Views /\ table \in SUBSET Rows
    BY DEF LiveInv, LiveShape
  <2>2. \A r \in view.pending : r \in table' /\ ~ Coming(r)'
    BY <1>1, <1>2, <1>7, <2>1 DEF LiveInv, ViewSound, Views
  <2>3. \A q \in view.seed : q \in table' /\ \A r \in table' : r <= q => r \in view.seed
    BY <1>1, <1>2, <2>1 DEF LiveInv, ViewSound, Views, Rows
  <2>4. view.at = "seeded" =>
          \A r \in table' : r \in view.seed \cup view.pending \cup missed \/ Coming(r)'
    BY <1>1, <1>2, <1>7, <2>1 DEF LiveInv, ViewSound
  <2>5. view.at = "counting" =>
         /\ view.max \in table' \cup {0}
         /\ \A r \in Rows :
              /\ view.counted[r] \in {0, 1}
              /\ view.counted[r] = 1 => r \in table' /\ (r > view.max => ~ Coming(r)')
              /\ r \in table' /\ r <= view.max => view.counted[r] = 1
              /\ r \in table' => view.counted[r] = 1 \/ r \in missed \/ Coming(r)'
    <3> SUFFICES ASSUME view.at = "counting"
                 PROVE  /\ view.max \in table' \cup {0}
                        /\ \A r \in Rows :
                             /\ view.counted[r] \in {0, 1}
                             /\ view.counted[r] = 1 => r \in table' /\ (r > view.max => ~ Coming(r)')
                             /\ r \in table' /\ r <= view.max => view.counted[r] = 1
                             /\ r \in table' => view.counted[r] = 1 \/ r \in missed \/ Coming(r)'
      OBVIOUS
    <3>1. view.max \in table \cup {0}
      BY DEF LiveInv, ViewSound
    <3>2. ~ (h <= view.max)
      <4>1. h \in Int /\ h > 0 /\ view.max \in Int
        BY <1>2, <2>1, LiveAssumption DEF Rows, Views
      <4>2. CASE view.max = 0
        BY <4>1, <4>2
      <4>3. CASE view.max \in table
        BY <1>2, <4>1, <4>3
      <4> QED
        BY <3>1, <4>2, <4>3
    <3>3. \A r \in Rows :
              /\ view.counted[r] \in {0, 1}
              /\ view.counted[r] = 1 => r \in table /\ (r > view.max => ~ Coming(r))
              /\ r \in table /\ r <= view.max => view.counted[r] = 1
              /\ r \in table => view.counted[r] = 1 \/ r \in missed \/ Coming(r)
      BY DEF LiveInv, ViewSound
    <3> HIDE DEF Coming
    <3> QED
      BY <1>1, <1>2, <1>7, <3>1, <3>2, <3>3
  <2>6. /\ stream = "bell" => view.at = "hidden"
        /\ view.at # "counting" => view.max = 0 /\ \A r \in Rows : view.counted[r] = 0
        /\ view.at = "hidden" => view.pending = {}
    BY DEF LiveInv, ViewSound
  <2> HIDE DEF Coming
  <2> QED
    BY <1>1, <2>2, <2>3, <2>4, <2>5, <2>6 DEF ViewSound
<1>9. BellSound'
  <2>1. NoneComing' => h \notin BlockedRows /\ NoneComing
    <3> SUFFICES ASSUME NoneComing' PROVE h \notin BlockedRows /\ NoneComing
      OBVIOUS
    <3>1. /\ \A r \in table' \cap BlockedRows : ~ Coming(r)'
          /\ \A c \in Live : conns[c].at \notin {"seen", "count"}
      BY <1>1, <1>5 DEF NoneComing
    <3>2. h \notin BlockedRows
      BY <1>1, <1>2, <1>7, <3>1
    <3>3. \A r \in table \cap BlockedRows : ~ Coming(r)
      BY <1>1, <1>7, <3>1 DEF LiveInv, LiveShape
    <3> QED
      BY <3>1, <3>2, <3>3 DEF NoneComing
  <2>2. h \notin BlockedRows => Unread(seenUpTo)' = Unread(seenUpTo)
    <3> SUFFICES ASSUME h \notin BlockedRows PROVE Unread(seenUpTo)' = Unread(seenUpTo)
      OBVIOUS
    <3>1. table' \cap BlockedRows = table \cap BlockedRows
      BY <1>1
    <3> QED
      BY <1>1, <3>1 DEF Unread
  <2> HIDE DEF NoneComing
  <2> QED
    BY <1>1, <1>5, <2>1, <2>2 DEF LiveInv, BellSound
<1> QED
  BY <1>3, <1>4, <1>6, <1>8, <1>9 DEF LiveInv

LEMMA InsertFailsKept == LiveInv /\ InsertFails => LiveInv'
<1> SUFFICES ASSUME LiveInv, InsertFails PROVE LiveInv'
  OBVIOUS
<1>1. /\ waiting # << >> /\ waiting' = Tail(waiting)
      /\ UNCHANGED <<stream, made, table, pushing, subs, chans, conns, view, missed>>
      /\ UNCHANGED <<seenUpTo, bell, alone, muddled>>
  BY DEF InsertFails, linkVars, viewVars, bellVars
<1>2. LiveShape'
  BY <1>1, HeadIsNew DEF LiveInv, LiveShape
<1>3. RowsLineUp'
  BY <1>1, HeadIsNew DEF RowsLineUp
<1>4. Live' = Live
  BY <1>1 DEF Live
<1>5. ChannelsSound'
  BY <1>1, <1>4 DEF LiveInv, ChannelsSound
<1>6. \A r : Coming(r)' <=> Coming(r)
  BY <1>1, <1>4, ComingSame
<1>7. ViewSound'
  BY <1>1, <1>6, ViewStays
<1>8. BellSound'
  BY <1>1, <1>4, NoneSame, BellStays
<1> QED
  BY <1>2, <1>3, <1>5, <1>7, <1>8 DEF LiveInv

\* A stored row goes to every open channel with room, or is missed.
LEMMA BroadcastKept == LiveInv /\ Broadcast => LiveInv'
<1> SUFFICES ASSUME LiveInv, Broadcast PROVE LiveInv'
  OBVIOUS
<1>1. /\ pushing # 0 /\ pushing' = 0
      /\ chans' = [c \in Conns |->
           IF c \in subs /\ HasRoom(c)
           THEN [chans[c] EXCEPT !.rows = Append(@, pushing)] ELSE chans[c]]
      /\ UNCHANGED <<stream, made, waiting, table, subs, conns, view, seenUpTo, bell>>
  BY DEF Broadcast
<1>2. /\ pushing \in table /\ pushing \in Rows
      /\ chans \in [Conns -> Channels] /\ conns \in [Conns -> Links]
  BY <1>1 DEF LiveInv, LiveShape
<1>3. Live' = Live
  BY <1>1 DEF Live
<1>4. ASSUME NEW c \in Conns
      PROVE  /\ chans'[c] \in Channels /\ chans'[c].open = chans[c].open
             /\ \/ c \in subs /\ HasRoom(c) /\ chans'[c].rows = Append(chans[c].rows, pushing)
                \/ ~ (c \in subs /\ HasRoom(c)) /\ chans'[c].rows = chans[c].rows
  <2>1. chans[c] \in Channels /\ chans[c].rows \in Seq(Rows)
    BY <1>2 DEF Channels
  <2>2. Append(chans[c].rows, pushing) \in Seq(Rows)
    BY <1>2, <2>1
  <2>3. CASE c \in subs /\ HasRoom(c)
    <3>1. chans'[c] = [chans[c] EXCEPT !.rows = Append(chans[c].rows, pushing)]
      BY <1>1, <2>3
    <3> QED
      BY <2>1, <2>2, <2>3, <3>1 DEF Channels
  <2>4. CASE ~ (c \in subs /\ HasRoom(c))
    BY <1>1, <2>1, <2>4
  <2> QED
    BY <2>3, <2>4
<1>5. ASSUME NEW c \in Conns
      PROVE  /\ \A r : r \in RowsIn(chans'[c].rows) =>
                  r \in RowsIn(chans[c].rows) \/ (r = pushing /\ c \in subs /\ HasRoom(c))
             /\ \A r : r \in RowsIn(chans[c].rows) => r \in RowsIn(chans'[c].rows)
             /\ c \in subs /\ HasRoom(c) => pushing \in RowsIn(chans'[c].rows)
             /\ \A i \in 1 .. Len(chans'[c].rows) :
                  /\ chans'[c].rows[i] \in table
                  /\ \A j \in 1 .. Len(chans'[c].rows) : chans'[c].rows[i] = chans'[c].rows[j] => i = j
  <2>1. chans[c].rows \in Seq(Rows)
    BY <1>2 DEF Channels
  <2>2. CASE chans'[c].rows = chans[c].rows /\ ~ (c \in subs /\ HasRoom(c))
    BY <2>2 DEF LiveInv, ChannelsSound
  <2>3. CASE c \in subs /\ HasRoom(c) /\ chans'[c].rows = Append(chans[c].rows, pushing)
    <3> DEFINE s == chans[c].rows
               t == chans'[c].rows
    <3>1. /\ t \in Seq(Rows) /\ Len(t) = Len(s) + 1 /\ t[Len(s) + 1] = pushing /\ Len(s) \in Nat
          /\ \A i \in 1 .. Len(s) : t[i] = s[i]
      BY <1>2, <2>1, <2>3
    <3>2. RowsIn(s) = {s[i] : i \in 1 .. Len(s)} /\ RowsIn(t) = {t[i] : i \in 1 .. Len(t)}
      BY <2>1, <3>1, RowsOf
    <3>3. \A i \in 1 .. Len(s) : s[i] \in table \ {pushing} /\ \A j \in 1 .. Len(s) : s[i] = s[j] => i = j
      BY DEF LiveInv, ChannelsSound
    <3> HIDE DEF s, t
    <3>4. \A i \in 1 .. Len(t) : i \in 1 .. Len(s) \/ i = Len(s) + 1
      BY <3>1
    <3>5. \A r \in RowsIn(t) : r \in RowsIn(s) \/ r = pushing
      BY <3>1, <3>2, <3>4
    <3>6. \A r \in RowsIn(s) : r \in RowsIn(t)
      BY <3>1, <3>2
    <3>7. pushing \in RowsIn(t)
      BY <3>1, <3>2
    <3>8. \A i \in 1 .. Len(t) : t[i] \in table
      BY <1>2, <3>1, <3>3, <3>4
    <3>9. \A i, j \in 1 .. Len(t) : t[i] = t[j] => i = j
      BY <3>1, <3>3, <3>4
    <3> QED
      BY <2>3, <3>5, <3>6, <3>7, <3>8, <3>9 DEF s, t
  <2> QED
    BY <1>4, <2>2, <2>3
<1>6. LiveShape'
  <2>1. chans' \in [Conns -> Channels]
    BY <1>1, <1>4
  <2>2. alone' \in BOOLEAN /\ muddled' \in BOOLEAN
    BY DEF Broadcast, Misses, LiveInv, LiveShape
  <2> QED
    BY <1>1, <2>1, <2>2 DEF LiveInv, LiveShape
<1>7. RowsLineUp'
  BY <1>1 DEF LiveInv, RowsLineUp
<1>8. ChannelsSound'
  <2>1. \A c \in subs : chans'[c].open /\ conns[c].at \in {"on", "seen", "count"}
    BY <1>4 DEF LiveInv, LiveShape, ChannelsSound
  <2>2. \A r \in table : r # 0
    BY DEF LiveInv, LiveShape, Rows
  <2>3. /\ \A c, d \in Live' : c = d
        /\ \A c \in Live' : conns'[c].at \in {"on", "seen", "count"}
    BY <1>1, <1>3 DEF LiveInv, ChannelsSound
  <2>4. \A c \in Conns : \A i \in 1 .. Len(chans'[c].rows) :
          /\ chans'[c].rows[i] \in table' \ {pushing'}
          /\ \A j \in 1 .. Len(chans'[c].rows) : chans'[c].rows[i] = chans'[c].rows[j] => i = j
    BY <1>1, <1>5, <2>2
  <2> QED
    BY <1>1, <2>1, <2>3, <2>4 DEF ChannelsSound
<1>9. Live \subseteq Conns
  BY DEF Live
<1>10. \A r \in Rows : Coming(r)' => Coming(r)
  <2> SUFFICES ASSUME NEW r \in Rows, Coming(r)' PROVE Coming(r)
    OBVIOUS
  <2>1. r # 0
    BY DEF Rows
  <2>2. PICK c \in Live : r \in RowsIn(chans'[c].rows)
    BY <1>1, <1>3, <2>1 DEF Coming
  <2>3. r \in RowsIn(chans[c].rows) \/ r = pushing
    BY <1>5, <1>9, <2>2
  <2> QED
    BY <2>2, <2>3 DEF Coming
<1>11. CASE \E c \in Live \cap subs : HasRoom(c)
  <2>1. UNCHANGED <<missed, alone, muddled>>
    BY <1>11 DEF Broadcast
  <2>2. \A r \in Rows : Coming(r) => Coming(r)'
    BY <1>3, <1>5, <1>9, <1>11 DEF Coming
  <2>3. ViewSound'
    BY <1>1, <1>10, <2>1, <2>2, ViewStays DEF LiveInv, LiveShape
  <2>4. NoneComing' => NoneComing
    <3>1. \A r \in table : Coming(r) => Coming(r)'
      BY <2>2 DEF LiveInv, LiveShape
    <3> HIDE DEF Coming
    <3> QED
      BY <1>1, <1>3, <3>1 DEF NoneComing
  <2>5. BellSound'
    BY <1>1, <1>3, <2>1, <2>4, BellStays
  <2> QED
    BY <1>6, <1>7, <1>8, <2>3, <2>5 DEF LiveInv
<1>12. CASE ~ \E c \in Live \cap subs : HasRoom(c)
  <2>1. missed' = missed \cup {pushing} /\ Misses({pushing})
    BY <1>12 DEF Broadcast
  <2>2. \A r \in Rows : Coming(r) => Coming(r)' \/ r = pushing
    BY <1>3, <1>5, <1>9 DEF Coming
  <2>3. ViewSound'
    BY <1>1, <1>10, <2>1, <2>2, ViewStays DEF LiveInv, LiveShape
  <2>4. NoneComing' => NoneComing \/ stream = "stats" \/ (muddled' /\ ~ alone')
    <3>1. CASE pushing \in BlockedRows /\ stream = "bell"
      BY <2>1, <3>1 DEF Misses
    <3>2. CASE pushing \notin BlockedRows
      <4>1. \A r \in table \cap BlockedRows : Coming(r) => Coming(r)'
        BY <2>2, <3>2 DEF LiveInv, LiveShape
      <4> HIDE DEF Coming
      <4> QED
        BY <1>1, <1>3, <4>1 DEF NoneComing
    <3> QED
      BY <3>1, <3>2 DEF LiveInv, LiveShape
  <2>5. (alone' => alone) /\ (muddled => muddled')
    BY <2>1 DEF Misses
  <2>6. BellSound'
    BY <1>1, <1>3, <2>4, <2>5, BellStays
  <2> QED
    BY <1>6, <1>7, <1>8, <2>3, <2>6 DEF LiveInv
<1> QED
  BY <1>11, <1>12

\* A handler comes or goes: the browser reads nothing of it before or after,
\* but an empty channel.
LEMMA LinkKept ==
  ASSUME LiveInv, NEW c \in Conns, NEW n \in Links, NEW h \in Channels, ~ conns[c].read,
         conns' = [conns EXCEPT ![c] = n], chans' = [chans EXCEPT ![c] = h],
         UNCHANGED <<stream, made, waiting, table, pushing, view, missed>>,
         UNCHANGED <<seenUpTo, bell, alone, muddled>>,
         subs' \in SUBSET Conns, subs' \subseteq subs \cup {c},
         c \in subs' => h.open /\ n.at \in {"on", "seen", "count"},
         h.rows = << >> \/ h.rows = chans[c].rows,
         n.read => Live = {} /\ h.rows = << >> /\ n.at = "on"
  PROVE  LiveInv'
<1>1. /\ conns'[c] = n /\ chans'[c] = h
      /\ \A d \in Conns : d # c => conns'[d] = conns[d] /\ chans'[d] = chans[d]
  BY DEF LiveInv, LiveShape
<1>2. LiveShape'
  BY DEF LiveInv, LiveShape
<1>3. RowsLineUp'
  BY DEF LiveInv, RowsLineUp
<1>4. c \notin Live /\ Live' = IF n.read THEN {c} ELSE Live
  BY <1>1 DEF Live
<1>5. (\A d, e \in Live' : d = e) /\ \A d \in Live' : conns'[d].at \in {"on", "seen", "count"}
  BY <1>1, <1>4 DEF LiveInv, ChannelsSound, Live
<1>6. Len(h.rows) = 0 \/ h.rows = chans[c].rows
  OBVIOUS
<1>7. ChannelsSound'
  <2>1. \A d \in subs' : chans'[d].open /\ conns'[d].at \in {"on", "seen", "count"}
    BY <1>1 DEF LiveInv, LiveShape, ChannelsSound
  <2>2. ASSUME NEW d \in Conns, NEW i \in 1 .. Len(chans'[d].rows)
        PROVE  /\ chans'[d].rows[i] \in table \ {pushing}
               /\ \A j \in 1 .. Len(chans'[d].rows) : chans'[d].rows[i] = chans'[d].rows[j] => i = j
    <3>1. chans'[d].rows = chans[d].rows
      BY <1>1, <1>6, <2>2
    <3> QED
      BY <2>2, <3>1 DEF LiveInv, ChannelsSound
  <2> QED
    BY <1>5, <2>1, <2>2 DEF ChannelsSound
<1>8. CASE n.read
  <2>1. RowsIn(h.rows) = {} /\ Live = {} /\ Live' = {c} /\ n.at = "on"
    BY <1>4, <1>8 DEF RowsIn
  <2>2. \A r : Coming(r)' <=> Coming(r)
    BY <1>1, <2>1 DEF Coming
  <2>3. ViewSound'
    BY <2>2, ViewStays
  <2>4. NoneComing' => NoneComing
    <3> HIDE DEF Coming
    <3> QED
      BY <2>1, <2>2 DEF NoneComing
  <2>5. BellSound'
    BY <1>1, <2>1, <2>4, BellStays
  <2> QED
    BY <1>2, <1>3, <1>7, <2>3, <2>5 DEF LiveInv
<1>9. CASE ~ n.read
  <2>1. /\ Live' = Live
        /\ \A d \in Live : conns'[d] = conns[d] /\ chans'[d] = chans[d]
    BY <1>1, <1>4, <1>9 DEF Live
  <2>2. \A r : Coming(r)' <=> Coming(r)
    BY <2>1, ComingSame
  <2>3. ViewSound'
    BY <2>2, ViewStays
  <2>4. NoneComing' <=> NoneComing
    BY <2>1, NoneSame
  <2>5. BellSound'
    BY <2>1, <2>4, BellStays
  <2> QED
    BY <1>2, <1>3, <1>7, <2>3, <2>5 DEF LiveInv
<1> QED
  BY <1>8, <1>9

LEMMA ComesOrGoes ==
  ASSUME LiveInv, NEW c \in Conns, Subscribe(c) \/ Unsubscribe(c) \/ Close(c)
  PROVE  LiveInv'
<1>1. /\ conns[c] \in Links /\ chans[c] \in Channels /\ conns[c].read \in BOOLEAN
      /\ UNCHANGED <<stream, made, waiting, table, pushing, view, missed>>
      /\ UNCHANGED <<seenUpTo, bell, alone, muddled>>
  BY DEF Subscribe, Unsubscribe, Close, rowVars, viewVars, bellVars, LiveInv, LiveShape, Links
<1>2. CASE Subscribe(c)
  <2> DEFINE n == [at |-> "on", read |-> TRUE, upTo |-> 0]
  <2>1. n \in Links /\ NewChannel \in Channels /\ NewChannel.open /\ NewChannel.rows = << >>
    BY DEF Links, Channels, NewChannel
  <2>2. /\ conns' = [conns EXCEPT ![c] = n] /\ chans' = [chans EXCEPT ![c] = NewChannel]
        /\ subs' = subs \cup {c} /\ Live = {}
    BY <1>2 DEF Subscribe
  <2>3. ~ conns[c].read
    BY <2>2 DEF Live
  <2>4. n.at = "on"
    OBVIOUS
  <2> HIDE DEF n
  <2>5. subs' \in SUBSET Conns
    BY <2>2 DEF LiveInv, LiveShape
  <2> QED
    BY <1>1, <2>1, <2>2, <2>3, <2>4, <2>5, LinkKept
<1>3. CASE Unsubscribe(c)
  <2> DEFINE n == [conns[c] EXCEPT !.at = "leaving"]
  <2>1. n \in Links /\ n.read = conns[c].read
    BY <1>1 DEF Links
  <2>2. /\ conns' = [conns EXCEPT ![c] = n] /\ chans' = [chans EXCEPT ![c] = chans[c]]
        /\ subs' = subs \ {c} /\ ~ conns[c].read
    BY <1>3 DEF Unsubscribe, LiveInv, LiveShape
  <2> HIDE DEF n
  <2>3. subs' \in SUBSET Conns /\ ~ n.read
    BY <2>1, <2>2 DEF LiveInv, LiveShape
  <2> QED
    BY <1>1, <2>1, <2>2, <2>3, LinkKept
<1>4. CASE Close(c)
  <2>1. /\ Unconnected \in Links /\ Shut \in Channels /\ Shut.rows = << >> /\ Unconnected.read = FALSE
    BY DEF Links, Channels, Unconnected, Shut
  <2>2. /\ conns' = [conns EXCEPT ![c] = Unconnected] /\ chans' = [chans EXCEPT ![c] = Shut]
        /\ subs' = subs /\ conns[c].at = "leaving"
    BY <1>4 DEF Close
  <2>3. c \notin subs /\ subs' \in SUBSET Conns
    BY <2>2 DEF LiveInv, LiveShape, ChannelsSound
  <2>4. ~ conns[c].read
    BY <2>2 DEF LiveInv, ChannelsSound, Live
  <2> QED
    BY <1>1, <2>1, <2>2, <2>3, <2>4, LinkKept
<1> QED
  BY <1>2, <1>3, <1>4

\* The connection breaks with what its channel holds.
LEMMA BreakKept ==
  ASSUME LiveInv, NEW c \in Conns, Break(c) PROVE LiveInv'
<1> DEFINE n == [conns[c] EXCEPT !.read = FALSE]
           b == [bell EXCEPT !.count = NoCount]
<1>1. /\ conns[c].read /\ conns' = [conns EXCEPT ![c] = n] /\ bell' = b
      /\ missed' = missed \cup RowsIn(chans[c].rows)
      /\ muddled' = (muddled \/ /\ stream = "bell"
                                /\ \/ c \in Counts \/ bell.count # NoCount
                                   \/ RowsIn(chans[c].rows) \cap BlockedRows # {})
      /\ alone' = FALSE
      /\ UNCHANGED <<stream, made, waiting, table, pushing, subs, chans, view, seenUpTo>>
  BY DEF Break, rowVars
<1>2. conns \in [Conns -> Links] /\ conns[c] \in Links /\ bell \in Bells
  BY DEF LiveInv, LiveShape
<1>3. n \in Links /\ n.at = conns[c].at /\ n.read = FALSE
  BY <1>2 DEF Links
<1>4. b \in Bells /\ b.count = NoCount /\ b.badge = bell.badge /\ b.mark = bell.mark
  BY <1>2 DEF Bells, NoCount
<1> HIDE DEF n, b
<1>5. /\ conns'[c] = n
      /\ \A d \in Conns : d # c => conns'[d] = conns[d]
  BY <1>1, <1>2
<1>6. Live = {c} /\ Live' = {}
  BY <1>1, <1>3, <1>5 DEF LiveInv, ChannelsSound, Live
<1>7. LiveShape'
  BY <1>1, <1>2, <1>3, <1>4 DEF LiveInv, LiveShape
<1>8. RowsLineUp'
  BY <1>1 DEF LiveInv, RowsLineUp
<1>9. ChannelsSound'
  <2>1. \A d \in subs : chans[d].open /\ conns'[d].at \in {"on", "seen", "count"}
    BY <1>3, <1>5 DEF LiveInv, LiveShape, ChannelsSound
  <2> QED
    BY <1>1, <1>6, <2>1 DEF LiveInv, ChannelsSound
<1>10. \A r : /\ Coming(r)' <=> r = pushing
              /\ Coming(r) <=> r = pushing \/ r \in RowsIn(chans[c].rows)
  BY <1>1, <1>6 DEF Coming
<1> HIDE DEF Coming
<1>11. ViewSound'
  BY <1>1, <1>10, ViewStays
<1>12. BellSound'
  <2> SUFFICES ASSUME stream = "bell", ~ muddled', NoneComing'
               PROVE  /\ bell.mark = "idle" => bell.badge = Unread(seenUpTo)
                      /\ bell.mark = "answered" => Unread(seenUpTo) = 0
    BY <1>1, <1>4, <1>6 DEF BellSound, Unread
  <2>1. /\ ~ muddled /\ c \notin Counts /\ bell.count = NoCount
        /\ RowsIn(chans[c].rows) \cap BlockedRows = {}
    BY <1>1
  <2>2. \A r \in table \cap BlockedRows : ~ Coming(r)
    BY <1>1, <1>10, <2>1 DEF NoneComing
  <2>3. conns[c].at \notin {"seen", "count"}
    BY <2>1 DEF Counts
  <2>4. NoneComing
    BY <1>6, <2>2, <2>3 DEF NoneComing
  <2> QED
    BY <2>1, <2>4 DEF LiveInv, BellSound
<1> QED
  BY <1>7, <1>8, <1>9, <1>11, <1>12 DEF LiveInv

\* A handler takes a row from its channel.
LEMMA TakenKept ==
  ASSUME LiveInv, NEW c \in Conns, chans[c].rows # << >>, TakeRow(c)
  PROVE  /\ chans' \in [Conns -> Channels]
         /\ Head(chans[c].rows) \in table \ {pushing}
         /\ \A d \in Conns : d # c => chans'[d] = chans[d]
         /\ chans'[c].open = chans[c].open
         /\ Head(chans[c].rows) \in RowsIn(chans[c].rows)
         /\ RowsIn(chans'[c].rows) = RowsIn(chans[c].rows) \ {Head(chans[c].rows)}
         /\ \A d \in Conns : \A i \in 1 .. Len(chans'[d].rows) :
              /\ chans'[d].rows[i] \in table \ {pushing}
              /\ \A j \in 1 .. Len(chans'[d].rows) : chans'[d].rows[i] = chans'[d].rows[j] => i = j
<1> DEFINE s == chans[c].rows
           h == [chans[c] EXCEPT !.rows = Tail(s)]
<1>1. chans \in [Conns -> Channels] /\ chans[c] \in Channels
  BY DEF LiveInv, LiveShape
<1>2. s \in Seq(Rows) /\ s # << >>
  BY <1>1 DEF Channels
<1>3. \A i \in 1 .. Len(s) : s[i] \in table \ {pushing} /\ \A j \in 1 .. Len(s) : s[i] = s[j] => i = j
  BY DEF LiveInv, ChannelsSound
<1>4. /\ Tail(s) \in Seq(Rows) /\ Head(s) \in RowsIn(s)
      /\ RowsIn(Tail(s)) = RowsIn(s) \ {Head(s)}
      /\ \A i \in 1 .. Len(Tail(s)) : Tail(s)[i] \in RowsIn(s)
      /\ \A i, j \in 1 .. Len(Tail(s)) : Tail(s)[i] = Tail(s)[j] => i = j
  <2>1. \A i, j \in 1 .. Len(s) : s[i] = s[j] => i = j
    BY <1>3
  <2> HIDE DEF s
  <2> QED
    BY <1>2, <2>1, RowsTaken
<1>5. h \in Channels /\ h.rows = Tail(s) /\ h.open = chans[c].open
  BY <1>1, <1>4 DEF Channels
<1>6. chans' = [chans EXCEPT ![c] = h]
  BY <1>1 DEF TakeRow
<1>7. RowsIn(s) \subseteq table \ {pushing}
  <2>1. RowsIn(s) = {s[i] : i \in 1 .. Len(s)}
    BY <1>2, RowsOf
  <2> QED
    BY <1>3, <2>1
<1> HIDE DEF h
<1>8. chans'[c] = h /\ \A d \in Conns : d # c => chans'[d] = chans[d]
  BY <1>1, <1>6
<1>9. ASSUME NEW d \in Conns, NEW i \in 1 .. Len(chans'[d].rows)
      PROVE  /\ chans'[d].rows[i] \in table \ {pushing}
             /\ \A j \in 1 .. Len(chans'[d].rows) : chans'[d].rows[i] = chans'[d].rows[j] => i = j
  <2>1. CASE d = c
    BY <1>4, <1>5, <1>7, <1>8, <1>9, <2>1
  <2>2. CASE d # c
    BY <1>8, <1>9, <2>2 DEF LiveInv, ChannelsSound
  <2> QED
    BY <2>1, <2>2
<1>10. chans' \in [Conns -> Channels]
  BY <1>1, <1>5, <1>6
<1> QED
  BY <1>4, <1>5, <1>7, <1>8, <1>9, <1>10

\* What takes a row to the Stats view.
LEMMA StreamKept ==
  ASSUME LiveInv, NEW c \in Conns, LogsStream(c) PROVE LiveInv'
<1> DEFINE h == Head(chans[c].rows)
<1>1. /\ stream = "stats" /\ conns[c].at = "on" /\ chans[c].rows # << >> /\ TakeRow(c)
      /\ view' = IF ~ conns[c].read \/ view.at = "hidden" THEN view
                 ELSE IF view.at = "counting"
                 THEN [view EXCEPT !.counted = Counted(@, {h} \ (0 .. view.max))]
                 ELSE [view EXCEPT !.pending = @ \cup {h}]
      /\ UNCHANGED <<stream, made, waiting, table, pushing, subs, conns, missed>>
      /\ UNCHANGED <<seenUpTo, bell, alone, muddled>>
  BY DEF LogsStream, rowVars, bellVars
<1>2. /\ chans' \in [Conns -> Channels]
      /\ h \in table /\ h # pushing /\ h \in RowsIn(chans[c].rows)
      /\ \A d \in Conns : d # c => chans'[d] = chans[d]
      /\ chans'[c].open = chans[c].open
      /\ RowsIn(chans'[c].rows) = RowsIn(chans[c].rows) \ {h}
  BY <1>1, TakenKept
<1>3. h \in Rows /\ view \in Views /\ table \in SUBSET Rows
  BY <1>2 DEF LiveInv, LiveShape
<1> HIDE DEF h
<1>4. Live' = Live
  BY <1>1 DEF Live
<1>5. ChannelsSound'
  <2>1. \A d \in subs : chans'[d].open /\ conns[d].at \in {"on", "seen", "count"}
    BY <1>2 DEF LiveInv, LiveShape, ChannelsSound
  <2>2. \A d \in Conns : \A i \in 1 .. Len(chans'[d].rows) :
          /\ chans'[d].rows[i] \in table \ {pushing}
          /\ \A j \in 1 .. Len(chans'[d].rows) : chans'[d].rows[i] = chans'[d].rows[j] => i = j
    BY <1>1, TakenKept
  <2> QED
    BY <1>1, <1>4, <2>1, <2>2 DEF LiveInv, ChannelsSound
<1>6. BellSound'
  BY <1>1 DEF BellSound
<1>7. RowsLineUp'
  BY <1>1 DEF LiveInv, RowsLineUp
<1>8. CASE ~ conns[c].read
  <2>1. view' = view /\ \A d \in Live : chans'[d] = chans[d]
    BY <1>1, <1>2, <1>8 DEF Live
  <2>2. \A r : Coming(r)' <=> Coming(r)
    BY <1>1, <1>4, <2>1, ComingSame
  <2>3. ViewSound'
    BY <1>1, <2>1, <2>2, ViewStays
  <2>4. LiveShape'
    BY <1>1, <1>2, <2>1 DEF LiveInv, LiveShape
  <2> QED
    BY <1>5, <1>6, <1>7, <2>3, <2>4 DEF LiveInv
<1>9. CASE conns[c].read
  <2>1. Live = {c}
    BY <1>9 DEF Live, LiveInv, ChannelsSound
  <2>2. \A r : Coming(r) <=> r = pushing \/ r \in RowsIn(chans[c].rows)
    BY <2>1 DEF Coming
  <2>3. \A r : Coming(r)' <=> Coming(r) /\ r # h
    BY <1>1, <1>2, <1>4, <2>1 DEF Coming
  <2>20. Coming(h)
    BY <1>2, <2>2
  <2> HIDE DEF Coming
  <2>4. CASE view.at = "hidden"
    <3>1. view' = view
      BY <1>1, <2>4
    <3>2. ViewSound'
      BY <1>1, <2>3, <2>4, <3>1, ViewStays
    <3>3. LiveShape'
      BY <1>1, <1>2, <3>1 DEF LiveInv, LiveShape
    <3> QED
      BY <1>5, <1>6, <1>7, <3>2, <3>3 DEF LiveInv
  <2>5. CASE view.at \in {"seeding", "seeded"}
    <3> DEFINE v == [view EXCEPT !.pending = view.pending \cup {h}]
    <3>1. view' = v
      BY <1>1, <1>9, <2>5
    <3>2. /\ v \in Views /\ v.at = view.at /\ v.seed = view.seed /\ v.max = view.max
          /\ v.pending = view.pending \cup {h} /\ v.counted = view.counted
      BY <1>3 DEF Views
    <3> HIDE DEF v
    <3>3. LiveShape'
      BY <1>1, <1>2, <3>1, <3>2 DEF LiveInv, LiveShape
    <3>4. \A r \in v.pending : r \in table /\ ~ Coming(r)'
      BY <1>2, <2>3, <3>2 DEF LiveInv, ViewSound
    <3>5. v.at = "seeded" => \A r \in table : r \in v.seed \cup v.pending \cup missed \/ Coming(r)'
      BY <2>3, <3>2 DEF LiveInv, ViewSound
    <3>6. /\ v.max = 0 /\ (\A r \in Rows : v.counted[r] = 0)
          /\ \A q \in v.seed : q \in table /\ \A r \in table : r <= q => r \in v.seed
      BY <2>5, <3>2 DEF LiveInv, ViewSound
    <3>7. ViewSound'
      BY <1>1, <2>5, <3>1, <3>2, <3>4, <3>5, <3>6 DEF ViewSound
    <3> QED
      BY <1>5, <1>6, <1>7, <3>3, <3>7 DEF LiveInv
  <2>6. CASE view.at = "counting"
    <3> DEFINE k == Counted(view.counted, {h} \ (0 .. view.max))
               v == [view EXCEPT !.counted = k]
    <3>1. view' = v
      BY <1>1, <1>9, <2>6
    <3>2. /\ view.counted \in [Rows -> Nat] /\ view.max \in Nat
      BY <1>3 DEF Views
    <3>3. h \in Int /\ h >= 0
      BY <1>3, LiveAssumption DEF Rows
    <3>4. /\ k \in [Rows -> Nat]
          /\ \A r \in Rows : k[r] = IF r = h /\ h > view.max THEN view.counted[r] + 1 ELSE view.counted[r]
      BY <3>2, <3>3 DEF Counted
    <3> HIDE DEF k
    <3>5. /\ v \in Views /\ v.at = "counting" /\ v.seed = view.seed /\ v.max = view.max
          /\ v.pending = view.pending /\ v.counted = k
      BY <1>3, <2>6, <3>4 DEF Views
    <3> HIDE DEF v
    <3>6. LiveShape'
      BY <1>1, <1>2, <3>1, <3>5 DEF LiveInv, LiveShape
    <3>7. /\ view.max \in table \cup {0}
          /\ \A r \in Rows :
               /\ view.counted[r] \in {0, 1}
               /\ view.counted[r] = 1 => r \in table /\ (r > view.max => ~ Coming(r))
               /\ r \in table /\ r <= view.max => view.counted[r] = 1
               /\ r \in table => view.counted[r] = 1 \/ r \in missed \/ Coming(r)
      BY <2>6 DEF LiveInv, ViewSound
    <3>8. h > view.max => k[h] = 1
      BY <1>3, <2>20, <3>4, <3>7
    <3>9. ~ (h > view.max) => k[h] = 1
      BY <1>2, <1>3, <3>2, <3>3, <3>4, <3>7
    <3>10. ASSUME NEW r \in Rows
           PROVE  /\ k[r] \in {0, 1}
                  /\ k[r] = 1 => r \in table /\ (r > view.max => ~ Coming(r)')
                  /\ r \in table /\ r <= view.max => k[r] = 1
                  /\ r \in table => k[r] = 1 \/ r \in missed \/ Coming(r)'
      <4>1. CASE r = h
        BY <1>2, <2>3, <3>8, <3>9, <4>1
      <4>2. CASE r # h
        BY <2>3, <3>4, <3>7, <4>2
      <4> QED
        BY <4>1, <4>2
    <3>11. \A r \in view.pending : r \in table /\ ~ Coming(r)'
      BY <2>3 DEF LiveInv, ViewSound
    <3>12. /\ stream = "stats"
           /\ \A q \in view.seed : q \in table /\ \A r \in table : r <= q => r \in view.seed
      BY <1>1 DEF LiveInv, ViewSound
    <3>13. ViewSound'
      BY <1>1, <3>1, <3>5, <3>7, <3>10, <3>11, <3>12 DEF ViewSound
    <3> QED
      BY <1>5, <1>6, <1>7, <3>6, <3>13 DEF LiveInv
  <2> QED
    BY <1>3, <2>4, <2>5, <2>6 DEF Views
<1> QED
  BY <1>8, <1>9

\* The handler of a connection goes on, with its channel or a row less of it.
LEMMA LinkMoves ==
  ASSUME LiveInv, NEW c \in Conns, NEW n \in Links, n.read = conns[c].read,
         n.at \in {"on", "seen", "count"}, conns[c].at \in {"on", "seen", "count"},
         conns' = [conns EXCEPT ![c] = n],
         \/ chans' = chans
         \/ stream = "bell" /\ chans[c].rows # << >> /\ TakeRow(c),
         UNCHANGED <<stream, made, waiting, table, pushing, subs, view, missed>>
  PROVE  /\ chans' \in [Conns -> Channels] /\ conns' \in [Conns -> Links]
         /\ RowsLineUp' /\ ChannelsSound' /\ ViewSound'
         /\ Live' = Live /\ conns'[c] = n
         /\ \A d \in Conns : d # c => conns'[d] = conns[d] /\ chans'[d] = chans[d]
<1>1. /\ conns'[c] = n /\ conns' \in [Conns -> Links]
      /\ \A d \in Conns : d # c => conns'[d] = conns[d]
  BY DEF LiveInv, LiveShape
<1>2. Live' = Live
  BY <1>1 DEF Live
<1>3. /\ chans' \in [Conns -> Channels] /\ chans'[c].open = chans[c].open
      /\ \A d \in Conns : d # c => chans'[d] = chans[d]
      /\ \A r : r \in RowsIn(chans'[c].rows) => r \in RowsIn(chans[c].rows)
      /\ \A d \in Conns : \A i \in 1 .. Len(chans'[d].rows) :
           /\ chans'[d].rows[i] \in table \ {pushing}
           /\ \A j \in 1 .. Len(chans'[d].rows) : chans'[d].rows[i] = chans'[d].rows[j] => i = j
  <2>1. CASE chans' = chans
    BY <2>1 DEF LiveInv, LiveShape, ChannelsSound
  <2>2. CASE chans[c].rows # << >> /\ TakeRow(c)
    BY <2>2, TakenKept
  <2> QED
    BY <2>1, <2>2
<1>4. RowsLineUp'
  BY DEF LiveInv, RowsLineUp
<1>5. ChannelsSound'
  <2>1. \A d \in subs : chans'[d].open /\ conns'[d].at \in {"on", "seen", "count"}
    BY <1>1, <1>3 DEF LiveInv, LiveShape, ChannelsSound
  <2>2. \A d \in Live : conns'[d].at \in {"on", "seen", "count"}
    BY <1>1 DEF LiveInv, ChannelsSound, Live
  <2> QED
    BY <1>2, <1>3, <2>1, <2>2 DEF LiveInv, ChannelsSound
<1>6. ViewSound'
  <2>1. CASE chans' = chans
    <3>1. \A r : Coming(r)' <=> Coming(r)
      BY <1>2, <2>1, ComingSame
    <3> QED
      BY <3>1, ViewStays
  <2>2. CASE stream = "bell"
    <3>1. \A d \in Live : \A r : r \in RowsIn(chans'[d].rows) => r \in RowsIn(chans[d].rows)
      BY <1>3 DEF Live
    <3>2. \A r \in Rows : Coming(r)' => Coming(r)
      BY <1>2, <3>1 DEF Coming
    <3>3. view.at = "hidden"
      BY <2>2 DEF LiveInv, ViewSound
    <3> QED
      BY <3>2, <3>3, ViewStays
  <2> QED
    BY <2>1, <2>2
<1> QED
  BY <1>1, <1>2, <1>3, <1>4, <1>5, <1>6

\* A handler that no browser reads changes nothing for the bell.
LEMMA UnreadStays ==
  ASSUME LiveInv, NEW c \in Conns, ~ conns[c].read, Live' = Live,
         \A d \in Conns : d # c => conns'[d] = conns[d] /\ chans'[d] = chans[d],
         UNCHANGED <<stream, table, pushing, seenUpTo, bell, alone, muddled>>
  PROVE  BellSound'
<1>1. \A d \in Live : d \in Conns /\ d # c
  BY DEF Live
<1>2. \A d \in Live : conns'[d] = conns[d] /\ chans'[d] = chans[d]
  BY <1>1
<1>3. NoneComing' <=> NoneComing
  BY <1>2, NoneSame
<1> QED
  BY <1>2, <1>3, BellStays

LEMMA NotificationsStreamKept ==
  ASSUME LiveInv, NEW c \in Conns, NotificationsStream(c) PROVE LiveInv'
<1> DEFINE r == Head(chans[c].rows)
           n == IF r \in BlockedRows THEN [conns[c] EXCEPT !.at = "seen"] ELSE conns[c]
<1>1. /\ stream = "bell" /\ conns[c].at = "on" /\ chans[c].rows # << >> /\ TakeRow(c)
      /\ UNCHANGED <<stream, made, waiting, table, pushing, subs, view, missed>>
      /\ UNCHANGED <<seenUpTo, bell, muddled>>
      /\ r \in BlockedRows =>
           /\ conns' = [conns EXCEPT ![c].at = "seen"]
           /\ alone' = IF conns[c].read THEN bell.mark = "idle" ELSE alone
      /\ r \notin BlockedRows => conns' = conns /\ alone' = alone
  BY DEF NotificationsStream, rowVars, viewVars
<1>2. conns \in [Conns -> Links] /\ conns[c] \in Links /\ alone \in BOOLEAN
  BY DEF LiveInv, LiveShape
<1>3. /\ n \in Links /\ n.read = conns[c].read /\ n.at \in {"on", "seen", "count"}
      /\ r \in BlockedRows => n.at = "seen"
      /\ r \notin BlockedRows => n = conns[c]
  BY <1>1, <1>2 DEF Links
<1>4. conns' = [conns EXCEPT ![c] = n]
  BY <1>1, <1>2
<1> HIDE DEF n
<1>5. /\ chans' \in [Conns -> Channels] /\ conns' \in [Conns -> Links]
      /\ RowsLineUp' /\ ChannelsSound' /\ ViewSound'
      /\ Live' = Live /\ conns'[c] = n
      /\ \A d \in Conns : d # c => conns'[d] = conns[d] /\ chans'[d] = chans[d]
  BY <1>1, <1>3, <1>4, LinkMoves
<1>6. r \in RowsIn(chans[c].rows) /\ RowsIn(chans'[c].rows) = RowsIn(chans[c].rows) \ {r}
  BY <1>1, TakenKept
<1> HIDE DEF r
<1>7. alone' \in BOOLEAN
  BY <1>1, <1>2
<1>8. LiveShape'
  BY <1>1, <1>5, <1>7 DEF LiveInv, LiveShape
<1>9. BellSound'
  <2>1. CASE ~ conns[c].read
    BY <1>1, <1>5, <2>1, UnreadStays
  <2>2. CASE conns[c].read
    <3>1. Live = {c}
      BY <2>2 DEF Live, LiveInv, ChannelsSound
    <3>2. CASE r \in BlockedRows
      <4>1. ~ NoneComing'
        BY <1>3, <1>5, <3>1, <3>2 DEF NoneComing
      <4>2. alone' => bell'.mark = "idle"
        BY <1>1, <2>2, <3>2
      <4>3. \A d \in Live' : conns'[d].at # "count"
        BY <1>3, <1>5, <3>1, <3>2
      <4> HIDE DEF NoneComing
      <4> QED
        BY <4>1, <4>2, <4>3 DEF BellSound
    <3>3. CASE r \notin BlockedRows
      <4>1. \A q \in table \cap BlockedRows : Coming(q) => Coming(q)'
        BY <1>1, <1>5, <1>6, <3>1, <3>3 DEF Coming
      <4>2. conns' = conns /\ alone' = alone
        BY <1>1, <3>3
      <4>3. NoneComing' => NoneComing
        <5> HIDE DEF Coming
        <5> QED
          BY <1>1, <1>5, <4>1, <4>2 DEF NoneComing
      <4> QED
        BY <1>1, <1>5, <4>2, <4>3, BellStays
    <3> QED
      BY <3>2, <3>3
  <2> QED
    BY <2>1, <2>2
<1> QED
  BY <1>5, <1>8, <1>9 DEF LiveInv

LEMMA SeenAtKept ==
  ASSUME LiveInv, NEW c \in Conns, NotificationsSeenAt(c) PROVE LiveInv'
<1> DEFINE n == [conns[c] EXCEPT !.at = "count", !.upTo = seenUpTo]
<1>1. /\ conns[c].at = "seen"
      /\ conns' = [conns EXCEPT ![c].at = "count", ![c].upTo = seenUpTo]
      /\ UNCHANGED <<stream, made, waiting, table, pushing, subs, chans, view, missed>>
      /\ UNCHANGED <<seenUpTo, bell, alone, muddled>>
  BY DEF NotificationsSeenAt, rowVars, viewVars, bellVars
<1>2. conns \in [Conns -> Links] /\ conns[c] \in Links /\ seenUpTo \in Nat
  BY DEF LiveInv, LiveShape
<1>3. n \in Links /\ n.read = conns[c].read /\ n.at = "count" /\ n.upTo = seenUpTo
  BY <1>2 DEF Links
<1>4. conns' = [conns EXCEPT ![c] = n]
  BY <1>1, <1>2
<1> HIDE DEF n
<1>5. /\ conns' \in [Conns -> Links]
      /\ RowsLineUp' /\ ChannelsSound' /\ ViewSound'
      /\ Live' = Live /\ conns'[c] = n
      /\ \A d \in Conns : d # c => conns'[d] = conns[d] /\ chans'[d] = chans[d]
  BY <1>1, <1>3, <1>4, LinkMoves
<1>6. LiveShape'
  BY <1>1, <1>5 DEF LiveInv, LiveShape
<1>7. BellSound'
  <2>1. CASE ~ conns[c].read
    BY <1>1, <1>5, <2>1, UnreadStays
  <2>2. CASE conns[c].read
    <3>1. Live = {c}
      BY <2>2 DEF Live, LiveInv, ChannelsSound
    <3>2. ~ NoneComing'
      BY <1>3, <1>5, <3>1 DEF NoneComing
    <3>3. \A d \in Live' : conns'[d].upTo = seenUpTo'
      BY <1>1, <1>3, <1>5, <3>1
    <3> HIDE DEF NoneComing
    <3> QED
      BY <1>1, <3>2, <3>3 DEF LiveInv, BellSound
  <2> QED
    BY <2>1, <2>2
<1> QED
  BY <1>5, <1>6, <1>7 DEF LiveInv

\* The number reaches the browser, if it still reads.
LEMMA TellsKept ==
  ASSUME LiveInv, NEW c \in Conns, NEW k \in Nat, conns[c].at \in {"seen", "count"},
         Tells(c, k),
         UNCHANGED <<stream, made, waiting, table, pushing, subs, chans, view, missed>>,
         UNCHANGED <<seenUpTo, muddled>>,
         ~ conns[c].read => alone' = alone,
         conns[c].read => alone' = FALSE
           \/ (alone' = alone /\ conns[c].at = "count" /\ k = Unread(conns[c].upTo))
  PROVE  LiveInv'
<1> DEFINE n == [conns[c] EXCEPT !.at = "on", !.upTo = 0]
           b == [bell EXCEPT !.count = k]
<1>1. /\ conns' = [conns EXCEPT ![c].at = "on", ![c].upTo = 0]
      /\ bell' = IF conns[c].read THEN b ELSE bell
  BY DEF Tells
<1>2. conns \in [Conns -> Links] /\ conns[c] \in Links /\ bell \in Bells /\ alone \in BOOLEAN
  BY DEF LiveInv, LiveShape
<1>3. n \in Links /\ n.read = conns[c].read /\ n.at = "on"
  BY <1>2 DEF Links
<1>4. conns' = [conns EXCEPT ![c] = n]
  BY <1>1, <1>2
<1>5. b \in Bells /\ b.count = k /\ b.badge = bell.badge /\ b.mark = bell.mark /\ k # NoCount
  BY <1>2 DEF Bells, NoCount
<1> HIDE DEF n, b
<1>6. /\ conns' \in [Conns -> Links]
      /\ RowsLineUp' /\ ChannelsSound' /\ ViewSound'
      /\ Live' = Live /\ conns'[c] = n
      /\ \A d \in Conns : d # c => conns'[d] = conns[d] /\ chans'[d] = chans[d]
  BY <1>3, <1>4, LinkMoves
<1>7. bell' \in Bells /\ alone' \in BOOLEAN
  <2>1. CASE conns[c].read
    BY <1>1, <1>2, <1>5, <2>1
  <2>2. CASE ~ conns[c].read
    BY <1>1, <1>2, <2>2
  <2> QED
    BY <2>1, <2>2
<1>8. LiveShape'
  BY <1>6, <1>7 DEF LiveInv, LiveShape
<1>9. BellSound'
  <2>1. CASE ~ conns[c].read
    BY <1>1, <1>6, <2>1, UnreadStays
  <2>2. CASE conns[c].read
    <3>1. Live = {c} /\ bell' = b
      BY <1>1, <2>2 DEF Live, LiveInv, ChannelsSound
    <3>2. /\ alone' => alone /\ conns[c].at = "count" /\ k = Unread(conns[c].upTo)
      BY <2>2
    <3>3. stream = "bell" /\ alone' => bell.mark = "idle" /\ k = Unread(seenUpTo)
      BY <3>1, <3>2 DEF LiveInv, BellSound
    <3>4. \A d \in Live' : conns'[d].at # "count"
      BY <1>3, <1>6, <3>1
    <3>5. Unread(seenUpTo)' = Unread(seenUpTo)
      BY DEF Unread
    <3> HIDE DEF NoneComing
    <3> QED
      BY <1>5, <3>1, <3>3, <3>4, <3>5 DEF BellSound
  <2> QED
    BY <2>1, <2>2
<1> QED
  BY <1>6, <1>8, <1>9 DEF LiveInv

LEMMA CountKept ==
  ASSUME LiveInv, NEW c \in Conns, CountBlockedSince(c) \/ CountFails(c) PROVE LiveInv'
<1>1. CASE CountBlockedSince(c)
  <2>1. Unread(conns[c].upTo) \in Nat
    BY UnreadKnown DEF LiveInv
  <2>2. conns[c].at = "count" /\ Tells(c, Unread(conns[c].upTo)) /\ alone' = alone
        /\ UNCHANGED <<stream, made, waiting, table, pushing, subs, chans, view, missed>>
        /\ UNCHANGED <<seenUpTo, muddled>>
    BY <1>1 DEF CountBlockedSince, rowVars, viewVars
  <2> HIDE DEF Unread
  <2> QED
    BY <2>1, <2>2, TellsKept
<1>2. CASE CountFails(c)
  <2>1. conns[c].at \in {"seen", "count"} /\ Tells(c, 0)
        /\ alone' = (IF conns[c].read THEN FALSE ELSE alone)
        /\ UNCHANGED <<stream, made, waiting, table, pushing, subs, chans, view, missed>>
        /\ UNCHANGED <<seenUpTo, muddled>>
    BY <1>2 DEF CountFails, Counts, rowVars, viewVars
  <2> QED
    BY <2>1, TellsKept
<1> QED
  BY <1>1, <1>2

\* A step of the Stats view.
LEMMA ViewMoves ==
  ASSUME LiveInv, stream = "stats", view' \in Views, ViewSound',
         UNCHANGED <<stream, made, waiting, table, pushing, subs, chans, conns>>,
         UNCHANGED <<seenUpTo, bell, alone, muddled>>
  PROVE  LiveInv'
<1>1. LiveShape'
  BY DEF LiveInv, LiveShape
<1>2. RowsLineUp'
  BY DEF LiveInv, RowsLineUp
<1>3. Live' = Live
  BY DEF Live
<1>4. ChannelsSound'
  BY <1>3 DEF LiveInv, ChannelsSound
<1>5. BellSound'
  BY DEF BellSound
<1> QED
  BY <1>1, <1>2, <1>4, <1>5 DEF LiveInv

LEMMA NewestIs ==
  ASSUME NEW s \in SUBSET Rows
  PROVE  Newest(s) \in s \cup {0} /\ \A r \in s : r <= Newest(s)
<1>1. CASE s = {}
  BY <1>1 DEF Newest
<1>2. CASE s # {}
  <2> DEFINE T == {MaxRows - r : r \in s}
  <2>0. \A r \in s : MaxRows - r \in Nat
    BY LiveAssumption DEF Rows, LiveAssumption
  <2>1. T \subseteq Nat /\ T # {}
    BY <1>2, <2>0
  <2> HIDE DEF T
  <2>2. PICK i \in T : \A j \in T : ~ (<<j, i>> \in OpToRel(<, Nat))
    BY <2>1, NatLessThanWellFounded, WFMin
  <2>3. \A j \in T : ~ (j < i)
    BY <2>1, <2>2 DEF OpToRel
  <2>4. PICK m \in s : i = MaxRows - m
    BY <2>2 DEF T
  <2>5. \A q \in s : q <= m
    BY <2>3, <2>4, LiveAssumption DEF T, Rows
  <2> QED
    BY <1>2, <2>5 DEF Newest
<1> QED
  BY <1>1, <1>2

LEMMA ShowKept == LiveInv /\ (ShowStats \/ LogStatsSeed) => LiveInv'
<1> SUFFICES ASSUME LiveInv, ShowStats \/ LogStatsSeed PROVE LiveInv'
  OBVIOUS
<1>1. /\ view.at \in {"hidden", "seeding"} /\ stream = "stats"
      /\ view' = IF view.at = "hidden" THEN [view EXCEPT !.at = "seeding"]
                 ELSE [view EXCEPT !.at = "seeded", !.seed = table]
      /\ UNCHANGED <<stream, made, waiting, table, pushing, subs, chans, conns, missed>>
      /\ UNCHANGED <<seenUpTo, bell, alone, muddled>>
  BY DEF ShowStats, LogStatsSeed, rowVars, linkVars, bellVars, LiveInv, LiveShape, ViewSound
<1>2. view \in Views /\ table \in SUBSET Rows
  BY DEF LiveInv, LiveShape
<1>3. /\ view' \in Views /\ view'.at \in {"seeding", "seeded"}
      /\ view'.max = view.max /\ view'.pending = view.pending /\ view'.counted = view.counted
      /\ view'.at = "seeded" => view'.seed = table
      /\ view'.at = "seeding" => view'.seed = view.seed
  BY <1>1, <1>2 DEF Views
<1>4. Live' = Live
  BY <1>1 DEF Live
<1>5. \A r : Coming(r)' <=> Coming(r)
  BY <1>1, <1>4, ComingSame
<1>6. ViewSound'
  <2>1. \A q \in view'.seed : q \in table /\ \A r \in table : r <= q => r \in view'.seed
    BY <1>3 DEF LiveInv, ViewSound
  <2>2. \A r \in view.pending : r \in table /\ ~ Coming(r)
    BY DEF LiveInv, ViewSound
  <2>3. view.max = 0 /\ \A r \in Rows : view.counted[r] = 0
    BY <1>1 DEF LiveInv, ViewSound
  <2> HIDE DEF Coming
  <2> QED
    BY <1>1, <1>3, <1>5, <2>1, <2>2, <2>3 DEF ViewSound
<1> QED
  BY <1>1, <1>3, <1>6, ViewMoves

\* What is counted at first: each row of the seed, and each pending row that is
\* newer, once.
LEMMA CountSeedKept == LiveInv /\ CountSeed => LiveInv'
<1> SUFFICES ASSUME LiveInv, CountSeed PROVE LiveInv'
  OBVIOUS
<1> DEFINE m == Newest(view.seed)
           k == Counted(Counted(view.counted, view.seed), view.pending \ (0 .. m))
           v == [view EXCEPT !.at = "counting", !.max = m, !.pending = {}, !.counted = k]
<1>1. /\ view.at = "seeded" /\ view' = v
      /\ UNCHANGED <<stream, made, waiting, table, pushing, subs, chans, conns, missed>>
      /\ UNCHANGED <<seenUpTo, bell, alone, muddled>>
  BY DEF CountSeed, rowVars, linkVars, bellVars
<1>2. view \in Views /\ table \in SUBSET Rows /\ stream = "stats"
  BY <1>1 DEF LiveInv, LiveShape, ViewSound
<1>3. /\ view.seed \in SUBSET Rows /\ view.pending \in SUBSET Rows
      /\ \A r \in Rows : view.counted[r] = 0
  BY <1>1, <1>2 DEF LiveInv, ViewSound, Views
<1>4. m \in view.seed \cup {0} /\ (\A r \in view.seed : r <= m) /\ m \in Nat
  BY <1>3, NewestIs, LiveAssumption DEF Rows
<1> HIDE DEF m
<1>5. \A r \in Rows : r \in Int /\ r >= 1
  BY LiveAssumption DEF Rows
<1>6. /\ k \in [Rows -> Nat]
      /\ \A r \in Rows : k[r] = (IF r \in view.seed THEN 1 ELSE 0)
                                + (IF r \in view.pending /\ r > m THEN 1 ELSE 0)
  BY <1>3, <1>4, <1>5 DEF Counted
<1> HIDE DEF k
<1>7. /\ v \in Views /\ v.at = "counting" /\ v.max = m /\ v.pending = {}
      /\ v.seed = view.seed /\ v.counted = k
  BY <1>2, <1>4, <1>6 DEF Views
<1> HIDE DEF v
<1>8. Live' = Live
  BY <1>1 DEF Live
<1>9. \A r : Coming(r)' <=> Coming(r)
  BY <1>1, <1>8, ComingSame
<1>10. /\ \A q \in view.seed : q \in table /\ \A r \in table : r <= q => r \in view.seed
       /\ \A r \in view.pending : r \in table /\ ~ Coming(r)
       /\ \A r \in table : r \in view.seed \cup view.pending \cup missed \/ Coming(r)
  BY <1>1 DEF LiveInv, ViewSound
<1> HIDE DEF Coming
<1>11. m \in table \cup {0}
  BY <1>4, <1>10
<1>12. ASSUME NEW r \in Rows
       PROVE  /\ k[r] \in {0, 1}
              /\ k[r] = 1 => r \in table /\ (r > m => ~ Coming(r))
              /\ r \in table /\ r <= m => k[r] = 1
              /\ r \in table => k[r] = 1 \/ r \in missed \/ Coming(r)
  <2>1. r \in Int /\ r >= 1
    BY <1>5
  <2>2. r \in table /\ r <= m => r \in view.seed
    BY <1>4, <1>10, <2>1
  <2>3. r \in view.seed => r <= m /\ ~ (r > m)
    BY <1>4, <2>1
  <2>4. r \in view.seed => k[r] = 1
    BY <1>6, <2>3
  <2>5. r \notin view.seed => k[r] = IF r \in view.pending /\ r > m THEN 1 ELSE 0
    BY <1>6
  <2> QED
    BY <1>4, <1>10, <2>1, <2>2, <2>3, <2>4, <2>5
<1>13. ViewSound'
  BY <1>1, <1>2, <1>7, <1>9, <1>10, <1>11, <1>12 DEF ViewSound
<1> QED
  BY <1>1, <1>2, <1>7, <1>13, ViewMoves

LEMMA SeedFailsKept == LiveInv /\ SeedFails => LiveInv'
<1> SUFFICES ASSUME LiveInv, SeedFails PROVE LiveInv'
  OBVIOUS
<1> DEFINE k == Counted(view.counted, view.pending)
           v == [view EXCEPT !.at = "counting", !.pending = {}, !.counted = k]
<1>1. /\ view.at \in {"seeding", "seeded"} /\ view' = v
      /\ missed' = missed \cup (table \ ({pushing} \cup view.pending
                                      \cup UNION {RowsIn(chans[c].rows) : c \in Live}))
      /\ UNCHANGED <<stream, made, waiting, table, pushing, subs, chans, conns>>
      /\ UNCHANGED <<seenUpTo, bell, alone, muddled>>
  BY DEF SeedFails, rowVars, linkVars, bellVars
<1>2. view \in Views /\ table \in SUBSET Rows /\ stream = "stats"
  BY <1>1 DEF LiveInv, LiveShape, ViewSound
<1>3. /\ view.pending \in SUBSET Rows /\ view.max = 0
      /\ \A r \in Rows : view.counted[r] = 0
  BY <1>1, <1>2 DEF LiveInv, ViewSound, Views
<1>4. /\ k \in [Rows -> Nat]
      /\ \A r \in Rows : k[r] = IF r \in view.pending THEN 1 ELSE 0
  BY <1>3 DEF Counted
<1> HIDE DEF k
<1>5. /\ v \in Views /\ v.at = "counting" /\ v.max = 0 /\ v.pending = {}
      /\ v.seed = view.seed /\ v.counted = k
  BY <1>2, <1>3, <1>4 DEF Views
<1> HIDE DEF v
<1>6. Live' = Live
  BY <1>1 DEF Live
<1>7. \A r : Coming(r)' <=> Coming(r)
  BY <1>1, <1>6, ComingSame
<1>8. /\ \A q \in view.seed : q \in table /\ \A r \in table : r <= q => r \in view.seed
      /\ \A r \in view.pending : r \in table /\ ~ Coming(r)
  BY DEF LiveInv, ViewSound
<1>9. \A r \in table : r \in view.pending \/ r \in missed' \/ Coming(r)
  BY <1>1 DEF Coming
<1> HIDE DEF Coming
<1>10. ASSUME NEW r \in Rows
       PROVE  /\ k[r] \in {0, 1}
              /\ k[r] = 1 => r \in table /\ ~ Coming(r)
              /\ ~ (r <= 0)
              /\ r \in table => k[r] = 1 \/ r \in missed' \/ Coming(r)
  BY <1>4, <1>8, <1>9, LiveAssumption DEF Rows
<1>11. ViewSound'
  BY <1>1, <1>2, <1>5, <1>7, <1>8, <1>10 DEF ViewSound
<1> QED
  BY <1>1, <1>2, <1>5, <1>11, ViewMoves

\* A step of the bell.
LEMMA BellMoves ==
  ASSUME LiveInv, bell' \in Bells, seenUpTo' \in Nat, alone' \in BOOLEAN, muddled' \in BOOLEAN,
         UNCHANGED <<stream, made, waiting, table, pushing, subs, chans, conns, view, missed>>,
         (NoneComing' <=> NoneComing) /\ (\A n : Unread(n)' = Unread(n)) => BellSound'
  PROVE  LiveInv'
<1>1. LiveShape'
  BY DEF LiveInv, LiveShape
<1>2. RowsLineUp'
  BY DEF LiveInv, RowsLineUp
<1>3. Live' = Live
  BY DEF Live
<1>4. ChannelsSound'
  BY <1>3 DEF LiveInv, ChannelsSound
<1>5. \A r : Coming(r)' <=> Coming(r)
  BY <1>3, ComingSame
<1>6. ViewSound'
  BY <1>5, ViewStays
<1>7. NoneComing' <=> NoneComing
  BY <1>3, NoneSame
<1>8. \A n : Unread(n)' = Unread(n)
  BY DEF Unread
<1> QED
  BY <1>1, <1>2, <1>4, <1>6, <1>7, <1>8 DEF LiveInv

LEMMA BellKept ==
  LiveInv /\ (UpdateBadge \/ MarkAllRead \/ MarkNotificationsSeen \/ SeenFails \/ ClearBadge)
    => LiveInv'
<1> SUFFICES ASSUME LiveInv,
                    UpdateBadge \/ MarkAllRead \/ MarkNotificationsSeen \/ SeenFails \/ ClearBadge
             PROVE  LiveInv'
  OBVIOUS
<1>1. /\ UNCHANGED <<stream, made, waiting, table, pushing, subs, chans, conns, view, missed>>
      /\ bell \in Bells /\ seenUpTo \in Nat /\ made \in Nat /\ alone \in BOOLEAN /\ muddled \in BOOLEAN
  BY DEF UpdateBadge, MarkAllRead, MarkNotificationsSeen, SeenFails, ClearBadge,
         rowVars, linkVars, viewVars, LiveInv, LiveShape
<1>2. /\ stream = "bell" /\ alone => bell.mark = "idle"
      /\ stream = "bell" /\ ~ muddled /\ bell.count = NoCount /\ NoneComing =>
           /\ bell.mark = "idle" => bell.badge = Unread(seenUpTo)
           /\ bell.mark = "answered" => Unread(seenUpTo) = 0
      /\ stream = "bell" /\ alone /\ bell.count # NoCount /\ NoneComing => bell.count = Unread(seenUpTo)
      /\ stream = "bell" => \A c \in Live : alone /\ conns[c].at = "count" => conns[c].upTo = seenUpTo
  BY DEF LiveInv, BellSound
<1>3. Live' = Live
  BY <1>1 DEF Live
<1> USE <1>1, <1>2, <1>3
<1> HIDE DEF NoneComing, Unread
<1>4. CASE UpdateBadge
  <2> DEFINE b == [bell EXCEPT !.count = NoCount, !.badge = bell.count]
  <2>1. /\ bell.count # NoCount /\ bell' = b /\ muddled' = ~ alone
        /\ UNCHANGED <<seenUpTo, alone>>
    BY <1>4 DEF UpdateBadge
  <2>10. NoCount \in Int /\ bell.count \in Int
    BY DEF NoCount, Bells
  <2>11. b = [bell EXCEPT !.count = NoCount, !.badge = bell.count]
    OBVIOUS
  <2> HIDE DEF b
  <2>2. b \in Bells /\ b.count = NoCount /\ b.badge = bell.count /\ b.mark = bell.mark
    <3>1. b \in Bells
      BY <2>10, <2>11 DEF Bells
    <3>2. b.count = NoCount
      BY <2>10, <2>11 DEF Bells
    <3>3. b.badge = bell.count
      BY <2>10, <2>11 DEF Bells
    <3>4. b.mark = bell.mark
      BY <2>10, <2>11 DEF Bells
    <3> QED
      BY <3>1, <3>2, <3>3, <3>4
  <2>3. (NoneComing' <=> NoneComing) /\ (\A n : Unread(n)' = Unread(n)) => BellSound'
    BY <2>1, <2>2 DEF BellSound
  <2>4. muddled' \in BOOLEAN
    BY <2>1
  <2> QED
    BY <2>1, <2>2, <2>3, <2>4, BellMoves
<1>5. CASE MarkAllRead
  <2> DEFINE b == [bell EXCEPT !.mark = "sent"]
  <2>1. bell.mark = "idle" /\ bell' = b /\ alone' = FALSE /\ UNCHANGED <<seenUpTo, muddled>>
    BY <1>5 DEF MarkAllRead
  <2>2. b \in Bells /\ b.count = bell.count /\ b.badge = bell.badge /\ b.mark = "sent"
    BY DEF Bells
  <2> HIDE DEF b
  <2>3. (NoneComing' <=> NoneComing) /\ (\A n : Unread(n)' = Unread(n)) => BellSound'
    BY <2>1, <2>2 DEF BellSound
  <2> QED
    BY <2>1, <2>2, <2>3, BellMoves
<1>6. CASE MarkNotificationsSeen
  <2> DEFINE b == [bell EXCEPT !.mark = "answered"]
  <2>1. /\ bell.mark = "sent" /\ seenUpTo' = made /\ bell' = b /\ UNCHANGED <<alone, muddled>>
    BY <1>6 DEF MarkNotificationsSeen
  <2>2. b \in Bells /\ b.count = bell.count /\ b.badge = bell.badge /\ b.mark = "answered"
    BY DEF Bells
  <2> HIDE DEF b
  <2>3. Unread(made) = 0
    <3>1. Len(waiting) \in Nat /\ table \subseteq Rows
      BY DEF LiveInv, LiveShape
    <3>2. \A r \in table : ~ (r > made)
      BY <3>1, LiveAssumption DEF LiveInv, RowsLineUp, Rows
    <3>3. {r \in table \cap BlockedRows : r > made} = {}
      BY <3>2
    <3> QED
      BY <3>3, FS_EmptySet DEF Unread
  <2>4. (NoneComing' <=> NoneComing) /\ (\A n : Unread(n)' = Unread(n)) => BellSound'
    BY <2>1, <2>2, <2>3 DEF BellSound
  <2> QED
    BY <2>1, <2>2, <2>4, BellMoves
<1>7. CASE SeenFails
  <2> DEFINE b == [bell EXCEPT !.mark = "answered"]
  <2>1. bell.mark = "sent" /\ bell' = b /\ muddled' = TRUE /\ UNCHANGED <<seenUpTo, alone>>
    BY <1>7 DEF SeenFails
  <2>2. b \in Bells /\ b.count = bell.count /\ b.badge = bell.badge /\ b.mark = "answered"
    BY DEF Bells
  <2> HIDE DEF b
  <2>3. (NoneComing' <=> NoneComing) /\ (\A n : Unread(n)' = Unread(n)) => BellSound'
    BY <2>1, <2>2 DEF BellSound
  <2> QED
    BY <2>1, <2>2, <2>3, BellMoves
<1>11. CASE ClearBadge
  <2> DEFINE b == [bell EXCEPT !.mark = "idle", !.badge = 0]
  <2>1. bell.mark = "answered" /\ bell' = b /\ UNCHANGED <<seenUpTo, alone, muddled>>
    BY <1>11 DEF ClearBadge
  <2>11. b = [bell EXCEPT !.mark = "idle", !.badge = 0]
    OBVIOUS
  <2> HIDE DEF b
  <2>2. b \in Bells /\ b.count = bell.count /\ b.badge = 0 /\ b.mark = "idle"
    <3>1. b \in Bells
      <4>1. PICK z \in Int : z = 0
        OBVIOUS
      <4>2. b = [bell EXCEPT !.mark = "idle", !.badge = z]
        BY <2>11, <4>1
      <4> QED
        BY <4>2 DEF Bells
    <3>2. b.count = bell.count
      BY <2>11 DEF Bells
    <3>3. b.badge = 0
      BY <2>11 DEF Bells
    <3>4. b.mark = "idle"
      BY <2>11 DEF Bells
    <3> QED
      BY <3>1, <3>2, <3>3, <3>4
  <2>3. (NoneComing' <=> NoneComing) /\ (\A n : Unread(n)' = Unread(n)) => BellSound'
    BY <2>1, <2>2 DEF BellSound
  <2> QED
    BY <2>1, <2>2, <2>3, BellMoves
<1> QED
  BY <1>4, <1>5, <1>6, <1>7, <1>11

LEMMA LiveUnchanged == LiveInv /\ UNCHANGED liveVars => LiveInv'
<1> SUFFICES ASSUME LiveInv, UNCHANGED liveVars PROVE LiveInv'
  OBVIOUS
<1>1. UNCHANGED <<stream, made, waiting, table, pushing, subs, chans, conns, view, missed>>
      /\ UNCHANGED <<seenUpTo, bell, alone, muddled>>
  BY DEF liveVars, rowVars, linkVars, viewVars, bellVars
<1>2. Live' = Live
  BY <1>1 DEF Live
<1>3. BellSound'
  BY <1>1, <1>2, NoneSame, BellStays
<1> QED
  BY <1>1, <1>3, BellMoves DEF LiveInv, LiveShape

LEMMA LiveKept == LiveInv /\ [NextLive]_liveVars => LiveInv'
<1> SUFFICES ASSUME LiveInv, NextLive PROVE LiveInv'
  BY LiveUnchanged
<1>1. ASSUME NEW c \in Conns,
             \/ Subscribe(c) \/ Break(c) \/ Unsubscribe(c) \/ Close(c)
             \/ LogsStream(c) \/ NotificationsStream(c)
             \/ NotificationsSeenAt(c) \/ CountBlockedSince(c) \/ CountFails(c)
      PROVE  LiveInv'
  BY <1>1, ComesOrGoes, BreakKept, StreamKept, NotificationsStreamKept, SeenAtKept, CountKept
<1> QED
  BY <1>1, RequestKept, InsertRowKept, InsertFailsKept, BroadcastKept, ShowKept,
     CountSeedKept, SeedFailsKept, BellKept DEF NextLive

\* At rest nothing is coming, so the invariants say what has been.
LEMMA LiveHold ==
  LiveInv => OpenWhileSubscribed /\ CountedOnce /\ NothingElseIsLost /\ BadgeTells
<1> SUFFICES ASSUME LiveInv
             PROVE  OpenWhileSubscribed /\ CountedOnce /\ NothingElseIsLost /\ BadgeTells
  OBVIOUS
<1>1. OpenWhileSubscribed
  BY DEF LiveInv, ChannelsSound, OpenWhileSubscribed
<1>2. CountedOnce
  <2> SUFFICES ASSUME NEW r \in Rows PROVE view.counted[r] <= 1
    BY DEF CountedOnce
  <2>1. view.counted[r] \in {0, 1}
    BY DEF LiveInv, ViewSound
  <2> QED
    BY <2>1
<1>3. RowsAtRest => \A r \in table : ~ Coming(r)
  <2> SUFFICES ASSUME RowsAtRest, NEW r \in table PROVE ~ Coming(r)
    OBVIOUS
  <2>1. r # 0
    BY DEF LiveInv, LiveShape, Rows
  <2>2. \A c \in Live : RowsIn(chans[c].rows) = {}
    BY DEF RowsAtRest, RowsIn
  <2> QED
    BY <2>1, <2>2 DEF RowsAtRest, Coming
<1>4. NothingElseIsLost
  <2> SUFFICES ASSUME RowsAtRest, view.at = "counting", NEW r \in table
               PROVE  view.counted[r] = 1 \/ r \in missed
    BY DEF NothingElseIsLost
  <2>1. r \in Rows
    BY DEF LiveInv, LiveShape
  <2> HIDE DEF Coming
  <2> QED
    BY <1>3, <2>1 DEF LiveInv, ViewSound
<1>5. BadgeTells
  <2> SUFFICES ASSUME RowsAtRest PROVE NoneComing
    BY DEF BadgeTells, LiveInv, BellSound
  <2>1. \A c \in Live : conns[c].at = "on"
    BY DEF RowsAtRest
  <2> HIDE DEF Coming
  <2> QED
    BY <1>3, <2>1 DEF NoneComing
<1> QED
  BY <1>1, <1>2, <1>4, <1>5

\* logger.go, logs.go and logstats.js: while streams come, break and go, no row
\* is sent to a closed channel, the Stats view counts every stored row once but
\* for those a full channel, a broken stream or a failed seed lost, and the badge
\* is the number of unread blocked rows whenever all is at rest, unless a mark
\* overlapped a count, a row was missed or a call failed and none was counted
\* undisturbed since.
THEOREM Streams == SpecLive => []StreamsTell
<1>1. LiveInv => StreamsTell
  BY LiveHold DEF StreamsTell
<1> QED
  BY <1>1, LiveStarts, LiveKept, PTL DEF SpecLive

\* -- Side by side ------------------------------------------------------------

\* Each machine keeps its own invariant, and those of the others when it moves.
EnginesInv ==
  /\ GateInv /\ KeyInv /\ FormInv /\ SignedInv
  /\ IdsInv /\ RulesInv
  /\ VerdictInv
  /\ GeoInv
  /\ HostInv

LEMMA EnginesStart == Init => EnginesInv
BY GateInit, KeyInit, FormInit, IdsInit, RulesInit, VerdictsInit, GeoStarts, HostsInit DEF Init, EnginesInv

LEMMA EnginesStep == EnginesInv /\ [Next]_<<machine, gateVars, wafVars, verdictVars, geoVars, hostVars, liveVars>> => EnginesInv'
<1> SUFFICES ASSUME EnginesInv,
                    [Next]_<<machine, gateVars, wafVars, verdictVars, geoVars, hostVars, liveVars>>
             PROVE  EnginesInv'
  OBVIOUS
<1>1. /\ [NextChallenge]_gateVars /\ [NextWafRules]_wafVars /\ [NextVerdicts]_verdictVars
      /\ [NextGeo]_geoVars /\ [NextHosts]_hostVars
  BY DEF Next
<1> QED
  BY <1>1, GateNext, KeyNext, FormNext, IdsNext, RulesNext, VerdictsNext, GeoNext, HostsNext
  DEF EnginesInv

\* Once nobody changes settings, rules, countries or names, and unless a step
\* failed or two changes met, what judges requests is what the tables say:
\* handlers that write a table and swap in what they built from it afterwards
\* leave no other state behind, nor does a start in between.
THEOREM InForce == Spec => []SettingsInForce
<1>1. EnginesInv => SettingsInForce
  <2> SUFFICES ASSUME EnginesInv PROVE SettingsInForce
    OBVIOUS
  <2>1. TypeOKChallenge /\ RunsWhatIsStored
    BY FormsHold DEF EnginesInv
  <2>2. TypeOKWafRules /\ EnginesFollowTables /\ EnginesOfOneBuild
    BY RulesHold DEF EnginesInv
  <2>3. TypeOKGeo /\ GeoFollowsTable
    BY GeoHold DEF EnginesInv
  <2>4. TypeOKHosts /\ NamesInForce
    BY NamesHold, HostsTyped DEF EnginesInv
  <2> QED
    BY <2>1, <2>2, <2>3, <2>4 DEF SettingsInForce, Types
<1> QED
  BY <1>1, EnginesStart, EnginesStep, PTL DEF Spec
=============================================================================
