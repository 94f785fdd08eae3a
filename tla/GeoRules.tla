------------------------------ MODULE GeoRules ------------------------------
(***************************************************************************)
(* The geo rules of one country: the table, the Blocker's copy that        *)
(* decides requests, and the set of risk countries the threat scorer keeps *)
(* from the same rows.  A handler writes the table, reloads the Blocker,   *)
(* reads the table a second time and hands the rows to the scorer.         *)
(***************************************************************************)
EXTENDS Integers, FiniteSets

CONSTANTS
  Scopes,         \* app names a rule may have; Global for every service
  Global,
  GeoCalls,       \* handlers under way
  MaxGeoChanges,  \* bound: changes and restarts
  MaxGeoFaults    \* bound: failing reads

VARIABLES
  geoRows,    \* the table: per scope "none", "block" or "allow"
  geoBlocker, \* Blocker.rules
  geoRisk,    \* whether the country is in Scorer.riskCountries
  geoCalls,   \* where a handler is, the rows it read
  geoChanges, geoFaults, \* history: how many
  geoBehind   \* history: a read failed or two handlers overlapped, and none
              \* that ran alone has finished since

geoVars == <<geoRows, geoBlocker, geoRisk, geoCalls, geoChanges, geoFaults, geoBehind>>

NoRules == [s \in Scopes |-> "none"]
GeoIdle == [at |-> "idle", rows |-> NoRules, alone |-> FALSE]

Serving(c) == geoCalls[c].at # "idle"

RiskCountry(rows) == \E s \in Scopes : rows[s] = "block"

\* Check: the rule of the service before the global one.
Blocks(rules, s) == IF rules[s] # "none" THEN rules[s] = "block" ELSE rules[Global] = "block"

\* AddGeoRule and DeleteGeoRule: the write.
ChangeGeoRule(c) ==
  /\ ~ Serving(c) /\ geoChanges < MaxGeoChanges
  /\ \E s \in Scopes, rule \in {"none", "block", "allow"} :
       geoRows' = [geoRows EXCEPT ![s] = rule]
  /\ geoChanges' = geoChanges + 1
  /\ geoCalls' = [o \in GeoCalls |->
       IF o = c THEN [GeoIdle EXCEPT !.at = "read", !.alone = \A p \in GeoCalls : ~ Serving(p)]
       ELSE [geoCalls[o] EXCEPT !.alone = FALSE]]
  /\ geoBehind' = (geoBehind \/ \E p \in GeoCalls : Serving(p))
  /\ UNCHANGED <<geoBlocker, geoRisk, geoFaults>>

ListGeoRules(c) ==
  /\ geoCalls[c].at \in {"read", "list"}
  /\ geoCalls' = [geoCalls EXCEPT
       ![c].at = IF @ = "read" THEN "install" ELSE "score", ![c].rows = geoRows]
  /\ UNCHANGED <<geoRows, geoBlocker, geoRisk, geoChanges, geoFaults, geoBehind>>

ReloadBlocker(c) ==
  /\ geoCalls[c].at = "install"
  /\ geoBlocker' = geoCalls[c].rows
  /\ geoCalls' = [geoCalls EXCEPT ![c].at = "list"]
  /\ UNCHANGED <<geoRows, geoRisk, geoChanges, geoFaults, geoBehind>>

ReloadGeoRules(c) ==
  /\ geoCalls[c].at = "score"
  /\ geoRisk' = RiskCountry(geoCalls[c].rows)
  /\ geoCalls' = [geoCalls EXCEPT ![c] = GeoIdle]
  /\ geoBehind' = (geoBehind /\ ~ geoCalls[c].alone)
  /\ UNCHANGED <<geoRows, geoBlocker, geoChanges, geoFaults>>

\* The first read fails: an error for the admin, nothing reloaded.  The second
\* one's error is dropped, and the scorer is given no rules at all.
GeoReadFails(c) ==
  /\ geoCalls[c].at \in {"read", "list"} /\ geoFaults < MaxGeoFaults
  /\ geoFaults' = geoFaults + 1
  /\ geoCalls' = [geoCalls EXCEPT ![c] =
       IF @.at = "read" THEN GeoIdle
       ELSE [@ EXCEPT !.at = "score", !.rows = NoRules, !.alone = FALSE]]
  /\ geoBehind' = TRUE
  /\ UNCHANGED <<geoRows, geoBlocker, geoRisk, geoChanges>>

StartGeo ==
  /\ geoChanges < MaxGeoChanges /\ geoChanges' = geoChanges + 1
  /\ geoBlocker' = geoRows /\ geoRisk' = RiskCountry(geoRows)
  /\ geoCalls' = [c \in GeoCalls |-> GeoIdle]
  /\ geoBehind' = FALSE
  /\ UNCHANGED <<geoRows, geoFaults>>

InitGeo ==
  /\ geoRows = NoRules /\ geoBlocker = NoRules /\ geoRisk = FALSE
  /\ geoCalls = [c \in GeoCalls |-> GeoIdle]
  /\ geoChanges = 0 /\ geoFaults = 0 /\ geoBehind = FALSE

NextGeo ==
  \/ \E c \in GeoCalls : \/ ChangeGeoRule(c) \/ ListGeoRules(c) \/ ReloadBlocker(c)
                         \/ ReloadGeoRules(c) \/ GeoReadFails(c)
  \/ StartGeo

SpecGeo == InitGeo /\ [][NextGeo]_geoVars

\* -- Properties ------------------------------------------------------------

TypeOKGeo ==
  /\ geoRows \in [Scopes -> {"none", "block", "allow"}]
  /\ geoBlocker \in [Scopes -> {"none", "block", "allow"}]
  /\ geoRisk \in BOOLEAN /\ geoBehind \in BOOLEAN
  /\ \A c \in GeoCalls : geoCalls[c].at \in {"idle", "read", "install", "list", "score"}

\* Once no handler is under way, what is blocked and what counts as a risk are
\* what the table says, unless a read failed or two handlers overlapped and
\* none has run alone since.
GeoFollowsTable ==
  (~ geoBehind /\ \A c \in GeoCalls : ~ Serving(c)) =>
    /\ \A s \in Scopes : Blocks(geoBlocker, s) = Blocks(geoRows, s)
    /\ geoRisk = RiskCountry(geoRows)

=============================================================================
