----------------------------- MODULE MCEngines -----------------------------
(* Instances of Challenge, WafRules, VerdictCache, GeoRules, Hosts and      *)
(* LiveLog for TLC.                                                         *)
(* They share no variable, so each moves while the others stay as they      *)
(* started.                                                                 *)
EXTENDS Challenge, WafRules, VerdictCache, GeoRules, Hosts, LiveLog, TLC

VARIABLE machine \* the one that moves

\* The calls of the machines, and what they name, share their values.
Symmetry == Permutations(Posts) \cup Permutations(Nonces) \cup Permutations(Savers)

OffForm == [on |-> FALSE, ttl |-> 2]
BotFormsDef == {[on |-> TRUE, ttl |-> 1], OffForm}
EveryService == "all"

Init ==
  /\ InitChallenge /\ InitWafRules /\ InitVerdicts /\ InitGeo /\ InitHosts
  /\ InitLive
  /\ machine \in {"challenge", "rules", "verdicts", "geo", "hosts", "live"}
  /\ machine # "challenge" => meta = OffForm
  /\ machine # "hosts" => HostsOf(svcRows[1]) = {}
  /\ machine # "live" => stream = "bell"

Next ==
  /\ UNCHANGED machine
  /\ \/ machine = "challenge" /\ NextChallenge /\ UNCHANGED <<wafVars, verdictVars, geoVars, hostVars, liveVars>>
     \/ machine = "rules" /\ NextWafRules /\ UNCHANGED <<gateVars, verdictVars, geoVars, hostVars, liveVars>>
     \/ machine = "verdicts" /\ NextVerdicts /\ UNCHANGED <<gateVars, wafVars, geoVars, hostVars, liveVars>>
     \/ machine = "geo" /\ NextGeo /\ UNCHANGED <<gateVars, wafVars, verdictVars, hostVars, liveVars>>
     \/ machine = "hosts" /\ NextHosts /\ UNCHANGED <<gateVars, wafVars, verdictVars, geoVars, liveVars>>
     \/ machine = "live" /\ NextLive /\ UNCHANGED <<gateVars, wafVars, verdictVars, geoVars, hostVars>>

Spec == Init /\ [][Next]_<<machine, gateVars, wafVars, verdictVars, geoVars, hostVars, liveVars>>

Types == TypeOKChallenge /\ TypeOKWafRules /\ TypeOKGeo /\ TypeOKHosts

\* What runs is what the tables say, and of one build, once nobody changes
\* them: the Challenger, the engines, the geo rules, the risk countries and the
\* names.
SettingsInForce ==
  Types /\ RunsWhatIsStored /\ EnginesFollowTables /\ EnginesOfOneBuild /\ GeoFollowsTable /\ NamesInForce

\* What the browser is told: every stored row once, and the right badge.
StreamsTell == OpenWhileSubscribed /\ CountedOnce /\ NothingElseIsLost /\ BadgeTells
=============================================================================
