------------------------------ MODULE Autoban ------------------------------
(***************************************************************************)
(* The automatic banner of one node (internal/security/autoban) on top of  *)
(* the shared rules of module Blocklist.  Requests that were stopped leave *)
(* rows on the log queue; the log worker hands each row to Banner.Record,  *)
(* which adds up points per client address over a sliding window and, once *)
(* the threshold is crossed, sets a marker and starts a goroutine that     *)
(* looks the address up in the table, writes a block rule, reloads the     *)
(* node's blocklist and mails the admin.  Meanwhile admins change rules and *)
(* settings, and the process may crash.                                    *)
(*                                                                         *)
(* Time is a number of ticks; what the code compares with now() is kept as *)
(* an age, capped where the comparison no longer changes.                  *)
(***************************************************************************)
EXTENDS Blocklist, FiniteSets

CONSTANTS
  Node,        \* the node whose banner this is
  Admins,      \* its handlers that add and delete rules
  Bans,        \* its ban goroutines
  Savers,      \* its handlers that save the autoban settings
  Settings,    \* the settings an admin may save
  Default,     \* DefaultAutobanConfig
  Classes,     \* what may happen to a request that is not let through
  Private,     \* addresses that bannable() rejects
  QueueCap,    \* capacity of the log queue
  MaxWindow,   \* the longest window in Settings, in ticks
  MarkerLife,  \* lifetime of a dedupe marker (an hour), in ticks
  MaxFaults,   \* bound on database errors met by the banner and the worker
  MaxSaves     \* bound on saved settings

\* criticalRule and Record: points per row.  Rows of requests stopped by an IP
\* or geo rule (ip_blocked, geo_blocked) are not in the domain.
Points == [critical |-> 5, waf |-> 2, rate_limited |-> 1, bot_challenge |-> 1]

ASSUME AutobanAssumption ==
  /\ Node \in Nodes
  /\ Handlers = Admins \cup Bans
  /\ Admins \cap Bans = {}
  /\ \A h \in Handlers : Home[h] = Node
  /\ Classes \subseteq DOMAIN Points \cup {"ip_blocked"}
  /\ Settings \subseteq
       [enabled : BOOLEAN, threshold : 1..1000, window : 1..MaxWindow]
  /\ Default \in
       [enabled : BOOLEAN, threshold : 1..1000, window : 1..MaxWindow]
  /\ Settings # {}
  /\ QueueCap \in Nat \ {0}
  /\ MarkerLife \in Nat \ {0}
  /\ MaxWindow \in Nat /\ MaxWindow > MarkerLife
  /\ MaxFaults \in Nat /\ MaxSaves \in Nat

VARIABLES
  settings,  \* the settings in the meta table
  cfg,       \* Banner.cfg
  saver,     \* settings handler -> its step and the settings it holds
  queue,     \* DB.logQueue: rows with the address, what happened, the age
  events,    \* Banner.hist: address -> points and age of each scored row
  banned,    \* Banner.banned: address with a marker -> the marker's age
  job,       \* ban goroutine -> its step and address
  sinceBan,  \* address -> time since a ban of it was decided (history)
  faults,    \* database errors so far
  saves      \* settings saved so far

bvars == <<settings, cfg, saver, queue, events, banned, job, sinceBan,
           faults, saves>>
allVars == <<vars, bvars>>

NoJob == [step |-> "none"]
\* The zero AutobanConfig of a banner that could not read its settings.
NoCfg == [enabled |-> FALSE, threshold |-> 0, window |-> 0]
\* A save that is cut short, or overlaps another, may leave a mixture nobody
\* asked for.
AnySettings == [enabled : BOOLEAN, threshold : 1..1000, window : 1..MaxWindow]
Blocked(ip) == Rules(Node)[ip] = "block"

TypeOKAutoban ==
  /\ TypeOK
  /\ settings \in AnySettings
  /\ cfg \in AnySettings \cup {NoCfg}
  /\ saver \in [Savers -> [step : {"idle", "threshold", "window", "read", "swap"},
                           got : AnySettings \cup {NoCfg}]]
  /\ Len(queue) <= QueueCap
  /\ \A i \in 1..Len(queue) :
       queue[i] \in [ip : IPs, class : Classes, age : 0..MarkerLife]
  /\ DOMAIN events = IPs
  /\ \A ip \in IPs : \A i \in 1..Len(events[ip]) :
       events[ip][i] \in [pts : {1, 2, 5}, age : 0..MaxWindow]
  /\ DOMAIN banned \subseteq IPs \ Private
  /\ \A ip \in DOMAIN banned : banned[ip] \in 0..MarkerLife+1
  /\ job \in [Bans -> {NoJob} \cup
                [step : {"lookup", "write", "reload"}, ip : IPs]]
  /\ sinceBan \in [IPs -> 0..MaxWindow]
  /\ faults \in 0..MaxFaults
  /\ saves \in 0..MaxSaves

\* A fresh installation.
Init0 ==
  /\ Init
  /\ settings = Default
  /\ cfg = settings
  /\ saver = [s \in Savers |-> [step |-> "idle", got |-> NoCfg]]
  /\ queue = <<>>
  /\ events = [ip \in IPs |-> <<>>]
  /\ banned = <<>>
  /\ job = [b \in Bans |-> NoJob]
  /\ sinceBan = [ip \in IPs |-> MaxWindow]
  /\ faults = 0
  /\ saves = 0

\* A database call returns an error.
Fault == faults < MaxFaults /\ faults' = faults + 1

----------------------------------------------------------------------------
(* Rows.                                                                    *)

\* A request of ip is stopped and logged; QueueRequest drops the row when the
\* queue is full.  The IP rules come first in the request pipeline.
Stopped(ip, class) ==
  /\ Node \notin booting
  /\ class = "ip_blocked" <=> Blocked(ip)
  /\ Len(queue) < QueueCap
  /\ queue' = Append(queue, [ip |-> ip, class |-> class, age |-> 0])
  /\ UNCHANGED <<vars, settings, cfg, saver, events, banned, job, sinceBan,
                 faults, saves>>

\* InsertRequest fails: the row is not handed on.
InsertFails ==
  /\ queue # <<>>
  /\ queue' = Tail(queue)
  /\ Fault
  /\ UNCHANGED <<vars, settings, cfg, saver, events, banned, job, sinceBan,
                 saves>>

Unscored(row) ==
  \/ row.class \notin DOMAIN Points
  \/ ~cfg.enabled
  \/ row.ip \in Private
  \/ row.ip \in DOMAIN banned

\* pruneEvents
Pruned(evs) ==
  LET kept[i \in 0..Len(evs)] ==
        IF i = 0 THEN <<>>
        ELSE IF evs[i].age < cfg.window THEN Append(kept[i-1], evs[i])
        ELSE kept[i-1]
  IN  kept[Len(evs)]

Recent(row) ==
  Append(Pruned(events[row.ip]),
         [pts |-> Points[row.class], age |-> row.age])

Score(evs) ==
  LET sum[i \in 0..Len(evs)] == IF i = 0 THEN 0 ELSE sum[i-1] + evs[i].pts
  IN  sum[Len(evs)]

RecordIgnored ==
  /\ queue # <<>>
  /\ Unscored(Head(queue))
  /\ queue' = Tail(queue)
  /\ UNCHANGED <<vars, settings, cfg, saver, events, banned, job, sinceBan,
                 faults, saves>>

RecordScored ==
  /\ queue # <<>>
  /\ LET row == Head(queue) IN
       /\ ~Unscored(row)
       /\ Score(Recent(row)) < cfg.threshold
       /\ events' = [events EXCEPT ![row.ip] = Recent(row)]
  /\ queue' = Tail(queue)
  /\ UNCHANGED <<vars, settings, cfg, saver, banned, job, sinceBan, faults,
                 saves>>

\* Goroutines are anonymous: any one that is not running will do.
Free == {b \in Bans : job[b] = NoJob /\ pc[b] = "idle"}

\* The common part of RecordBan and its mutants.
Crossed(b, row) ==
  /\ queue # <<>>
  /\ ~Unscored(row)
  /\ Score(Recent(row)) >= cfg.threshold
  /\ Free # {} /\ b = CHOOSE f \in Free : TRUE
  /\ queue' = Tail(queue)
  /\ job' = [job EXCEPT ![b] =
               [step |-> "lookup", ip |-> row.ip]]
  /\ sinceBan' = [sinceBan EXCEPT ![row.ip] = 0]
  /\ UNCHANGED <<vars, settings, cfg, saver, faults, saves>>

Mark(ip) == [a \in DOMAIN banned \cup {ip} |->
               IF a = ip THEN 0 ELSE banned[a]]

\* Mutant: the marker is left to the goroutine to set, once it has banned.
BanWithoutMarker(b) ==
  LET row == Head(queue) IN
    /\ Crossed(b, row)
    /\ events' = [events EXCEPT ![row.ip] = <<>>]
    /\ UNCHANGED banned

\* Mutant: the history that earned the ban is kept.
BanKeepsHistory(b) ==
  LET row == Head(queue) IN
    /\ Crossed(b, row)
    /\ banned' = Mark(row.ip)
    /\ events' = [events EXCEPT ![row.ip] = Recent(row)]

\* The threshold is crossed: the marker is set and the history dropped under
\* the lock, then the goroutine starts.
RecordBan(b) ==
  LET row == Head(queue) IN
    /\ Crossed(b, row)
    /\ banned' = Mark(row.ip)
    /\ events' = [events EXCEPT ![row.ip] = <<>>]

----------------------------------------------------------------------------
(* The ban goroutine.                                                       *)

Ended(b) == job' = [job EXCEPT ![b] = NoJob]

\* GetIPRuleType: on an error or an existing rule the goroutine gives up.
BanLookup(b) ==
  /\ job[b].step = "lookup"
  /\ \/ Fault /\ Ended(b)
     \/ table[job[b].ip] # "none" /\ Ended(b) /\ UNCHANGED faults
     \/ /\ table[job[b].ip] = "none"
        /\ job' = [job EXCEPT ![b].step = "write"]
        /\ UNCHANGED faults
  /\ UNCHANGED <<vars, settings, cfg, saver, queue, events, banned, sinceBan,
                 saves>>

\* Mutant: the rule is in the table, but the goroutine forgets to reload.
BanWriteForgets(b) ==
  /\ job[b].step = "write"
  /\ rev <= MaxRev
  /\ hist' = Append(hist, [table EXCEPT ![job[b].ip] = "block"])
  /\ job' = [job EXCEPT ![b].step = "reload"]
  /\ UNCHANGED <<view, pc, seen, booting, subscribed, inbox, restarts,
                 overtaken, missed, settings, cfg, saver, queue, events,
                 banned, sinceBan, faults, saves>>

\* AddIPRuleWithNote upserts, whatever rule is there by now; then the reload
\* of module Blocklist takes over.
BanWrite(b) ==
  /\ job[b].step = "write"
  /\ Commit(b, job[b].ip, "block")
  /\ job' = [job EXCEPT ![b].step = "reload"]
  /\ UNCHANGED <<settings, cfg, saver, queue, events, banned, sinceBan,
                 faults, saves>>

BanWriteFails(b) ==
  /\ job[b].step = "write"
  /\ Fault
  /\ Ended(b)
  /\ UNCHANGED <<vars, settings, cfg, saver, queue, events, banned, sinceBan,
                 saves>>

\* The reload is over, with or without an error; the alert is mailed.
Notify(b) ==
  /\ job[b].step = "reload"
  /\ pc[b] = "idle"
  /\ Ended(b)
  /\ UNCHANGED <<vars, settings, cfg, saver, queue, events, banned, sinceBan,
                 faults, saves>>

----------------------------------------------------------------------------
(* Time.                                                                    *)

Older(age, cap) == IF age < cap THEN age + 1 ELSE cap

\* The worker takes a row, and a ban goroutine ends, within the lifetime of a
\* marker: an hour, for calls that take seconds.
Tick ==
  /\ \A i \in 1..Len(queue) : queue[i].age < MarkerLife
  /\ \A b \in Bans : job[b] # NoJob => sinceBan[job[b].ip] < MarkerLife
  /\ queue' = [i \in 1..Len(queue) |-> [queue[i] EXCEPT !.age = @ + 1]]
  /\ events' = [ip \in IPs |->
                 [i \in 1..Len(events[ip]) |->
                    [events[ip][i] EXCEPT !.age = Older(@, MaxWindow)]]]
  /\ banned' = [ip \in DOMAIN banned |-> Older(banned[ip], MarkerLife + 1)]
  /\ sinceBan' = [ip \in IPs |-> Older(sinceBan[ip], MaxWindow)]
  /\ <<queue', events', banned', sinceBan'>> # <<queue, events, banned, sinceBan>>
  /\ UNCHANGED <<vars, settings, cfg, saver, job, faults, saves>>

Expired == {ip \in DOMAIN banned : banned[ip] > MarkerLife}

\* Mutant: the janitor prunes the history and forgets the markers.
SweepHistory ==
  /\ events' = [ip \in IPs |-> Pruned(events[ip])]
  /\ events' # events
  /\ UNCHANGED <<vars, settings, cfg, saver, queue, banned, job, sinceBan,
                 faults, saves>>

\* The janitor, once a minute.
Sweep ==
  /\ events' = [ip \in IPs |-> Pruned(events[ip])]
  /\ banned' = [ip \in DOMAIN banned \ Expired |-> banned[ip]]
  /\ events' # events \/ banned' # banned
  /\ UNCHANGED <<vars, settings, cfg, saver, queue, job, sinceBan, faults,
                 saves>>

----------------------------------------------------------------------------
(* Settings.                                                                *)

\* SaveAutobanSettings up to the first of the three keys SetAutobanConfig writes
\* one after the other, without a transaction.
SaveSettings(s, new) ==
  /\ saves < MaxSaves
  /\ saver[s].step = "idle"
  /\ Node \notin booting
  /\ settings' = [settings EXCEPT !.enabled = new.enabled]
  /\ saver' = [saver EXCEPT ![s] = [step |-> "threshold", got |-> new]]
  /\ saves' = saves + 1
  /\ UNCHANGED <<vars, cfg, queue, events, banned, job, sinceBan, faults>>

WriteThreshold(s) ==
  /\ saver[s].step = "threshold"
  /\ settings' = [settings EXCEPT !.threshold = saver[s].got.threshold]
  /\ saver' = [saver EXCEPT ![s].step = "window"]
  /\ UNCHANGED <<vars, cfg, queue, events, banned, job, sinceBan, faults,
                 saves>>

\* After the last key comes ReloadConfig.
WriteWindow(s) ==
  /\ saver[s].step = "window"
  /\ settings' = [settings EXCEPT !.window = saver[s].got.window]
  /\ saver' = [saver EXCEPT ![s] = [step |-> "read", got |-> NoCfg]]
  /\ UNCHANGED <<vars, cfg, queue, events, banned, job, sinceBan, faults,
                 saves>>

\* An error on the second or the third key leaves those written before, and no
\* ReloadConfig.
SaveFails(s) ==
  /\ saver[s].step \in {"threshold", "window"}
  /\ Fault
  /\ saver' = [saver EXCEPT ![s] = [step |-> "idle", got |-> NoCfg]]
  /\ UNCHANGED <<vars, settings, cfg, queue, events, banned, job, sinceBan,
                 saves>>

\* GetAutobanConfig with an error on the second or third key, which it takes
\* for a key that was never set.
HalfRead == {[settings EXCEPT !.threshold = Default.threshold],
             [settings EXCEPT !.window = Default.window]}

\* ReloadConfig reads without the lock; if the first key cannot be read it
\* keeps the old settings.
ReadSettings(s) ==
  /\ saver[s].step = "read"
  /\ \/ /\ Fault
        /\ saver' = [saver EXCEPT ![s].step = "idle"]
     \/ \E got \in {settings} \cup HalfRead :
          /\ saver' = [saver EXCEPT ![s] = [step |-> "swap", got |-> got]]
          /\ IF got = settings THEN UNCHANGED faults ELSE Fault
  /\ UNCHANGED <<vars, settings, cfg, queue, events, banned, job, sinceBan,
                 saves>>

SwapSettings(s) ==
  /\ saver[s].step = "swap"
  /\ cfg' = saver[s].got
  /\ saver' = [saver EXCEPT ![s] = [step |-> "idle", got |-> NoCfg]]
  /\ UNCHANGED <<vars, settings, queue, events, banned, job, sinceBan, faults,
                 saves>>

----------------------------------------------------------------------------
(* The rest of the node.                                                    *)

\* AddIPRule, DeleteIPRule, where they change anything.  The bound leaves room
\* to ban every address.
AdminCommit(a, ip, type) ==
  /\ rev + Cardinality(IPs) <= MaxRev
  /\ type # table[ip]
  /\ Commit(a, ip, type)
  /\ UNCHANGED bvars

BlocklistStep ==
  /\ \/ \E p \in Procs : ReadTable(p) \/ ReadFails(p) \/ Swap(p)
     \/ \E h \in Handlers : Publish(h)
     \/ \E n \in Nodes : Receive(n) \/ Subscribe(n) \/ StartAlone(n)
  /\ UNCHANGED bvars

\* A crash loses the queue and everything in the banner's memory; New reads
\* the settings, and goes on without them if that fails.
Crash ==
  /\ Restart(Node)
  /\ \/ cfg' = settings /\ UNCHANGED faults
     \/ cfg' \in HalfRead \cup {NoCfg} /\ Fault
  /\ saver' = [s \in Savers |-> [step |-> "idle", got |-> NoCfg]]
  /\ queue' = <<>>
  /\ events' = [ip \in IPs |-> <<>>]
  /\ banned' = <<>>
  /\ job' = [b \in Bans |-> NoJob]
  /\ sinceBan' = [ip \in IPs |-> MaxWindow]
  /\ UNCHANGED <<settings, saves>>

BanStep(b) == BanLookup(b) \/ BanWrite(b) \/ Notify(b)
SaverStep(s) ==
  WriteThreshold(s) \/ WriteWindow(s) \/ ReadSettings(s) \/ SwapSettings(s)
LogWorker == RecordIgnored \/ RecordScored \/ \E b \in Bans : RecordBan(b)

NextBan ==
  \/ \E ip \in IPs, class \in Classes : Stopped(ip, class)
  \/ InsertFails
  \/ RecordIgnored
  \/ RecordScored
  \/ \E b \in Bans : RecordBan(b)
  \/ \E b \in Bans : BanLookup(b)
  \/ \E b \in Bans : BanWrite(b)
  \/ \E b \in Bans : BanWriteFails(b)
  \/ \E b \in Bans : Notify(b)
  \/ Tick
  \/ Sweep
  \/ \E s \in Savers, new \in Settings : SaveSettings(s, new)
  \/ \E s \in Savers : WriteThreshold(s)
  \/ \E s \in Savers : WriteWindow(s)
  \/ \E s \in Savers : SaveFails(s)
  \/ \E s \in Savers : ReadSettings(s)
  \/ \E s \in Savers : SwapSettings(s)
  \/ \E a \in Admins, ip \in IPs, type \in RuleTypes : AdminCommit(a, ip, type)
  \/ BlocklistStep
  \/ Crash

SpecBan == Init0 /\ [][NextBan]_allVars

\* Goroutines run on, time passes, the janitor ticks, and every address that
\* is not blocked keeps attacking: the critical rows are the environment's.
PersistentAttack ==
  /\ WF_allVars(LogWorker)
  /\ \A b \in Bans : WF_allVars(BanStep(b))
  /\ WF_allVars(BlocklistStep)
  /\ \A s \in Savers : WF_allVars(SaverStep(s))
  /\ WF_allVars(Tick) /\ WF_allVars(Sweep)
  /\ \A ip \in IPs : SF_allVars(Stopped(ip, "critical"))
FairSpecBan == SpecBan /\ PersistentAttack

----------------------------------------------------------------------------
(* Properties.                                                              *)

\* The marker is set before the goroutine starts and outlives it, so the rows
\* still queued for an address never start a second ban (and a second alert)
\* while one is under way.
OneBanAtATime ==
  \A b, c \in Bans : job[b] # NoJob /\ job[c] # NoJob /\ job[b].ip = job[c].ip
                       => b = c

\* Once a ban of an address has been decided, no earlier row counts towards
\* another one: an address the admin unbans starts from zero.  The scoring
\* window may be much longer than a marker lives.
NoOffenceCountsTwice ==
  \A ip \in IPs : \A i \in 1..Len(events[ip]) :
     events[ip][i].age < cfg.window => events[ip][i].age < sinceBan[ip]

\* "an existing admin rule for the IP (allow or block) always wins"
\* (autoban.go), it "is never overwritten" (GetIPRuleType): a ban never replaces
\* a rule.
AdminRuleWins ==
  [][\A b \in Bans : BanWrite(b) => table[job[b].ip] = "none"]_allVars

\* An address that keeps attacking ends up with a rule, whatever happened to
\* earlier attempts (database errors, crashes, an unban, a marker left behind),
\* provided the banner stays enabled.
PersistentOffenderIsRuled ==
  <>[]cfg.enabled =>
     \A ip \in IPs \ Private : <>[](table[ip] # "none" \/ Blocked(ip))

\* A block that stands is enforced in the end, the banner's own as well as the
\* admin's, unless one of the accidents of module Blocklist struck the node.
\* The banner repairs none of them: its look-up finds the rule and it gives up.
StandingBlockIsEnforced ==
  \A ip \in IPs :
    <>[](table[ip] = "block")
      => <>[](Blocked(ip) \/ Node \in overtaken \cup missed)
=============================================================================
