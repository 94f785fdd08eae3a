----------------------------- MODULE Blocklist -----------------------------
(***************************************************************************)
(* The global IP rules of a cluster of WAF nodes: the ip_rules table they  *)
(* share, and the in-memory copy every node checks requests against        *)
(* (internal/security/blocklist).  A rule change commits a row and then    *)
(* calls IPBlocklist.Reload, which                                         *)
(*    1. reads the whole table (ListIPRules, no lock held),                *)
(*    2. swaps the in-memory maps under the lock,                          *)
(*    3. publishes "rules" on a Redis channel;                             *)
(* every subscribed node runs steps 1 and 2 again for each message, on one *)
(* goroutine.  The three steps of concurrent reloads interleave freely.    *)
(*                                                                         *)
(* The table's past contents are kept in hist, so that a copy of the table *)
(* is the revision (index into hist) it was read at.                       *)
(***************************************************************************)
EXTENDS Naturals, Sequences

CONSTANTS
  Nodes,        \* the WAF processes that share the database
  Clustered,    \* those configured with a Redis address
  Handlers,     \* goroutines that change rules: admin UI, API, auto-ban
  Home,         \* handler -> the node it runs on
  IPs,          \* what a rule can be about: an address or CIDR in one scope
  MaxRev,       \* bound on the rule changes explored
  MaxRestarts,  \* bound on node restarts
  Lossy,        \* whether Redis may fail to deliver a message to a node
  ReadsMayFail  \* whether ListIPRules may return an error

\* Handlers and subscriber goroutines are told apart by their identity; a
\* node's subscriber goroutine is named after the node.
ASSUME BlocklistAssumption ==
  /\ Clustered \subseteq Nodes
  /\ Handlers \cap Nodes = {}
  /\ Home \in [Handlers -> Nodes]
  /\ MaxRev \in Nat
  /\ MaxRestarts \in Nat
  /\ Lossy \in BOOLEAN
  /\ ReadsMayFail \in BOOLEAN

VARIABLES
  hist,        \* every content the ip_rules table has had, oldest first
  view,        \* node -> revision its in-memory maps were built from
  pc,          \* goroutine -> the reload step it is about to take
  seen,        \* goroutine about to swap -> revision its read returned
  booting,     \* nodes between NewIPBlocklist and EnableClusterSync
  subscribed,  \* nodes whose EnableClusterSync has succeeded
  inbox,       \* node -> undelivered "rules" messages
  restarts,    \* node restarts so far
  overtaken,   \* unsubscribed nodes where an older reload replaced a newer
  missed       \* nodes owed a refresh that was lost

vars == <<hist, view, pc, seen, booting, subscribed, inbox, restarts,
          overtaken, missed>>

RuleTypes == {"none", "allow", "block"}
Tables == [IPs -> RuleTypes]
Procs == Handlers \cup Nodes
at(p) == IF p \in Nodes THEN p ELSE Home[p]

rev == Len(hist)
table == hist[rev]
Rules(n) == hist[view[n]]

\* Nodes whose copy, or the copy their subscriber is about to install, is not
\* the current table.
Behind == {n \in Nodes : \/ view[n] # rev
                         \/ pc[n] = "swap" /\ seen[n] # rev}

TypeOK ==
  /\ hist \in Seq(Tables)
  /\ rev \in 1..MaxRev+1
  /\ view \in [Nodes -> 1..rev]
  /\ pc \in [Procs -> {"idle", "read", "swap", "publish"}]
  /\ \A n \in Nodes : pc[n] # "publish"
  /\ seen \in [Procs -> 1..rev]
  /\ booting \subseteq Nodes
  /\ subscribed \subseteq Nodes
  /\ inbox \in [Nodes -> Nat]
  /\ restarts \in 0..MaxRestarts
  /\ overtaken \subseteq Nodes
  /\ missed \subseteq Nodes

\* NewIPBlocklist has loaded the table on every node.
Init ==
  /\ hist = <<[ip \in IPs |-> "none"]>>
  /\ view = [n \in Nodes |-> 1]
  /\ pc = [p \in Procs |-> "idle"]
  /\ seen = [p \in Procs |-> 1]
  /\ booting = Nodes
  /\ subscribed = {}
  /\ inbox = [n \in Nodes |-> 0]
  /\ restarts = 0
  /\ overtaken = {}
  /\ missed = {}

----------------------------------------------------------------------------
(* Changing a rule and reloading.                                           *)

\* AddIPRule, DeleteIPRule and their API twins: one row is upserted or
\* deleted ("none"); the handler goes on to Reload.
Commit(h, ip, type) ==
  /\ pc[h] = "idle"
  /\ at(h) \notin booting
  /\ rev <= MaxRev
  /\ hist' = Append(hist, [table EXCEPT ![ip] = type])
  /\ pc' = [pc EXCEPT ![h] = "read"]
  /\ UNCHANGED <<view, seen, booting, subscribed, inbox, restarts,
                 overtaken, missed>>

\* reloadLocal's ListIPRules: one SELECT, no lock held.
ReadTable(p) ==
  /\ pc[p] = "read"
  /\ seen' = [seen EXCEPT ![p] = rev]
  /\ pc' = [pc EXCEPT ![p] = "swap"]
  /\ UNCHANGED <<hist, view, booting, subscribed, inbox, restarts,
                 overtaken, missed>>

\* ListIPRules fails: Reload returns the error before the swap and the
\* publish, the row stays committed, nothing retries.
ReadFails(p) ==
  /\ ReadsMayFail
  /\ pc[p] = "read"
  /\ pc' = [pc EXCEPT ![p] = "idle"]
  /\ missed' = missed \cup (IF p \in Nodes THEN Behind \cap {p} ELSE Behind)
  /\ UNCHANGED <<hist, view, seen, booting, subscribed, inbox, restarts,
                 overtaken>>

\* The maps are replaced under the lock, whatever replaced them meanwhile.
Swap(p) ==
  /\ pc[p] = "swap"
  /\ view' = [view EXCEPT ![at(p)] = seen[p]]
  /\ seen' = [seen EXCEPT ![p] = 1]
  /\ pc' = [pc EXCEPT ![p] = IF p \in Nodes THEN "idle" ELSE "publish"]
  /\ IF seen[p] = rev
       THEN /\ overtaken' = overtaken \ {at(p)}
            /\ missed' = missed \ {at(p)}
       ELSE /\ overtaken' = overtaken \cup
                 {n \in Nodes \ subscribed : n = at(p) /\ seen[p] < view[n]}
            /\ UNCHANGED missed
  /\ UNCHANGED <<hist, booting, subscribed, inbox, restarts>>

\* Redis delivers to the nodes subscribed now, the publisher included, at
\* most once.  Without clusterPub the call does nothing; an error is logged.
Publish(h) ==
  /\ pc[h] = "publish"
  /\ pc' = [pc EXCEPT ![h] = "idle"]
  /\ \E got \in SUBSET subscribed :
       /\ at(h) \notin subscribed => got = {}
       /\ at(h) \in subscribed /\ ~Lossy => got = subscribed
       /\ inbox' = [n \in Nodes |-> IF n \in got THEN inbox[n] + 1
                                                 ELSE inbox[n]]
       /\ missed' = missed \cup
                     (Behind \ (got \cup ({at(h)} \ subscribed)))
  /\ UNCHANGED <<hist, view, seen, booting, subscribed, restarts,
                 overtaken>>

\* Mutant: a message that arrives during a reload is dropped as redundant.
ReceiveOrSkip(n) ==
  /\ inbox[n] > 0
  /\ inbox' = [inbox EXCEPT ![n] = @ - 1]
  /\ pc' = [pc EXCEPT ![n] = IF @ = "idle" THEN "read" ELSE @]
  /\ UNCHANGED <<hist, view, seen, booting, subscribed, restarts, overtaken,
                 missed>>

\* Mutant: every message taken is broadcast again.
ReceiveAndForward(n) ==
  /\ pc[n] = "idle"
  /\ inbox[n] > 0
  /\ inbox' = [m \in Nodes |-> IF m = n \/ m \notin subscribed
                                 THEN inbox[m] ELSE 1]
  /\ pc' = [pc EXCEPT ![n] = "read"]
  /\ UNCHANGED <<hist, view, seen, booting, subscribed, restarts, overtaken,
                 missed>>

\* The subscriber goroutine takes the next message and calls reloadLocal.
Receive(n) ==
  /\ pc[n] = "idle"
  /\ inbox[n] > 0
  /\ inbox' = [inbox EXCEPT ![n] = @ - 1]
  /\ pc' = [pc EXCEPT ![n] = "read"]
  /\ UNCHANGED <<hist, view, seen, booting, subscribed, restarts,
                 overtaken, missed>>

----------------------------------------------------------------------------
(* Nodes come and go.                                                       *)

\* The process dies with its goroutines and starts again: NewIPBlocklist
\* loads the table, the subscription of the old process is gone.
Restart(n) ==
  /\ restarts < MaxRestarts
  /\ restarts' = restarts + 1
  /\ view' = [view EXCEPT ![n] = rev]
  /\ pc' = [p \in Procs |-> IF at(p) = n THEN "idle" ELSE pc[p]]
  /\ seen' = [p \in Procs |-> IF at(p) = n THEN 1 ELSE seen[p]]
  /\ inbox' = [inbox EXCEPT ![n] = 0]
  /\ booting' = booting \cup {n}
  /\ subscribed' = subscribed \ {n}
  /\ overtaken' = overtaken \ {n}
  /\ missed' = (IF \E h \in Handlers : at(h) = n /\ pc[h] # "idle"
                  THEN missed \cup Behind ELSE missed) \ {n}
  /\ UNCHANGED hist

\* EnableClusterSync, before the node's handlers start; it does not reload.
Subscribe(n) ==
  /\ n \in booting \cap Clustered
  /\ booting' = booting \ {n}
  /\ subscribed' = subscribed \cup {n}
  /\ UNCHANGED <<hist, view, pc, seen, inbox, restarts, overtaken, missed>>

\* No Redis is configured, or it does not answer: the node starts without
\* cluster sync and never tries again.
StartAlone(n) ==
  /\ n \in booting
  /\ booting' = booting \ {n}
  /\ UNCHANGED <<hist, view, pc, seen, subscribed, inbox, restarts,
                 overtaken, missed>>

----------------------------------------------------------------------------
Reload(p) == ReadTable(p) \/ Swap(p)

Next ==
  \/ \E h \in Handlers, ip \in IPs, type \in RuleTypes :
        Commit(h, ip, type)
  \/ \E p \in Procs : ReadTable(p)
  \/ \E p \in Procs : ReadFails(p)
  \/ \E p \in Procs : Swap(p)
  \/ \E h \in Handlers : Publish(h)
  \/ \E n \in Nodes : Receive(n)
  \/ \E n \in Nodes : Restart(n)
  \/ \E n \in Nodes : Subscribe(n)
  \/ \E n \in Nodes : StartAlone(n)

\* A goroutine that is inside a call runs on; a subscriber takes messages.
Fairness ==
  /\ \A p \in Procs : WF_vars(Reload(p))
  /\ \A h \in Handlers : WF_vars(Publish(h))
  /\ \A n \in Nodes : WF_vars(Receive(n))

Spec == Init /\ [][Next]_vars
FairSpec == Spec /\ Fairness

----------------------------------------------------------------------------
(* Properties.                                                              *)

\* Nobody is inside a reload and no message is on its way.
Quiet ==
  /\ \A p \in Procs : pc[p] = "idle"
  /\ \A n \in Nodes : inbox[n] = 0

\* A goroutine will still bring node n up to date: one on n that has yet to
\* read the table or has read its latest content, or a handler whose broadcast
\* n will hear, n's own included.
Pending(n) ==
  \/ inbox[n] > 0
  \/ \E p \in Procs : /\ at(p) = n
                      /\ \/ pc[p] = "read"
                         \/ pc[p] = "swap" /\ seen[p] = rev
  \/ \E h \in Handlers : pc[h] # "idle" /\ (at(h) # n \/ n \in subscribed)

\* Whatever the interleaving of commits, reloads, messages and restarts, a
\* node's copy is the current table, or somebody is still on the way to make
\* it so, or one of two named accidents struck it: a refresh it was owed got
\* lost, or an older reload overtook a newer one while it was not subscribed.
\* A subscribed node survives being overtaken because it hears its own
\* broadcasts (Publish reaches the publisher too).
StaleOnlyByAccident ==
  \A n \in Nodes : \/ view[n] = rev
                   \/ n \in overtaken \cup missed
                   \/ Pending(n)

\* The consequence an operator sees once everything has settled: every node
\* enforces the rules in the table unless one of the accidents struck it.
ConvergedWhenQuiet ==
  Quiet => \A n \in Nodes \ (overtaken \cup missed) : Rules(n) = table

\* reloadLocal does not re-broadcast, so a finite number of rule changes
\* causes a finite number of reloads: the cluster settles.
Settles == <>[]Quiet

\* "a rule written on this node takes effect everywhere, not just here"
\* (ip.go, Reload): once settled, a node that was owed no lost refresh
\* enforces the table.
TakesEffectHere == Quiet => \A n \in Nodes \ missed : Rules(n) = table
=============================================================================
