--------------------------- MODULE IPRulesProofs ---------------------------
(* Theorems about the global IP rules: Blocklist, for any number of nodes   *)
(* and handlers, and Autoban, which writes rules of its own.                *)
EXTENDS Autoban, SequenceTheorems, WellFoundedInduction, TLAPS

\* A subscriber goroutine runs, and messages wait, only on a subscribed node.
SubscriberOnly ==
  \A n \in Nodes : pc[n] # "idle" \/ inbox[n] > 0 => n \in subscribed

\* A subscriber about to install an old copy will be corrected.
OldCopyIsCorrected ==
  \A n \in Nodes : pc[n] = "swap" /\ seen[n] # rev =>
     \/ inbox[n] > 0
     \/ n \in overtaken \cup missed
     \/ \E h \in Handlers : pc[h] # "idle"

\* StaleOnlyByAccident alone is not inductive: when the subscriber swaps, it
\* takes OldCopyIsCorrected to know that somebody is still on the way.
Inv ==
  /\ TypeOK
  /\ SubscriberOnly
  /\ OldCopyIsCorrected
  /\ StaleOnlyByAccident

(* Every variable keeps its type: copies are built from revisions that      *)
(* exist, the subscriber goroutines never publish.                          *)
LEMMA TypeInit == Init => TypeOK
  BY BlocklistAssumption
  DEF Init, TypeOK, BlocklistAssumption, Procs, rev, Tables, RuleTypes

LEMMA TypeStep == TypeOK /\ [Next]_vars => TypeOK'
<1> SUFFICES ASSUME TypeOK, [Next]_vars PROVE TypeOK'
  OBVIOUS
<1> USE BlocklistAssumption DEF BlocklistAssumption, TypeOK, Procs, rev
<1>1. ASSUME NEW h \in Handlers, NEW ip \in IPs, NEW type \in RuleTypes,
             Commit(h, ip, type)
      PROVE  TypeOK'
  <2>1. [table EXCEPT ![ip] = type] \in Tables
    BY DEF table, Tables
  <2>2. hist' \in Seq(Tables) /\ Len(hist') = Len(hist) + 1
    BY <1>1, <2>1 DEF Commit
  <2> QED BY <1>1, <2>2 DEF Commit
<1>2. ASSUME NEW p \in Procs, ReadTable(p) PROVE TypeOK'
  BY <1>2 DEF ReadTable
<1>3. ASSUME NEW p \in Procs, ReadFails(p) PROVE TypeOK'
  BY <1>3 DEF ReadFails, Behind
<1>4. ASSUME NEW p \in Procs, Swap(p) PROVE TypeOK'
  BY <1>4 DEF Swap, at
<1>5. ASSUME NEW h \in Handlers, Publish(h) PROVE TypeOK'
  <2>1. inbox' \in [Nodes -> Nat] /\ missed' \subseteq Nodes
    BY <1>5 DEF Publish, Behind
  <2>2. /\ pc' = [pc EXCEPT ![h] = "idle"]
        /\ UNCHANGED <<hist, view, seen, booting, subscribed, restarts,
                       overtaken>>
    BY <1>5 DEF Publish
  <2> QED BY <2>1, <2>2
<1>6. ASSUME NEW n \in Nodes, Receive(n) PROVE TypeOK'
  BY <1>6 DEF Receive
<1>7. ASSUME NEW n \in Nodes, Restart(n) PROVE TypeOK'
  BY <1>7 DEF Restart, Behind
<1>8. ASSUME NEW n \in Nodes, Subscribe(n) PROVE TypeOK'
  BY <1>8 DEF Subscribe
<1>9. ASSUME NEW n \in Nodes, StartAlone(n) PROVE TypeOK'
  BY <1>9 DEF StartAlone
<1>10. CASE UNCHANGED vars
  BY <1>10 DEF vars
<1> QED
  BY <1>1, <1>2, <1>3, <1>4, <1>5, <1>6, <1>7, <1>8, <1>9, <1>10
  DEF Next

----------------------------------------------------------------------------
(* What a subscriber goroutine can be in the middle of.                      *)
LEMMA SubscriberStep ==
  TypeOK /\ SubscriberOnly /\ OldCopyIsCorrected /\ [Next]_vars
    => SubscriberOnly' /\ OldCopyIsCorrected'
<1> SUFFICES ASSUME TypeOK, SubscriberOnly, OldCopyIsCorrected, [Next]_vars,
                    NEW n \in Nodes
             PROVE  /\ pc'[n] # "idle" \/ inbox'[n] > 0 => n \in subscribed'
                    /\ pc'[n] = "swap" /\ seen'[n] # rev' =>
                         \/ inbox'[n] > 0
                         \/ n \in overtaken' \cup missed'
                         \/ \E h \in Handlers : pc'[h] # "idle"
  BY DEF SubscriberOnly, OldCopyIsCorrected
<1> DEFINE Goal == /\ pc'[n] # "idle" \/ inbox'[n] > 0 => n \in subscribed'
                   /\ pc'[n] = "swap" /\ seen'[n] # rev' =>
                        \/ inbox'[n] > 0
                        \/ n \in overtaken' \cup missed'
                        \/ \E h \in Handlers : pc'[h] # "idle"
<1>t. /\ n \in Procs /\ n \notin Handlers /\ at(n) = n
      /\ Handlers \subseteq Procs
      /\ inbox[n] \in Nat /\ seen[n] \in Nat /\ rev \in Nat
      /\ pc[n] # "idle" \/ inbox[n] > 0 => n \in subscribed
      /\ pc[n] = "swap" /\ seen[n] # rev =>
           \/ inbox[n] > 0
           \/ n \in overtaken \cup missed
           \/ \E h \in Handlers : pc[h] # "idle"
  BY BlocklistAssumption
  DEF TypeOK, SubscriberOnly, OldCopyIsCorrected, BlocklistAssumption, Procs,
      at, rev
<1>1. ASSUME NEW h \in Handlers, NEW ip \in IPs, NEW type \in RuleTypes,
             Commit(h, ip, type)
      PROVE  Goal
  BY <1>1, <1>t DEF Commit, TypeOK
<1>2. ASSUME NEW p \in Procs, ReadTable(p) PROVE Goal
  BY <1>2, <1>t DEF ReadTable, TypeOK, rev
<1>3. ASSUME NEW p \in Procs, ReadFails(p) PROVE Goal
  <2>1. CASE p = n
    BY <1>3, <1>t, <2>1 DEF ReadFails, TypeOK
  <2>2. CASE p \in Nodes /\ p # n
    BY <1>3, <1>t, <2>2, BlocklistAssumption
    DEF ReadFails, TypeOK, rev, BlocklistAssumption
  <2>3. CASE p \notin Nodes
    BY <1>3, <1>t, <2>3 DEF ReadFails, TypeOK, rev, Behind
  <2> QED BY <2>1, <2>2, <2>3
<1>4. ASSUME NEW p \in Procs, Swap(p) PROVE Goal
  <2>1. /\ rev' = rev /\ inbox' = inbox
        /\ \A q \in Procs : q # p => seen'[q] = seen[q]
        /\ subscribed' = subscribed
        /\ \A q \in Procs : q # p => pc'[q] = pc[q]
        /\ p \in Nodes => pc'[p] = "idle"
        /\ p \notin Nodes => pc'[p] = "publish"
    BY <1>4 DEF Swap, TypeOK, rev
  <2>2. CASE p = n
    BY <1>t, <2>1, <2>2
  <2>3. CASE p \in Nodes /\ p # n
    <3>1. p \notin Handlers /\ at(p) = p
      BY <2>3, BlocklistAssumption DEF BlocklistAssumption, at
    <3>2. n \in overtaken \cup missed => n \in overtaken' \cup missed'
      BY <1>4, <2>3, <3>1 DEF Swap
    <3> QED BY <1>t, <2>1, <2>3, <3>1, <3>2
  <2>4. CASE p \notin Nodes
    <3>1. p \in Handlers
      BY <2>4 DEF Procs
    <3> QED BY <1>t, <2>1, <2>4, <3>1
  <2> QED BY <2>2, <2>3, <2>4
<1>5. ASSUME NEW h \in Handlers, Publish(h) PROVE Goal
  <2>1. PICK got \in SUBSET subscribed :
          /\ inbox' = [m \in Nodes |-> IF m \in got THEN inbox[m] + 1
                                                    ELSE inbox[m]]
          /\ missed' = missed \cup (Behind \ (got \cup ({at(h)} \ subscribed)))
    BY <1>5 DEF Publish
  <2>2. /\ rev' = rev /\ seen' = seen /\ overtaken' = overtaken
        /\ subscribed' = subscribed
        /\ pc'[n] = pc[n]
    BY <1>5, <1>t DEF Publish, rev, TypeOK
  <2>3. CASE n \in got
    BY <1>t, <2>1, <2>2, <2>3
  <2>4. CASE n \notin got
    BY <1>t, <2>1, <2>2, <2>4 DEF Behind
  <2> QED BY <2>3, <2>4
<1>6. ASSUME NEW m \in Nodes, Receive(m) PROVE Goal
  <2>1. m \notin Handlers /\ m \in Procs
    BY BlocklistAssumption DEF BlocklistAssumption, Procs
  <2>2. CASE m = n
    BY <1>6, <1>t, <2>1, <2>2 DEF Receive, TypeOK
  <2>3. CASE m # n
    BY <1>6, <1>t, <2>1, <2>3 DEF Receive, TypeOK, rev
  <2> QED BY <2>2, <2>3
<1>7. ASSUME NEW m \in Nodes, Restart(m) PROVE Goal
  <2>1. CASE m = n
    BY <1>7, <1>t, <2>1 DEF Restart, TypeOK
  <2>2. CASE m # n /\ \E h \in Handlers : at(h) = m /\ pc[h] # "idle"
    BY <1>7, <1>t, <2>2 DEF Restart, TypeOK, Behind, rev
  <2>3. CASE m # n /\ \A h \in Handlers : at(h) = m => pc[h] = "idle"
    BY <1>7, <1>t, <2>3 DEF Restart, TypeOK, rev
  <2> QED BY <2>1, <2>2, <2>3
<1>8. ASSUME NEW m \in Nodes, Subscribe(m) PROVE Goal
  BY <1>8, <1>t DEF Subscribe, rev
<1>9. ASSUME NEW m \in Nodes, StartAlone(m) PROVE Goal
  BY <1>9, <1>t DEF StartAlone, rev
<1>10. CASE UNCHANGED vars
  BY <1>10, <1>t DEF vars, rev
<1> QED
  BY <1>1, <1>2, <1>3, <1>4, <1>5, <1>6, <1>7, <1>8, <1>9, <1>10
  DEF Next

----------------------------------------------------------------------------
(* A goroutine or a message that is bound to refresh node n survives every  *)
(* step that does not refresh n itself or put n on record as missed.        *)
LEMMA StaleStep == Inv /\ [Next]_vars => StaleOnlyByAccident'
<1> SUFFICES ASSUME TypeOK, SubscriberOnly, OldCopyIsCorrected,
                    StaleOnlyByAccident, [Next]_vars, NEW n \in Nodes
             PROVE  (view[n] = rev \/ n \in overtaken \cup missed \/ Pending(n))'
  BY DEF StaleOnlyByAccident, Inv
<1>0. TypeOK'
  BY TypeStep
<1>t. /\ view[n] = rev \/ n \in overtaken \cup missed \/ Pending(n)
      /\ rev \in Nat /\ view[n] \in Nat /\ inbox[n] \in Nat
      /\ \A p \in Procs : seen[p] \in Nat /\ at(p) \in Nodes
  BY BlocklistAssumption
  DEF StaleOnlyByAccident, TypeOK, at, Procs, BlocklistAssumption, rev
<1>1. ASSUME NEW h \in Handlers, NEW ip \in IPs, NEW type \in RuleTypes,
             Commit(h, ip, type)
      PROVE  Pending(n)'
  <2>1. h \in Procs /\ pc'[h] = "read"
    BY <1>1 DEF Commit, TypeOK, Procs
  <2> QED BY <2>1 DEF Pending, at
<1>2. ASSUME NEW p \in Procs, ReadTable(p)
      PROVE  (view[n] = rev \/ n \in overtaken \cup missed \/ Pending(n))'
  <2>1. pc'[p] = "swap" /\ seen'[p] = rev' /\ rev' = rev
    BY <1>2 DEF ReadTable, TypeOK, rev
  <2>2. \A q \in Procs : q # p => pc'[q] = pc[q] /\ seen'[q] = seen[q]
    BY <1>2 DEF ReadTable, TypeOK
  <2>3. CASE Pending(n)
    <3>1. inbox' = inbox /\ subscribed' = subscribed
      BY <1>2 DEF ReadTable
    <3>2. \A q \in Procs :
            \/ pc[q] = "read"
            \/ pc[q] = "swap" /\ seen[q] = rev
            => \/ pc'[q] = "read"
               \/ pc'[q] = "swap" /\ seen'[q] = rev'
      BY <2>1, <2>2
    <3>3. \A h \in Handlers : pc[h] # "idle" => pc'[h] # "idle"
      BY <2>1, <2>2 DEF Procs
    <3> QED BY <2>3, <3>1, <3>2, <3>3 DEF Pending, at
  <2>4. CASE ~Pending(n)
    BY <1>2, <1>t, <2>1, <2>4 DEF ReadTable
  <2> QED BY <2>3, <2>4
<1>3. ASSUME NEW p \in Procs, ReadFails(p)
      PROVE  (view[n] = rev \/ n \in overtaken \cup missed \/ Pending(n))'
  <2>1. /\ rev' = rev /\ view' = view /\ overtaken' = overtaken
        /\ missed \subseteq missed' /\ inbox' = inbox
        /\ subscribed' = subscribed
    BY <1>3 DEF ReadFails, rev
  <2>2. \A q \in Procs : q # p => pc'[q] = pc[q] /\ seen'[q] = seen[q]
    BY <1>3 DEF ReadFails, TypeOK
  <2>3. CASE n \in Behind /\ (p \in Nodes => p = n)
    BY <1>3, <2>3 DEF ReadFails
  <2>4. CASE n \notin Behind
    BY <2>1, <2>4 DEF Behind
  <2>5. CASE p \in Nodes /\ p # n
    <3>1. at(p) = p /\ p \notin Handlers
      BY <2>5, BlocklistAssumption DEF at, BlocklistAssumption
    <3>2. \A q \in Procs : at(q) = n => pc'[q] = pc[q] /\ seen'[q] = seen[q]
      BY <2>2, <2>5, <3>1
    <3>3. \A h \in Handlers : pc'[h] = pc[h]
      BY <2>2, <3>1 DEF Procs
    <3>4. Pending(n) => Pending(n)'
      BY <2>1, <3>2, <3>3 DEF Pending, at
    <3> QED BY <1>t, <2>1, <3>4
  <2> QED BY <2>3, <2>4, <2>5
<1>4. ASSUME NEW p \in Procs, Swap(p)
      PROVE  (view[n] = rev \/ n \in overtaken \cup missed \/ Pending(n))'
  <2>1. /\ rev' = rev /\ inbox' = inbox
        /\ \A q \in Procs : q # p => seen'[q] = seen[q]
        /\ subscribed' = subscribed
        /\ view' = [view EXCEPT ![at(p)] = seen[p]]
        /\ pc[p] = "swap"
        /\ p \in Handlers => pc'[p] = "publish"
        /\ \A q \in Procs : q # p => pc'[q] = pc[q]
    BY <1>4, BlocklistAssumption
    DEF Swap, rev, TypeOK, BlocklistAssumption
  <2>h. \A h \in Handlers : pc[h] # "idle" => pc'[h] # "idle"
    BY <2>1 DEF Procs
  <2>2. CASE at(p) = n
    <3>1. CASE seen[p] = rev
      BY <1>t, <2>1, <2>2, <3>1 DEF TypeOK
    <3>2. CASE seen[p] # rev
      <4>1. /\ missed' = missed
            /\ overtaken' = overtaken \cup
                 {m \in Nodes \ subscribed : m = at(p) /\ seen[p] < view[m]}
        BY <1>4, <3>2 DEF Swap
      <4>2. CASE n \in overtaken \cup missed
        BY <4>1, <4>2
      <4>3. CASE n \in subscribed /\ p \in Handlers
        <5>1. Pending(n)'
          BY <2>1, <4>3 DEF Pending, at
        <5> QED BY <5>1
      <4>4. CASE n \in subscribed /\ p \notin Handlers
        <5>1. p = n
          BY <2>2, <4>4 DEF at, Procs
        <5>2. \/ inbox[n] > 0
              \/ n \in overtaken \cup missed
              \/ \E h \in Handlers : pc[h] # "idle"
          BY <2>1, <3>2, <5>1 DEF OldCopyIsCorrected
        <5>3. \/ n \in overtaken \cup missed
              \/ inbox'[n] > 0
              \/ \E h \in Handlers : pc'[h] # "idle"
          BY <2>1, <2>h, <5>2
        <5>4. n \in overtaken \cup missed \/ Pending(n)'
          BY <2>1, <4>4, <5>3 DEF Pending, at
        <5> QED BY <4>1, <5>4
      <4>5. CASE n \notin subscribed /\ view[n] = rev
        <5>1. seen[p] \in 1..rev /\ rev \in Nat
          BY DEF TypeOK, rev
        <5> QED BY <2>2, <3>2, <4>1, <4>5, <5>1
      <4>6. CASE n \notin subscribed /\ Pending(n)
        <5>1. \A q \in Procs :
                \/ pc[q] = "read"
                \/ pc[q] = "swap" /\ seen[q] = rev
                => \/ pc'[q] = "read"
                   \/ pc'[q] = "swap" /\ seen'[q] = rev'
          BY <2>1, <3>2
        <5>2. Pending(n)'
          BY <2>1, <2>h, <4>6, <5>1 DEF Pending, at
        <5> QED BY <5>2
      <4> QED BY <1>t, <4>2, <4>3, <4>4, <4>5, <4>6
    <3> QED BY <3>1, <3>2
  <2>3. CASE at(p) # n
    <3>1. view'[n] = view[n]
      BY <2>1, <2>3 DEF TypeOK
    <3>2. n \in overtaken \cup missed => n \in overtaken' \cup missed'
      BY <1>4, <2>3 DEF Swap
    <3>3. \A q \in Procs : at(q) = n => pc'[q] = pc[q] /\ seen'[q] = seen[q]
      BY <2>1, <2>3
    <3>4. Pending(n) => Pending(n)'
      BY <2>1, <2>h, <3>3 DEF Pending, at
    <3> QED BY <1>t, <2>1, <3>1, <3>2, <3>4
  <2> QED BY <2>2, <2>3
<1>5. ASSUME NEW h \in Handlers, Publish(h)
      PROVE  (view[n] = rev \/ n \in overtaken \cup missed \/ Pending(n))'
  <2>1. PICK got \in SUBSET subscribed :
          /\ inbox' = [m \in Nodes |-> IF m \in got THEN inbox[m] + 1
                                                    ELSE inbox[m]]
          /\ missed' = missed \cup (Behind \ (got \cup ({at(h)} \ subscribed)))
    BY <1>5 DEF Publish
  <2>2. /\ rev' = rev /\ view' = view /\ seen' = seen /\ overtaken' = overtaken
        /\ subscribed' = subscribed
        /\ pc[h] = "publish"
        /\ \A q \in Procs : q # h => pc'[q] = pc[q]
    BY <1>5 DEF Publish, rev, TypeOK
  <2>3. inbox[n] > 0 => inbox'[n] > 0
    BY <1>t, <2>1
  <2>4. CASE n \in got
    BY <1>t, <2>1, <2>4 DEF Pending
  <2>5. CASE n \in Behind \ (got \cup ({at(h)} \ subscribed))
    BY <2>1, <2>5
  <2>6. CASE n \notin Behind
    BY <2>2, <2>6 DEF Behind
  <2>7. CASE at(h) = n /\ n \notin subscribed
    <3>1. \A q \in Procs :
            \/ pc[q] = "read"
            \/ pc[q] = "swap" /\ seen[q] = rev
            => q # h
      BY <2>2
    <3>2. \A g \in Handlers : at(g) # n => pc'[g] = pc[g]
      BY <2>2, <2>7 DEF Procs
    <3>3. Pending(n) => Pending(n)'
      BY <1>t, <2>2, <2>3, <2>7, <3>1, <3>2 DEF Pending, at
    <3>4. n \in overtaken \cup missed => n \in overtaken' \cup missed'
      BY <2>1, <2>2
    <3> QED BY <1>t, <2>2, <3>3, <3>4
  <2> QED BY <2>4, <2>5, <2>6, <2>7
<1>6. ASSUME NEW m \in Nodes, Receive(m)
      PROVE  (view[n] = rev \/ n \in overtaken \cup missed \/ Pending(n))'
  <2>1. /\ rev' = rev /\ view' = view /\ seen' = seen /\ overtaken' = overtaken
        /\ missed' = missed /\ pc[m] = "idle" /\ pc'[m] = "read"
        /\ subscribed' = subscribed
        /\ \A q \in Procs : q # m => pc'[q] = pc[q]
        /\ m # n => inbox'[n] = inbox[n]
    BY <1>6 DEF Receive, rev, TypeOK, Procs
  <2>2. CASE m = n
    BY <2>1, <2>2 DEF Pending, at, Procs
  <2>3. CASE m # n
    <3>1. m \notin Handlers
      BY BlocklistAssumption DEF BlocklistAssumption
    <3>2. \A q \in Procs : at(q) = n => pc'[q] = pc[q]
      BY <2>1, <2>3 DEF at
    <3>3. \A h \in Handlers : pc'[h] = pc[h]
      BY <2>1, <3>1 DEF Procs
    <3>4. Pending(n) => Pending(n)'
      BY <2>1, <2>3, <3>2, <3>3 DEF Pending, at
    <3> QED BY <1>t, <2>1, <3>4
  <2> QED BY <2>2, <2>3
<1>7. ASSUME NEW m \in Nodes, Restart(m)
      PROVE  (view[n] = rev \/ n \in overtaken \cup missed \/ Pending(n))'
  <2>1. /\ rev' = rev
        /\ \A q \in Procs : at(q) # m => seen'[q] = seen[q]
        /\ view' = [view EXCEPT ![m] = rev]
        /\ inbox' = [inbox EXCEPT ![m] = 0]
        /\ overtaken' = overtaken \ {m}
        /\ missed \ {m} \subseteq missed'
        /\ subscribed' = subscribed \ {m}
        /\ \A q \in Procs : at(q) # m => pc'[q] = pc[q]
    BY <1>7 DEF Restart, rev, TypeOK
  <2>2. CASE m = n
    BY <2>1, <2>2 DEF TypeOK
  <2>3. CASE m # n
    <3>1. view'[n] = view[n] /\ inbox'[n] = inbox[n]
      BY <2>1, <2>3 DEF TypeOK
    <3>2. CASE \E h \in Handlers : at(h) = m /\ pc[h] # "idle"
      <4>1. missed' = (missed \cup Behind) \ {m}
        BY <1>7, <3>2 DEF Restart
      <4>2. view[n] = rev \/ n \in Behind
        BY DEF Behind
      <4> QED BY <2>1, <2>3, <3>1, <4>1, <4>2
    <3>3. CASE \A h \in Handlers : at(h) = m => pc[h] = "idle"
      <4>1. \A q \in Procs : at(q) = n => pc'[q] = pc[q]
        BY <2>1, <2>3
      <4>2. \A h \in Handlers : pc[h] # "idle" => pc'[h] = pc[h]
        BY <2>1, <3>3 DEF Procs
      <4>3. Pending(n) => Pending(n)'
        BY <2>1, <2>3, <3>1, <4>1, <4>2 DEF Pending, at
      <4>4. n \in overtaken \cup missed => n \in overtaken' \cup missed'
        BY <2>1, <2>3
      <4> QED BY <1>t, <2>1, <3>1, <4>3, <4>4
    <3> QED BY <3>2, <3>3
  <2> QED BY <2>2, <2>3
<1>8. ASSUME NEW m \in Nodes, Subscribe(m)
      PROVE  (view[n] = rev \/ n \in overtaken \cup missed \/ Pending(n))'
  BY <1>8, <1>t DEF Subscribe, Pending, rev, at
<1>9. ASSUME NEW m \in Nodes, StartAlone(m)
      PROVE  (view[n] = rev \/ n \in overtaken \cup missed \/ Pending(n))'
  BY <1>9, <1>t DEF StartAlone, Pending, rev, at
<1>10. CASE UNCHANGED vars
  BY <1>10, <1>t DEF vars, Pending, rev, at
<1> QED
  BY <1>1, <1>2, <1>3, <1>4, <1>5, <1>6, <1>7, <1>8, <1>9, <1>10
  DEF Next

----------------------------------------------------------------------------
LEMMA InvInit == Init => Inv
<1> SUFFICES ASSUME Init PROVE Inv
  OBVIOUS
<1>1. TypeOK
  BY TypeInit
<1>2. \A n \in Nodes : view[n] = rev
  BY DEF Init, rev
<1>3. \A h \in Handlers : pc[h] = "idle"
  BY DEF Init, Procs
<1> QED
  BY <1>1, <1>2, <1>3
  DEF Inv, StaleOnlyByAccident, SubscriberOnly, OldCopyIsCorrected, Init, Procs

LEMMA InvInductive == Spec => []Inv
<1>1. Inv /\ [Next]_vars => Inv'
  BY TypeStep, SubscriberStep, StaleStep DEF Inv
<1> QED BY <1>1, InvInit, PTL DEF Spec

\* Every copy is a revision the table really had, on every node, always.
THEOREM TypeCorrect == Spec => []TypeOK
<1>1. Inv => TypeOK
  BY DEF Inv
<1> QED BY <1>1, InvInductive, PTL

\* A node's in-memory rules are stale only while somebody is on the way to
\* refresh them, or after an overtaking reload or a lost refresh.
THEOREM StaleOnlyByAccidentHolds == Spec => []StaleOnlyByAccident
<1>1. Inv => StaleOnlyByAccident
  BY DEF Inv
<1> QED BY <1>1, InvInductive, PTL

\* Once every reload is over and every message consumed, a node that met
\* neither accident enforces the table.
THEOREM ConvergedWhenQuietHolds == Spec => []ConvergedWhenQuiet
<1>1. Inv => ConvergedWhenQuiet
  <2> SUFFICES ASSUME Inv, Quiet, NEW n \in Nodes, n \notin overtaken \cup missed
               PROVE  Rules(n) = table
    BY DEF ConvergedWhenQuiet
  <2>1. ~Pending(n)
    <3>1. inbox[n] = 0 /\ \A p \in Procs : pc[p] = "idle"
      BY DEF Quiet
    <3>2. Handlers \subseteq Procs
      BY DEF Procs
    <3> QED BY <3>1, <3>2 DEF Pending
  <2>2. view[n] = rev
    BY <2>1 DEF Inv, StaleOnlyByAccident
  <2> QED BY <2>2 DEF Rules, table
<1> QED BY <1>1, InvInductive, PTL

-----------------------------------------------------------------------------
(***************************************************************************)
(* No address is banned twice at the same time.  The guard that keeps it   *)
(* so (a marker in Banner.banned) and the ban it guards against (a running *)
(* goroutine) are different pieces of state that end at different times.   *)
(*                                                                         *)
(* And no offence counts towards two bans: the ban empties the address's   *)
(* events, the marker turns away the rows that were still queued, and a    *)
(* row that outlives the marker cannot be in the queue any more.           *)
(***************************************************************************)

Rows == [ip : IPs, class : Classes, age : Nat]

\* A job that runs has all its fields.
JobRecord(j) == j = [step |-> j.step, ip |-> j.ip]

\* While a goroutine is at work on an address, the address has a marker, set
\* when the ban was decided, and the marker has not reached its lifetime.
Marked(j) ==
  /\ JobRecord(j)
  /\ j.ip \in IPs
  /\ j.ip \in DOMAIN banned
  /\ banned[j.ip] = sinceBan[j.ip]
  /\ sinceBan[j.ip] <= MarkerLife

JobsMarked ==
  /\ job = [b \in Bans |-> job[b]]
  /\ \A b \in Bans : job[b] # NoJob => Marked(job[b])

BanInv ==
  /\ queue \in Seq(Rows)
  /\ sinceBan \in [IPs -> 0..MaxWindow]
  /\ JobsMarked
  /\ OneBanAtATime

banVars == <<banned, job, sinceBan>>

LEMMA BanInit == Init0 => BanInv
  BY AutobanAssumption
  DEF Init0, BanInv, JobsMarked, OneBanAtATime, NoJob, AutobanAssumption

\* A step that leaves markers, jobs and the time of the last ban alone.
LEMMA Bystander ==
  BanInv /\ queue' \in Seq(Rows) /\ UNCHANGED banVars => BanInv'
  BY DEF BanInv, JobsMarked, Marked, OneBanAtATime, banVars

\* What the worker takes is a row, what it leaves a queue of rows.
LEMMA TakeRow ==
  ASSUME BanInv, queue # <<>>
  PROVE  Head(queue) \in Rows /\ Tail(queue) \in Seq(Rows)
  BY DEF BanInv

\* A job goes on with the same address, or ends.
LEMMA JobGoesOn ==
  ASSUME BanInv, UNCHANGED <<banned, sinceBan, queue>>, NEW b \in Bans,
         job' = [c \in Bans |-> job'[c]],
         \A c \in Bans \ {b} : job'[c] = job[c],
         job'[b] # NoJob => /\ job[b] # NoJob
                            /\ job'[b].ip = job[b].ip
                            /\ JobRecord(job'[b])
  PROVE  BanInv'
<1>1. JobsMarked'
  <2> SUFFICES ASSUME NEW c \in Bans, job'[c] # NoJob PROVE Marked(job[c])'
    BY DEF JobsMarked
  <2>1. CASE c = b
    BY <2>1 DEF BanInv, JobsMarked, Marked, JobRecord
  <2>2. CASE c # b
    BY <2>2 DEF BanInv, JobsMarked, Marked, JobRecord
  <2> QED BY <2>1, <2>2
<1>2. OneBanAtATime'
  BY DEF BanInv, OneBanAtATime
<1> QED BY <1>1, <1>2 DEF BanInv

\* A ban is decided only for an address without a marker, so no goroutine is
\* at work on it.
LEMMA BanStarts ==
  ASSUME BanInv, NEW b \in Bans, RecordBan(b)
  PROVE  BanInv'
<1> DEFINE row == Head(queue)
           new == [step |-> "lookup", ip |-> row.ip]
<1>1. /\ queue # <<>>
      /\ row.ip \notin DOMAIN banned
      /\ queue' = Tail(queue)
      /\ job' = [job EXCEPT ![b] = new]
      /\ sinceBan' = [sinceBan EXCEPT ![row.ip] = 0]
      /\ banned' = Mark(row.ip)
  BY DEF RecordBan, Crossed, Unscored
<1>2. row.ip \in IPs /\ queue' \in Seq(Rows)
  BY <1>1, TakeRow DEF Rows
<1>3. /\ job' = [c \in Bans |-> job'[c]]
      /\ job'[b] = new
      /\ \A c \in Bans \ {b} : job'[c] = job[c]
  BY <1>1 DEF BanInv, JobsMarked
<1>4. /\ sinceBan' \in [IPs -> 0..MaxWindow]
      /\ sinceBan'[row.ip] = 0
      /\ \A ip \in IPs \ {row.ip} : sinceBan'[ip] = sinceBan[ip]
  BY <1>1, <1>2, AutobanAssumption DEF BanInv, AutobanAssumption
<1>5. /\ DOMAIN banned' = DOMAIN banned \cup {row.ip}
      /\ banned'[row.ip] = 0
      /\ \A ip \in DOMAIN banned \ {row.ip} : banned'[ip] = banned[ip]
  BY <1>1 DEF Mark
<1>6. \A c \in Bans \ {b} : job'[c] # NoJob => job'[c].ip # row.ip
  BY <1>1, <1>3 DEF BanInv, JobsMarked, Marked
<1>7. JobsMarked'
  <2> SUFFICES ASSUME NEW c \in Bans, job'[c] # NoJob PROVE Marked(job[c])'
    BY <1>3 DEF JobsMarked
  <2>1. CASE c = b
    <3>1. JobRecord(new) /\ new.ip = row.ip
      BY DEF JobRecord
    <3> QED
      BY <1>2, <1>3, <1>4, <1>5, <2>1, <3>1, AutobanAssumption
      DEF Marked, JobRecord, AutobanAssumption
  <2>2. CASE c # b
    <3>1. Marked(job[c]) /\ job'[c] = job[c] /\ job[c].ip # row.ip
      BY <1>3, <1>6, <2>2 DEF BanInv, JobsMarked
    <3> QED BY <1>4, <1>5, <3>1 DEF Marked, JobRecord
  <2> QED BY <2>1, <2>2
<1>8. OneBanAtATime'
  BY <1>3, <1>6 DEF BanInv, OneBanAtATime
<1> QED BY <1>2, <1>4, <1>7, <1>8 DEF BanInv

\* Marker and ban age together; Tick waits for a goroutine whose marker is at
\* the end of its life.
LEMMA TimePasses ==
  ASSUME BanInv, Tick
  PROVE  BanInv'
<1>1. queue' \in Seq(Rows)
  <2>1. ASSUME NEW i \in 1..Len(queue)
        PROVE  [queue[i] EXCEPT !.age = @ + 1] \in Rows
    <3>1. queue[i] \in Rows
      BY DEF BanInv
    <3> QED BY <3>1 DEF Rows
  <2>2. queue' \in [1..Len(queue) -> Rows] /\ Len(queue) \in Nat
    BY <2>1 DEF Tick, BanInv
  <2> QED BY <2>2, SeqDef
<1>2. sinceBan' \in [IPs -> 0..MaxWindow]
  BY AutobanAssumption DEF BanInv, Tick, Older, AutobanAssumption
<1>3. JobsMarked'
  <2> SUFFICES ASSUME NEW c \in Bans, job[c] # NoJob PROVE Marked(job[c])'
    BY DEF JobsMarked, BanInv, Tick
  <2> DEFINE ip == job[c].ip
  <2>1. Marked(job[c]) /\ job' = job
    BY DEF BanInv, JobsMarked, Tick
  <2>2. sinceBan[ip] < MarkerLife /\ sinceBan[ip] \in 0..MaxWindow
    BY <2>1 DEF Tick, BanInv, Marked
  <2>3. sinceBan'[ip] = sinceBan[ip] + 1
    BY <2>1, <2>2, AutobanAssumption
    DEF Tick, Older, Marked, AutobanAssumption
  <2>4. ip \in DOMAIN banned' /\ banned'[ip] = sinceBan[ip] + 1
    BY <2>1, <2>2, AutobanAssumption
    DEF Tick, Older, Marked, AutobanAssumption
  <2> QED
    BY <2>1, <2>2, <2>3, <2>4, AutobanAssumption
    DEF Marked, JobRecord, AutobanAssumption
<1>4. OneBanAtATime'
  BY DEF BanInv, OneBanAtATime, Tick
<1> QED BY <1>1, <1>2, <1>3, <1>4 DEF BanInv

\* The janitor drops no marker that a goroutine still relies on.
LEMMA JanitorStep ==
  ASSUME BanInv, Sweep
  PROVE  BanInv'
<1>1. /\ UNCHANGED <<queue, job, sinceBan>>
      /\ banned' = [ip \in DOMAIN banned \ Expired |-> banned[ip]]
  BY DEF Sweep
<1>2. JobsMarked'
  <2> SUFFICES ASSUME NEW c \in Bans, job[c] # NoJob PROVE Marked(job[c])'
    BY <1>1 DEF JobsMarked, BanInv
  <2>1. Marked(job[c]) /\ sinceBan[job[c].ip] \in 0..MaxWindow
    BY DEF BanInv, JobsMarked, Marked
  <2>2. job[c].ip \notin Expired
    BY <2>1, AutobanAssumption DEF Expired, Marked, AutobanAssumption
  <2> QED BY <1>1, <2>1, <2>2 DEF Marked, JobRecord
<1> QED BY <1>1, <1>2 DEF BanInv, OneBanAtATime

\* A step of a handler that saves settings.
SettingsStep(s) ==
  \/ \E new \in Settings : SaveSettings(s, new)
  \/ WriteThreshold(s) \/ WriteWindow(s) \/ SaveFails(s)
  \/ ReadSettings(s) \/ SwapSettings(s)

LEMMA SettingsStepRests ==
  ASSUME NEW s \in Savers, SettingsStep(s)
  PROVE  UNCHANGED <<queue, events, banned, job, sinceBan>>
BY DEF SettingsStep, SaveSettings, WriteThreshold, WriteWindow, SaveFails,
       ReadSettings, SwapSettings

LEMMA BanInductive == BanInv /\ [NextBan]_allVars => BanInv'
<1> SUFFICES ASSUME BanInv, [NextBan]_allVars PROVE BanInv'
  OBVIOUS
<1>1. ASSUME NEW ip \in IPs, NEW class \in Classes, Stopped(ip, class)
      PROVE  BanInv'
  <2>1. queue' \in Seq(Rows)
    BY <1>1 DEF Stopped, BanInv, Rows
  <2> QED BY <1>1, <2>1, Bystander DEF Stopped, banVars
<1>2. CASE InsertFails
  BY <1>2, TakeRow, Bystander DEF InsertFails, banVars
<1>3. CASE RecordIgnored
  BY <1>3, TakeRow, Bystander DEF RecordIgnored, banVars
<1>4. CASE RecordScored
  BY <1>4, TakeRow, Bystander DEF RecordScored, banVars
<1>5. ASSUME NEW b \in Bans, RecordBan(b) PROVE BanInv'
  BY <1>5, BanStarts
<1>6. ASSUME NEW b \in Bans,
             BanLookup(b) \/ BanWrite(b) \/ BanWriteFails(b) \/ Notify(b)
      PROVE  BanInv'
  <2>1. UNCHANGED <<banned, sinceBan, queue>>
    BY <1>6 DEF BanLookup, BanWrite, BanWriteFails, Notify
  <2>2. job[b] # NoJob
    BY <1>6 DEF BanLookup, BanWrite, BanWriteFails, Notify, NoJob
  <2>3. Marked(job[b]) /\ job = [c \in Bans |-> job[c]]
    BY <2>2 DEF BanInv, JobsMarked
  <2>4. ASSUME Ended(b)
        PROVE  BanInv'
    BY <2>1, <2>3, <2>4, JobGoesOn DEF Ended
  <2>5. ASSUME NEW step, job' = [job EXCEPT ![b].step = step]
        PROVE  BanInv'
    <3>1. /\ job' = [c \in Bans |-> job'[c]]
          /\ \A c \in Bans \ {b} : job'[c] = job[c]
          /\ job'[b] = [job[b] EXCEPT !.step = step]
      BY <2>3, <2>5
    <3>2. job'[b].ip = job[b].ip /\ JobRecord(job'[b])
      BY <2>3, <3>1 DEF Marked, JobRecord
    <3> QED BY <2>1, <2>2, <3>1, <3>2, JobGoesOn
  <2> QED
    BY <1>6, <2>4, <2>5 DEF BanLookup, BanWrite, BanWriteFails, Notify
<1>7. CASE Tick
  BY <1>7, TimePasses
<1>8. CASE Sweep
  BY <1>8, JanitorStep
<1>9. ASSUME NEW s \in Savers, SettingsStep(s)
      PROVE  BanInv'
  BY <1>9, SettingsStepRests, Bystander DEF banVars, BanInv
<1>11. ASSUME NEW a \in Admins, NEW ip \in IPs, NEW type \in RuleTypes,
              AdminCommit(a, ip, type)
       PROVE  BanInv'
  BY <1>11, Bystander DEF AdminCommit, bvars, banVars, BanInv
<1>12. CASE BlocklistStep
  BY <1>12, Bystander DEF BlocklistStep, bvars, banVars, BanInv
<1>13. CASE Crash
  BY <1>13, AutobanAssumption
  DEF Crash, BanInv, JobsMarked, OneBanAtATime, NoJob, AutobanAssumption
<1>14. CASE UNCHANGED allVars
  BY <1>14, Bystander DEF allVars, bvars, banVars, BanInv
<1> QED
  BY <1>1, <1>2, <1>3, <1>4, <1>5, <1>6, <1>7, <1>8, <1>9, <1>11, <1>12,
     <1>13, <1>14
  DEF NextBan, SettingsStep

\* A marker is there before the goroutine of a ban and outlives it, so an
\* address is never banned by two goroutines at once, whatever the settings,
\* the errors and the crashes.
THEOREM OneBanAtATimeHolds == SpecBan => []OneBanAtATime
<1>1. BanInv => OneBanAtATime
  BY DEF BanInv
<1> QED BY <1>1, BanInit, BanInductive, PTL DEF SpecBan

----------------------------------------------------------------------------
(* What pruneEvents keeps.                                                  *)

Events == [pts : Nat, age : 0..MaxWindow]

\* The loop's result after n events.
KeptUpTo(evs, n, f) ==
  f = [i \in 0..n |-> IF i = 0 THEN <<>>
                      ELSE IF evs[i].age < cfg.window THEN Append(f[i-1], evs[i])
                      ELSE f[i-1]]

LEMMA KeptGrows ==
  ASSUME NEW evs, NEW n \in Nat, NEW f, KeptUpTo(evs, n, f)
  PROVE  \E g : KeptUpTo(evs, n + 1, g)
<1> DEFINE Next1(h, i) == IF i = 0 THEN <<>>
                          ELSE IF evs[i].age < cfg.window THEN Append(h[i-1], evs[i])
                          ELSE h[i-1]
           g == [i \in 0..n+1 |-> IF i = n + 1 THEN Next1(f, i) ELSE f[i]]
<1>1. \A i \in 0..n : f[i] = Next1(f, i)
  BY DEF KeptUpTo
<1>2. ASSUME NEW i \in 0..n+1 PROVE g[i] = Next1(g, i)
  <2>1. i # 0 => i - 1 \in 0..n+1 /\ i - 1 # n + 1 /\ g[i-1] = f[i-1]
    OBVIOUS
  <2>2. Next1(g, i) = Next1(f, i)
    BY <2>1
  <2>3. i # n + 1 => i \in 0..n
    OBVIOUS
  <2> HIDE DEF Next1
  <2> QED BY <1>1, <2>2, <2>3
<1>3. g = [i \in 0..n+1 |-> g[i]]
  OBVIOUS
<1> HIDE DEF g
<1>4. g = [i \in 0..n+1 |-> Next1(g, i)]
  BY <1>2, <1>3
<1> QED BY <1>4 DEF KeptUpTo

\* A smallest n for which there is none could be reached from the one before.
LEMMA KeptExists == ASSUME NEW evs PROVE \A n \in Nat : \E f : KeptUpTo(evs, n, f)
<1> DEFINE T == {n \in Nat : ~ \E f : KeptUpTo(evs, n, f)}
<1> SUFFICES ASSUME T # {} PROVE FALSE
  OBVIOUS
<1>1. PICK n \in T : \A k \in T : ~ (<<k, n>> \in OpToRel(<, Nat))
  <2>1. T \subseteq Nat
    OBVIOUS
  <2> HIDE DEF T
  <2> QED BY <2>1, NatLessThanWellFounded, WFMin
<1>2. \A k \in Nat : k < n => \E f : KeptUpTo(evs, k, f)
  BY <1>1 DEF OpToRel
<1>3. CASE n = 0
  <2>1. KeptUpTo(evs, 0, [i \in 0..0 |-> <<>>])
    BY DEF KeptUpTo
  <2> QED BY <1>3, <2>1
<1>4. CASE n # 0
  <2>1. n - 1 \in Nat /\ n - 1 < n /\ (n - 1) + 1 = n
    BY <1>4
  <2>2. \E f : KeptUpTo(evs, n - 1, f)
    BY <1>2, <2>1
  <2>3. \E g : KeptUpTo(evs, n, g)
    BY <2>1, <2>2, KeptGrows
  <2> QED BY <2>3
<1> QED BY <1>3, <1>4

LEMMA PrunedIs ==
  ASSUME NEW evs, Len(evs) \in Nat
  PROVE  \E f : KeptUpTo(evs, Len(evs), f) /\ Pruned(evs) = f[Len(evs)]
<1> DEFINE kept == CHOOSE f : KeptUpTo(evs, Len(evs), f)
<1>1. KeptUpTo(evs, Len(evs), kept)
  BY KeptExists
<1>2. Pruned(evs) = kept[Len(evs)]
  BY DEF Pruned, KeptUpTo
<1> HIDE DEF kept
<1> QED BY <1>1, <1>2

Comes(e, evs) == \E k \in 1..Len(evs) : e = evs[k]

\* What is kept was there.
LEMMA PrunedKeeps ==
  ASSUME NEW evs \in Seq(Events)
  PROVE  /\ Pruned(evs) \in Seq(Events)
         /\ \A i \in 1..Len(Pruned(evs)) : Comes(Pruned(evs)[i], evs)
<1>1. Len(evs) \in Nat /\ \A i \in 1..Len(evs) : evs[i] \in Events
  OBVIOUS
<1>2. PICK f : KeptUpTo(evs, Len(evs), f) /\ Pruned(evs) = f[Len(evs)]
  BY <1>1, PrunedIs
<1> DEFINE N == Len(evs)
           Good(n) == f[n] \in Seq(Events) /\ \A i \in 1..Len(f[n]) : Comes(f[n][i], evs)
           T == {n \in 0..N : ~ Good(n)}
<1>3. \A n \in 0..N : f[n] = IF n = 0 THEN <<>>
                             ELSE IF evs[n].age < cfg.window THEN Append(f[n-1], evs[n])
                             ELSE f[n-1]
  BY <1>2 DEF KeptUpTo
<1>4. Good(0)
  <2>1. f[0] = <<>>
    BY <1>1, <1>3
  <2> QED BY <2>1
<1>5. ASSUME NEW n \in 1..N, Good(n - 1) PROVE Good(n)
  <2>1. n \in 0..N /\ n # 0 /\ n \in 1..N /\ evs[n] \in Events
    BY <1>1
  <2>2. f[n] = Append(f[n-1], evs[n]) \/ f[n] = f[n-1]
    BY <1>3, <2>1
  <2>3. CASE f[n] = Append(f[n-1], evs[n])
    <3> DEFINE s == f[n-1]
    <3>1. s \in Seq(Events) /\ \A i \in 1..Len(s) : Comes(s[i], evs)
      BY <1>5
    <3>2. Comes(evs[n], evs)
      BY <2>1 DEF Comes
    <3> HIDE DEF s
    <3>3. /\ Append(s, evs[n]) \in Seq(Events) /\ Len(Append(s, evs[n])) = Len(s) + 1
          /\ \A i \in 1..Len(s) : Append(s, evs[n])[i] = s[i]
          /\ Append(s, evs[n])[Len(s) + 1] = evs[n] /\ Len(s) \in Nat
      BY <2>1, <3>1
    <3>4. ASSUME NEW i \in 1..Len(Append(s, evs[n])) PROVE Comes(Append(s, evs[n])[i], evs)
      <4>1. i \in 1..Len(s) \/ i = Len(s) + 1
        BY <3>3
      <4> QED BY <3>1, <3>2, <3>3, <4>1
    <3>5. f[n] = Append(s, evs[n])
      BY <2>3 DEF s
    <3> QED BY <3>3, <3>4, <3>5
  <2>4. CASE f[n] = f[n-1]
    BY <1>5, <2>4
  <2> QED BY <2>2, <2>3, <2>4
<1> HIDE DEF Good
<1>6. T = {}
  <2> SUFFICES ASSUME T # {} PROVE FALSE
    OBVIOUS
  <2>1. T \subseteq Nat
    BY <1>1
  <2>2. PICK n \in T : \A k \in T : ~ (<<k, n>> \in OpToRel(<, Nat))
    <3> HIDE DEF T
    <3> QED BY <2>1, NatLessThanWellFounded, WFMin
  <2>3. \A k \in T : ~ (k < n)
    BY <2>1, <2>2 DEF OpToRel
  <2>4. n \in 0..N /\ n # 0 /\ ~ Good(n)
    BY <1>4, <2>2
  <2>5. n \in 1..N /\ n - 1 \in 0..N /\ n - 1 < n
    BY <1>1, <2>4
  <2> QED BY <1>5, <2>3, <2>4, <2>5
<1>7. Good(N)
  BY <1>1, <1>6
<1> QED BY <1>2, <1>7 DEF Good

----------------------------------------------------------------------------
(* What a ban forgets.                                                      *)

\* Settings; those of no autoban (NoCfg) included.
Cfgs == [enabled : BOOLEAN, threshold : Nat, window : 0..MaxWindow]

Savings == [step : {"idle", "threshold", "window", "read", "swap"}, got : Cfgs]

SettingsFit ==
  /\ settings \in Cfgs /\ cfg \in Cfgs
  /\ saver \in [Savers -> Savings]

\* An address that was banned less than a marker's life ago has its marker: so
\* the rows of before, which the worker takes within that time, do not count.
MarkersLast ==
  \A ip \in IPs : sinceBan[ip] <= MarkerLife =>
                    ip \in DOMAIN banned /\ banned[ip] = sinceBan[ip]

\* An event is of after the last ban, or older than any window.
Since(evs, t) ==
  \A i \in 1..Len(evs) : evs[i].age < t \/ evs[i].age = MaxWindow

Forgotten == \A ip \in IPs : Since(events[ip], sinceBan[ip])

PastInv ==
  /\ SettingsFit
  /\ queue \in Seq(Rows) /\ \A i \in 1..Len(queue) : queue[i].age <= MarkerLife
  /\ sinceBan \in [IPs -> 0..MaxWindow]
  /\ events \in [IPs -> Seq(Events)]
  /\ MarkersLast
  /\ Forgotten

LEMMA PastInit == Init0 => PastInv
<1> SUFFICES ASSUME Init0 PROVE PastInv
  OBVIOUS
<1>1. Default \in Cfgs /\ NoCfg \in Cfgs
  BY AutobanAssumption DEF Cfgs, NoCfg, AutobanAssumption
<1>2. SettingsFit
  BY <1>1 DEF Init0, SettingsFit, Savings
<1>3. MaxWindow \in Nat /\ MaxWindow > MarkerLife /\ MarkerLife \in Nat
  BY AutobanAssumption DEF AutobanAssumption
<1>4. /\ queue = <<>> /\ sinceBan = [ip \in IPs |-> MaxWindow]
      /\ events = [ip \in IPs |-> <<>>]
  BY DEF Init0
<1>5. sinceBan \in [IPs -> 0..MaxWindow] /\ MarkersLast
  BY <1>3, <1>4 DEF MarkersLast
<1>6. events \in [IPs -> Seq(Events)] /\ Forgotten
  BY <1>4 DEF Forgotten, Since
<1> QED BY <1>2, <1>4, <1>5, <1>6 DEF PastInv

LEMMA QueueShrinks ==
  ASSUME PastInv, queue' = queue \/ (queue' = Tail(queue) /\ queue # <<>>)
  PROVE  queue' \in Seq(Rows) /\ \A i \in 1..Len(queue') : queue'[i].age <= MarkerLife
<1>1. CASE queue' = queue
  BY <1>1 DEF PastInv
<1>2. CASE queue' = Tail(queue) /\ queue # <<>>
  <2> DEFINE t == Tail(queue)
  <2>1. /\ t \in Seq(Rows) /\ Len(t) = Len(queue) - 1 /\ Len(queue) \in Nat
        /\ \A i \in 1..Len(t) : t[i] = queue[i + 1]
    BY <1>2 DEF PastInv
  <2>2. \A i \in 1..Len(queue) : queue[i].age <= MarkerLife
    BY DEF PastInv
  <2> HIDE DEF t
  <2>3. ASSUME NEW i \in 1..Len(t) PROVE t[i].age <= MarkerLife
    <3>1. i + 1 \in 1..Len(queue)
      BY <2>1
    <3> QED BY <2>1, <2>2, <3>1
  <2> QED BY <1>2, <2>1, <2>3 DEF t
<1> QED BY <1>1, <1>2

\* The steps of those who have nothing to do with events.
LEMMA PastRests ==
  ASSUME PastInv, SettingsFit', UNCHANGED <<events, banned, sinceBan>>,
         queue' = queue \/ (queue' = Tail(queue) /\ queue # <<>>)
  PROVE  PastInv'
<1>1. queue' \in Seq(Rows) /\ \A i \in 1..Len(queue') : queue'[i].age <= MarkerLife
  BY QueueShrinks
<1> QED BY <1>1 DEF PastInv, MarkersLast, Forgotten

\* What the worker is given is no older than a marker gets.
LEMMA RowIsRecent ==
  ASSUME PastInv, queue # <<>>
  PROVE  Head(queue) \in Rows /\ Head(queue).age <= MarkerLife
<1>1. Head(queue) = queue[1] /\ 1 \in 1..Len(queue)
  BY DEF PastInv
<1> QED BY <1>1 DEF PastInv

LEMMA ScoredPast == ASSUME PastInv, RecordScored PROVE PastInv'
<1> DEFINE row == Head(queue)
           ip == row.ip
           old == Pruned(events[ip])
           new == [pts |-> Points[row.class], age |-> row.age]
<1>1. /\ queue # <<>> /\ queue' = Tail(queue) /\ ~ Unscored(row)
      /\ events' = [events EXCEPT ![ip] = Recent(row)]
      /\ UNCHANGED <<settings, cfg, saver, banned, sinceBan>>
  BY DEF RecordScored
<1>2. row \in Rows /\ row.age <= MarkerLife /\ ip \in IPs /\ row.age \in Nat
  BY <1>1, RowIsRecent DEF Rows
<1>3. MaxWindow \in Nat /\ MarkerLife \in Nat /\ MarkerLife < MaxWindow
  BY AutobanAssumption DEF AutobanAssumption
<1>4. new \in Events
  <2>1. row.class \in DOMAIN Points
    BY <1>1 DEF Unscored
  <2>2. Points[row.class] \in Nat
    BY <2>1 DEF Points
  <2> QED BY <1>2, <1>3, <2>2 DEF Events
<1>5. row.age < sinceBan[ip]
  <2>1. ip \notin DOMAIN banned /\ sinceBan[ip] \in 0..MaxWindow
    BY <1>1, <1>2 DEF Unscored, PastInv
  <2>2. ~ (sinceBan[ip] <= MarkerLife)
    BY <1>2, <2>1 DEF PastInv, MarkersLast
  <2> QED BY <1>2, <1>3, <2>1, <2>2
<1>6. /\ old \in Seq(Events) /\ \A i \in 1..Len(old) : Comes(old[i], events[ip])
  BY <1>2, PrunedKeeps DEF PastInv
<1>7. Recent(row) = Append(old, new)
  BY DEF Recent
<1> HIDE DEF old, new
<1>8. /\ Append(old, new) \in Seq(Events) /\ Len(Append(old, new)) = Len(old) + 1
      /\ \A i \in 1..Len(old) : Append(old, new)[i] = old[i]
      /\ Append(old, new)[Len(old) + 1] = new /\ Len(old) \in Nat
  BY <1>4, <1>6
<1>9. Since(Append(old, new), sinceBan[ip])
  <2> SUFFICES ASSUME NEW i \in 1..Len(Append(old, new))
               PROVE  \/ Append(old, new)[i].age < sinceBan[ip]
                      \/ Append(old, new)[i].age = MaxWindow
    BY DEF Since
  <2>1. CASE i = Len(old) + 1
    <3>1. new.age = row.age
      BY DEF new
    <3> QED BY <1>5, <1>8, <2>1, <3>1
  <2>2. CASE i # Len(old) + 1
    <3>1. i \in 1..Len(old)
      BY <1>8, <2>2
    <3>2. PICK k \in 1..Len(events[ip]) : old[i] = events[ip][k]
      BY <1>6, <3>1 DEF Comes
    <3>3. events[ip][k].age < sinceBan[ip] \/ events[ip][k].age = MaxWindow
      BY <1>2, <3>2 DEF PastInv, Forgotten, Since
    <3> QED BY <1>8, <3>1, <3>2, <3>3
  <2> QED BY <2>1, <2>2
<1>10. /\ events \in [IPs -> Seq(Events)]
       /\ events' = [events EXCEPT ![ip] = Append(old, new)]
  BY <1>1, <1>7 DEF PastInv
<1>11. events' \in [IPs -> Seq(Events)] /\ Forgotten'
  <2>1. /\ events' \in [IPs -> Seq(Events)] /\ events'[ip] = Append(old, new)
        /\ \A a \in IPs \ {ip} : events'[a] = events[a]
    BY <1>2, <1>8, <1>10
  <2>2. ASSUME NEW a \in IPs PROVE Since(events'[a], sinceBan'[a])
    BY <1>1, <1>9, <2>1 DEF PastInv, Forgotten
  <2> QED BY <2>1, <2>2 DEF Forgotten
<1>12. /\ SettingsFit' /\ MarkersLast' /\ sinceBan' \in [IPs -> 0..MaxWindow]
  BY <1>1 DEF PastInv, SettingsFit, MarkersLast
<1>13. queue' \in Seq(Rows) /\ \A i \in 1..Len(queue') : queue'[i].age <= MarkerLife
  BY <1>1, QueueShrinks
<1> QED BY <1>11, <1>12, <1>13 DEF PastInv

LEMMA BanPast == ASSUME PastInv, NEW b \in Bans, RecordBan(b) PROVE PastInv'
<1> DEFINE ip == Head(queue).ip
<1>1. /\ queue # <<>> /\ queue' = Tail(queue)
      /\ events' = [events EXCEPT ![ip] = <<>>]
      /\ sinceBan' = [sinceBan EXCEPT ![ip] = 0]
      /\ banned' = Mark(ip)
      /\ UNCHANGED <<settings, cfg, saver>>
  BY DEF RecordBan, Crossed
<1>2. ip \in IPs
  BY <1>1, RowIsRecent DEF Rows
<1>3. MaxWindow \in Nat /\ MarkerLife \in Nat
  BY AutobanAssumption DEF AutobanAssumption
<1>4. events \in [IPs -> Seq(Events)] /\ sinceBan \in [IPs -> 0..MaxWindow]
  BY DEF PastInv
<1>5. /\ events' \in [IPs -> Seq(Events)] /\ events'[ip] = <<>>
      /\ \A a \in IPs \ {ip} : events'[a] = events[a]
  BY <1>1, <1>2, <1>4
<1>6. /\ sinceBan' \in [IPs -> 0..MaxWindow] /\ sinceBan'[ip] = 0
      /\ \A a \in IPs \ {ip} : sinceBan'[a] = sinceBan[a]
  BY <1>1, <1>2, <1>3, <1>4
<1>7. /\ ip \in DOMAIN banned' /\ banned'[ip] = 0
      /\ \A a \in DOMAIN banned \ {ip} : a \in DOMAIN banned' /\ banned'[a] = banned[a]
  BY <1>1 DEF Mark
<1>8. Since(<<>>, 0)
  BY DEF Since
<1>9. Forgotten'
  <2>1. ASSUME NEW a \in IPs PROVE Since(events'[a], sinceBan'[a])
    BY <1>5, <1>6, <1>8 DEF PastInv, Forgotten
  <2> QED BY <2>1 DEF Forgotten
<1>10. MarkersLast'
  <2>1. ASSUME NEW a \in IPs, sinceBan'[a] <= MarkerLife
        PROVE  a \in DOMAIN banned' /\ banned'[a] = sinceBan'[a]
    BY <1>6, <1>7, <2>1 DEF PastInv, MarkersLast
  <2> QED BY <2>1 DEF MarkersLast
<1>11. SettingsFit'
  BY <1>1 DEF PastInv, SettingsFit
<1>12. queue' \in Seq(Rows) /\ \A i \in 1..Len(queue') : queue'[i].age <= MarkerLife
  BY <1>1, QueueShrinks
<1> QED BY <1>5, <1>6, <1>9, <1>10, <1>11, <1>12 DEF PastInv

LEMMA SweepPast == ASSUME PastInv, Sweep PROVE PastInv'
<1>1. /\ UNCHANGED <<queue, settings, cfg, saver, sinceBan>>
      /\ events' = [ip \in IPs |-> Pruned(events[ip])]
      /\ banned' = [ip \in DOMAIN banned \ Expired |-> banned[ip]]
  BY DEF Sweep
<1>2. ASSUME NEW ip \in IPs
      PROVE  events'[ip] \in Seq(Events) /\ Since(events'[ip], sinceBan'[ip])
  <2> DEFINE old == Pruned(events[ip])
  <2>1. events[ip] \in Seq(Events)
    BY DEF PastInv
  <2>2. old \in Seq(Events) /\ \A i \in 1..Len(old) : Comes(old[i], events[ip])
    BY <2>1, PrunedKeeps
  <2>3. events'[ip] = old
    BY <1>1
  <2> HIDE DEF old
  <2>4. Since(old, sinceBan[ip])
    BY <2>2 DEF Since, Comes, PastInv, Forgotten
  <2> QED BY <1>1, <2>2, <2>3, <2>4
<1>3. events' \in [IPs -> Seq(Events)] /\ Forgotten'
  BY <1>1, <1>2 DEF Forgotten
<1>4. MarkersLast'
  <2>1. ASSUME NEW ip \in IPs, sinceBan[ip] <= MarkerLife PROVE ip \notin Expired
    <3>1. banned[ip] = sinceBan[ip] /\ sinceBan[ip] \in 0..MaxWindow
      BY <2>1 DEF PastInv, MarkersLast
    <3> QED BY <2>1, <3>1, AutobanAssumption DEF Expired, AutobanAssumption
  <2> QED BY <1>1, <2>1 DEF PastInv, MarkersLast
<1> QED BY <1>1, <1>3, <1>4 DEF PastInv, SettingsFit

\* A marker and the time since the ban age together while the marker counts.
LEMMA TickPast == ASSUME PastInv, Tick PROVE PastInv'
<1>1. /\ \A i \in 1..Len(queue) : queue[i].age < MarkerLife
      /\ queue' = [i \in 1..Len(queue) |-> [queue[i] EXCEPT !.age = @ + 1]]
      /\ events' = [ip \in IPs |->
                      [i \in 1..Len(events[ip]) |->
                         [events[ip][i] EXCEPT !.age = Older(@, MaxWindow)]]]
      /\ banned' = [ip \in DOMAIN banned |-> Older(banned[ip], MarkerLife + 1)]
      /\ sinceBan' = [ip \in IPs |-> Older(sinceBan[ip], MaxWindow)]
      /\ UNCHANGED <<settings, cfg, saver>>
  BY DEF Tick
<1>2. MaxWindow \in Nat /\ MarkerLife \in Nat /\ MarkerLife < MaxWindow
  BY AutobanAssumption DEF AutobanAssumption
<1>3. queue' \in Seq(Rows) /\ \A i \in 1..Len(queue') : queue'[i].age <= MarkerLife
  <2>1. queue \in Seq(Rows)
    BY DEF PastInv
  <2>2. ASSUME NEW i \in 1..Len(queue)
        PROVE  /\ [queue[i] EXCEPT !.age = @ + 1] \in Rows
               /\ [queue[i] EXCEPT !.age = @ + 1].age <= MarkerLife
    <3>1. queue[i] \in Rows /\ queue[i].age < MarkerLife
      BY <1>1, <2>1
    <3> QED BY <1>2, <3>1 DEF Rows
  <2>3. queue' \in [1..Len(queue) -> Rows] /\ Len(queue) \in Nat
    BY <1>1, <2>1, <2>2
  <2>4. queue' \in Seq(Rows)
    BY <2>3, SeqDef
  <2>5. Len(queue') = Len(queue)
    BY <2>3, <2>4
  <2> QED BY <1>1, <2>2, <2>4, <2>5
<1>4. ASSUME NEW ip \in IPs
      PROVE  /\ sinceBan'[ip] = Older(sinceBan[ip], MaxWindow)
             /\ sinceBan[ip] \in 0..MaxWindow /\ sinceBan'[ip] \in 0..MaxWindow
  <2>1. sinceBan[ip] \in 0..MaxWindow
    BY DEF PastInv
  <2> QED BY <1>1, <1>2, <2>1 DEF Older
<1>5. ASSUME NEW ip \in IPs
      PROVE  events'[ip] \in Seq(Events) /\ Since(events'[ip], sinceBan'[ip])
  <2> DEFINE old == events[ip]
             new == [i \in 1..Len(old) |-> [old[i] EXCEPT !.age = Older(@, MaxWindow)]]
  <2>1. old \in Seq(Events) /\ Len(old) \in Nat /\ Since(old, sinceBan[ip])
    BY DEF PastInv, Forgotten
  <2>2. events'[ip] = new
    BY <1>1
  <2>3. ASSUME NEW i \in 1..Len(old)
        PROVE  /\ new[i] \in Events
               /\ new[i].age < sinceBan'[ip] \/ new[i].age = MaxWindow
    <3>1. old[i] \in Events /\ (old[i].age < sinceBan[ip] \/ old[i].age = MaxWindow)
      BY <2>1 DEF Since
    <3>2. new[i] = [old[i] EXCEPT !.age = Older(old[i].age, MaxWindow)]
      OBVIOUS
    <3>3. old[i].age \in 0..MaxWindow
      BY <3>1 DEF Events
    <3>4. Older(old[i].age, MaxWindow) \in 0..MaxWindow
      BY <1>2, <3>3 DEF Older
    <3>5. new[i] \in Events /\ new[i].age = Older(old[i].age, MaxWindow)
      BY <3>1, <3>2, <3>4 DEF Events
    <3>6. \/ Older(old[i].age, MaxWindow) < Older(sinceBan[ip], MaxWindow)
          \/ Older(old[i].age, MaxWindow) = MaxWindow
      BY <1>2, <1>4, <3>1, <3>3 DEF Older
    <3> QED BY <1>4, <3>5, <3>6
  <2>4. new \in [1..Len(old) -> Events]
    BY <2>3
  <2> HIDE DEF new
  <2>5. new \in Seq(Events)
    BY <2>1, <2>4, SeqDef
  <2>6. Len(new) = Len(old)
    BY <2>1, <2>4, <2>5
  <2>7. Since(new, sinceBan'[ip])
    BY <2>3, <2>6 DEF Since
  <2> QED BY <2>2, <2>5, <2>7
<1>6. events' \in [IPs -> Seq(Events)] /\ Forgotten'
  BY <1>1, <1>5 DEF Forgotten
<1>7. MarkersLast'
  <2> SUFFICES ASSUME NEW ip \in IPs, sinceBan'[ip] <= MarkerLife
               PROVE  ip \in DOMAIN banned' /\ banned'[ip] = sinceBan'[ip]
    BY DEF MarkersLast
  <2>1. sinceBan[ip] < MarkerLife /\ sinceBan'[ip] = sinceBan[ip] + 1
    BY <1>2, <1>4 DEF Older
  <2>2. ip \in DOMAIN banned /\ banned[ip] = sinceBan[ip]
    BY <1>2, <1>4, <2>1 DEF PastInv, MarkersLast
  <2>3. banned'[ip] = Older(banned[ip], MarkerLife + 1) /\ ip \in DOMAIN banned'
    BY <1>1, <2>2
  <2>4. Older(sinceBan[ip], MarkerLife + 1) = sinceBan[ip] + 1
    BY <1>2, <1>4, <2>1 DEF Older
  <2> QED BY <2>1, <2>2, <2>3, <2>4
<1>8. sinceBan' \in [IPs -> 0..MaxWindow]
  BY <1>1, <1>4
<1>9. SettingsFit'
  BY <1>1 DEF PastInv, SettingsFit
<1> QED BY <1>3, <1>6, <1>7, <1>8, <1>9 DEF PastInv

\* What an admin may save, the defaults and the settings of no autoban are
\* settings.
LEMMA SettingsTyped ==
  /\ Default \in Cfgs
  /\ NoCfg \in Cfgs
  /\ \A new \in Settings : new \in Cfgs
<1>1. MaxWindow \in Nat
  BY AutobanAssumption DEF AutobanAssumption
<1>2. ASSUME NEW c \in AnySettings PROVE c \in Cfgs
  <2>1. PICK e \in BOOLEAN, t \in 1..1000, w \in 1..MaxWindow :
          c = [enabled |-> e, threshold |-> t, window |-> w]
    BY DEF AnySettings
  <2>2. t \in Nat /\ w \in 0..MaxWindow
    BY <1>1
  <2> QED BY <2>1, <2>2 DEF Cfgs
<1>3. Default \in AnySettings /\ Settings \subseteq AnySettings
  BY AutobanAssumption DEF AutobanAssumption, AnySettings
<1>4. NoCfg \in Cfgs
  <2>1. FALSE \in BOOLEAN /\ 0 \in Nat /\ 0 \in 0..MaxWindow
    BY <1>1
  <2> QED BY <2>1 DEF NoCfg, Cfgs
<1> QED BY <1>2, <1>3, <1>4

\* The settings in any of their places are settings.
LEMMA SettingsMove ==
  ASSUME PastInv, NEW s \in Savers, SettingsStep(s)
  PROVE  SettingsFit'
<1>1. /\ settings \in Cfgs /\ cfg \in Cfgs /\ saver[s].got \in Cfgs
      /\ saver \in [Savers -> Savings]
  BY DEF PastInv, SettingsFit, Savings
<1>2. Default \in Cfgs /\ NoCfg \in Cfgs /\ \A new \in Settings : new \in Cfgs
  BY SettingsTyped
<1>3. \A c \in Cfgs, d \in Cfgs :
        /\ [c EXCEPT !.window = d.window] \in Cfgs
        /\ [c EXCEPT !.threshold = d.threshold] \in Cfgs
        /\ [c EXCEPT !.enabled = d.enabled] \in Cfgs
  BY DEF Cfgs
<1>4. \A step \in {"idle", "threshold", "window", "read", "swap"}, got \in Cfgs :
        /\ [saver EXCEPT ![s] = [step |-> step, got |-> got]] \in [Savers -> Savings]
        /\ [saver EXCEPT ![s].step = step] \in [Savers -> Savings]
  BY <1>1 DEF Savings
<1>5. ASSUME NEW new \in Settings, SaveSettings(s, new) PROVE SettingsFit'
  <2>1. /\ settings' = [settings EXCEPT !.enabled = new.enabled] /\ cfg' = cfg
        /\ saver' = [saver EXCEPT ![s] = [step |-> "threshold", got |-> new]]
    BY <1>5 DEF SaveSettings
  <2>2. settings' \in Cfgs /\ saver' \in [Savers -> Savings]
    BY <1>1, <1>2, <1>3, <1>4, <2>1
  <2> QED BY <1>1, <2>1, <2>2 DEF SettingsFit
<1>6. CASE WriteThreshold(s)
  <2>1. /\ settings' = [settings EXCEPT !.threshold = saver[s].got.threshold]
        /\ saver' = [saver EXCEPT ![s].step = "window"] /\ cfg' = cfg
    BY <1>6 DEF WriteThreshold
  <2>2. settings' \in Cfgs /\ saver' \in [Savers -> Savings]
    BY <1>1, <1>3, <1>4, <2>1
  <2> QED BY <1>1, <2>1, <2>2 DEF SettingsFit
<1>7. CASE WriteWindow(s)
  <2>1. /\ settings' = [settings EXCEPT !.window = saver[s].got.window]
        /\ saver' = [saver EXCEPT ![s] = [step |-> "read", got |-> NoCfg]]
        /\ cfg' = cfg
    BY <1>7 DEF WriteWindow
  <2>2. settings' \in Cfgs /\ saver' \in [Savers -> Savings]
    BY <1>1, <1>2, <1>3, <1>4, <2>1
  <2> QED BY <1>1, <2>1, <2>2 DEF SettingsFit
<1>8. CASE SaveFails(s)
  <2>1. /\ UNCHANGED <<settings, cfg>>
        /\ saver' = [saver EXCEPT ![s] = [step |-> "idle", got |-> NoCfg]]
    BY <1>8 DEF SaveFails
  <2> QED BY <1>1, <1>2, <1>4, <2>1 DEF SettingsFit
<1>9. CASE ReadSettings(s)
  <2>1. UNCHANGED <<settings, cfg>>
    BY <1>9 DEF ReadSettings
  <2>2. CASE saver' = [saver EXCEPT ![s].step = "idle"]
    BY <1>1, <1>4, <2>1, <2>2 DEF SettingsFit
  <2>3. ASSUME NEW got \in {settings} \cup HalfRead,
               saver' = [saver EXCEPT ![s] = [step |-> "swap", got |-> got]]
        PROVE  SettingsFit'
    <3>1. got \in Cfgs
      BY <1>1, <1>2, <1>3 DEF HalfRead
    <3>2. saver' \in [Savers -> Savings]
      BY <1>4, <2>3, <3>1
    <3> QED BY <1>1, <2>1, <3>2 DEF SettingsFit
  <2> QED BY <1>9, <2>2, <2>3 DEF ReadSettings
<1>10. CASE SwapSettings(s)
  <2>1. /\ settings' = settings /\ cfg' = saver[s].got
        /\ saver' = [saver EXCEPT ![s] = [step |-> "idle", got |-> NoCfg]]
    BY <1>10 DEF SwapSettings
  <2> QED BY <1>1, <1>2, <1>4, <2>1 DEF SettingsFit
<1> QED BY <1>5, <1>6, <1>7, <1>8, <1>9, <1>10 DEF SettingsStep

LEMMA CrashPast == ASSUME PastInv, Crash PROVE PastInv'
<1>1. /\ queue' = <<>> /\ sinceBan' = [ip \in IPs |-> MaxWindow]
      /\ events' = [ip \in IPs |-> <<>>] /\ settings' = settings
      /\ cfg' \in {settings, NoCfg} \cup HalfRead
      /\ saver' = [s \in Savers |-> [step |-> "idle", got |-> NoCfg]]
  BY DEF Crash
<1>2. MaxWindow \in Nat /\ MaxWindow > MarkerLife /\ MarkerLife \in Nat
  BY AutobanAssumption DEF AutobanAssumption
<1>3. Default \in Cfgs /\ NoCfg \in Cfgs /\ settings \in Cfgs
  BY SettingsTyped DEF PastInv, SettingsFit
<1>4. \A c \in HalfRead : c \in Cfgs
  <2>1. Default.threshold \in Nat /\ Default.window \in 0..MaxWindow
    BY <1>3 DEF Cfgs
  <2> QED BY <1>3, <2>1 DEF HalfRead, Cfgs
<1>5. SettingsFit'
  BY <1>1, <1>3, <1>4 DEF SettingsFit, Savings
<1>6. sinceBan' \in [IPs -> 0..MaxWindow] /\ MarkersLast'
  BY <1>1, <1>2 DEF MarkersLast
<1>7. events' \in [IPs -> Seq(Events)] /\ Forgotten'
  BY <1>1 DEF Forgotten, Since
<1> QED BY <1>1, <1>5, <1>6, <1>7 DEF PastInv

LEMMA PastNext == PastInv /\ [NextBan]_allVars => PastInv'
<1> SUFFICES ASSUME PastInv, [NextBan]_allVars PROVE PastInv'
  OBVIOUS
<1>1. UNCHANGED <<settings, cfg, saver>> => SettingsFit'
  BY DEF PastInv, SettingsFit
<1>2. ASSUME NEW ip \in IPs, NEW class \in Classes, Stopped(ip, class) PROVE PastInv'
  <2> DEFINE row == [ip |-> ip, class |-> class, age |-> 0]
  <2>1. queue' = Append(queue, row) /\ UNCHANGED <<settings, cfg, saver, events, banned, sinceBan>>
    BY <1>2 DEF Stopped
  <2>2. row \in Rows /\ row.age <= MarkerLife
    BY AutobanAssumption DEF Rows, AutobanAssumption
  <2> HIDE DEF row
  <2>3. /\ queue \in Seq(Rows) /\ Len(queue) \in Nat
        /\ \A i \in 1..Len(queue) : queue[i].age <= MarkerLife
    BY DEF PastInv
  <2>4. /\ Append(queue, row) \in Seq(Rows) /\ Len(Append(queue, row)) = Len(queue) + 1
        /\ \A i \in 1..Len(queue) : Append(queue, row)[i] = queue[i]
        /\ Append(queue, row)[Len(queue) + 1] = row
    BY <2>2, <2>3
  <2>5. \A i \in 1..Len(queue') : queue'[i].age <= MarkerLife
    <3> SUFFICES ASSUME NEW i \in 1..Len(queue') PROVE queue'[i].age <= MarkerLife
      OBVIOUS
    <3>1. i \in 1..Len(queue) \/ i = Len(queue) + 1
      BY <2>1, <2>3, <2>4
    <3> QED BY <2>1, <2>2, <2>3, <2>4, <3>1
  <2>6. SettingsFit'
    BY <1>1, <2>1
  <2>7. queue' \in Seq(Rows)
    BY <2>1, <2>4
  <2> QED BY <2>1, <2>5, <2>6, <2>7 DEF PastInv, MarkersLast, Forgotten
<1>3. CASE InsertFails
  BY <1>1, <1>3, PastRests DEF InsertFails
<1>4. CASE RecordIgnored
  BY <1>1, <1>4, PastRests DEF RecordIgnored
<1>5. CASE RecordScored
  BY <1>5, ScoredPast
<1>6. ASSUME NEW b \in Bans, RecordBan(b) PROVE PastInv'
  BY <1>6, BanPast
<1>7. ASSUME NEW b \in Bans,
             BanLookup(b) \/ BanWrite(b) \/ BanWriteFails(b) \/ Notify(b)
      PROVE  PastInv'
  BY <1>1, <1>7, PastRests DEF BanLookup, BanWrite, BanWriteFails, Notify
<1>8. CASE Tick
  BY <1>8, TickPast
<1>9. CASE Sweep
  BY <1>9, SweepPast
<1>10. ASSUME NEW s \in Savers, SettingsStep(s) PROVE PastInv'
  BY <1>10, SettingsStepRests, SettingsMove, PastRests
<1>11. CASE \/ \E a \in Admins, ip \in IPs, type \in RuleTypes : AdminCommit(a, ip, type)
            \/ BlocklistStep
            \/ UNCHANGED allVars
  <2>1. UNCHANGED bvars
    BY <1>11 DEF AdminCommit, BlocklistStep, allVars
  <2> QED BY <1>1, <2>1, PastRests DEF bvars
<1>12. CASE Crash
  BY <1>12, CrashPast
<1> QED
  BY <1>2, <1>3, <1>4, <1>5, <1>6, <1>7, <1>8, <1>9, <1>10, <1>11, <1>12
  DEF NextBan, SettingsStep

\* Record: what an address did before a ban of it was decided is not held
\* against it once more, whatever rows were queued, whichever settings came and
\* went, and whether the janitor had run; a crash forgets all of it.
THEOREM NoOffenceCountsTwiceHolds == SpecBan => []NoOffenceCountsTwice
<1>1. PastInv => NoOffenceCountsTwice
  <2> SUFFICES ASSUME PastInv, NEW ip \in IPs, NEW i \in 1..Len(events[ip]),
                      events[ip][i].age < cfg.window
               PROVE  events[ip][i].age < sinceBan[ip]
    BY DEF NoOffenceCountsTwice
  <2>1. cfg.window \in 0..MaxWindow /\ MaxWindow \in Nat
    BY AutobanAssumption DEF PastInv, SettingsFit, Cfgs, AutobanAssumption
  <2>2. events[ip][i].age # MaxWindow
    BY <2>1
  <2> QED BY <2>2 DEF PastInv, Forgotten, Since
<1> QED BY <1>1, PastInit, PastNext, PTL DEF SpecBan
=============================================================================
