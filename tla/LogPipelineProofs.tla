------------------------- MODULE LogPipelineProofs --------------------------
(***************************************************************************)
(* Rows that were queued reach the table before the process ends, the      *)
(* warehouse is a mirror of the table, webhook and access log see its rows *)
(* in their order, and the log files hold the newest of them, for queues,  *)
(* batches and files of any size, any number of requests and any failures. *)
(***************************************************************************)
EXTENDS LogPipeline, SequenceTheorems, WellFoundedInduction, TLAPS

-----------------------------------------------------------------------------
(* Streams *)

LEMMA Empty == Elements(<<>>) = {} /\ Increasing(<<>>)
BY DEF Elements, Increasing

\* A row that is newer than all the others goes to the end.
LEMMA Appended ==
  ASSUME NEW s \in Seq(Nat), NEW x \in Nat
  PROVE  /\ Append(s, x) \in Seq(Nat)
         /\ Elements(Append(s, x)) = Elements(s) \cup {x}
         /\ Increasing(s) /\ (\A y \in Elements(s) : y < x)
              => Continues(s, Append(s, x))
<1> DEFINE t == Append(s, x)
<1>1. /\ t \in Seq(Nat) /\ Len(t) = Len(s) + 1 /\ Len(s) \in Nat
      /\ \A i \in 1..Len(s) : t[i] = s[i]
      /\ t[Len(s) + 1] = x
  OBVIOUS
<1> HIDE DEF t
<1>2. Elements(t) = Elements(s) \cup {x}
  <2>1. Elements(t) \subseteq Elements(s) \cup {x}
    <3>1. \A i \in 1..Len(t) : (i \in 1..Len(s) /\ t[i] = s[i]) \/ t[i] = x
      BY <1>1
    <3> QED BY <3>1 DEF Elements
  <2>2. Elements(s) \subseteq Elements(t)
    BY <1>1 DEF Elements
  <2>3. x \in Elements(t)
    BY <1>1 DEF Elements
  <2> QED BY <2>1, <2>2, <2>3
<1>3. ASSUME Increasing(s), \A y \in Elements(s) : y < x
      PROVE  Continues(s, t)
  <2>1. ASSUME NEW i \in 1..Len(t), NEW j \in 1..Len(t), i < j
        PROVE  t[i] < t[j]
    <3>1. i \in 1..Len(s) /\ t[i] = s[i] /\ s[i] \in Elements(s)
      BY <1>1, <2>1 DEF Elements
    <3>2. CASE j = Len(s) + 1
      BY <1>1, <1>3, <3>1, <3>2
    <3>3. CASE j # Len(s) + 1
      <4>1. j \in 1..Len(s)
        BY <1>1, <3>3
      <4> QED BY <1>1, <1>3, <2>1, <3>1, <4>1 DEF Increasing
    <3> QED BY <3>2, <3>3
  <2> QED BY <1>1, <2>1 DEF Continues, Increasing
<1> QED BY <1>1, <1>2, <1>3 DEF t

\* So does a batch of rows.
LEMMA Joined ==
  ASSUME NEW s \in Seq(Nat), NEW t \in Seq(Nat)
  PROVE  /\ s \o t \in Seq(Nat)
         /\ Elements(s \o t) = Elements(s) \cup Elements(t)
         /\ Increasing(s) /\ Increasing(t) /\ Below(s, t)
              => Continues(s, s \o t)
<1> DEFINE u == s \o t
<1>1. /\ u \in Seq(Nat) /\ Len(u) = Len(s) + Len(t)
      /\ Len(s) \in Nat /\ Len(t) \in Nat
      /\ \A i \in 1..Len(s) : u[i] = s[i]
      /\ \A i \in 1..Len(t) : u[Len(s) + i] = t[i]
  OBVIOUS
<1> HIDE DEF u
<1>2. \A i \in 1..Len(u) :
        \/ i \in 1..Len(s) /\ u[i] = s[i]
        \/ i - Len(s) \in 1..Len(t) /\ u[i] = t[i - Len(s)]
  <2> SUFFICES ASSUME NEW i \in 1..Len(u), ~(i \in 1..Len(s))
               PROVE  i - Len(s) \in 1..Len(t) /\ u[i] = t[i - Len(s)]
    BY <1>1
  <2>1. i - Len(s) \in 1..Len(t) /\ Len(s) + (i - Len(s)) = i
    BY <1>1
  <2> QED BY <1>1, <2>1
<1>3. Elements(u) = Elements(s) \cup Elements(t)
  <2>1. Elements(u) \subseteq Elements(s) \cup Elements(t)
    BY <1>2 DEF Elements
  <2>2. Elements(s) \subseteq Elements(u)
    BY <1>1 DEF Elements
  <2>3. Elements(t) \subseteq Elements(u)
    <3> SUFFICES ASSUME NEW i \in 1..Len(t) PROVE t[i] \in Elements(u)
      BY DEF Elements
    <3>1. Len(s) + i \in 1..Len(u) /\ u[Len(s) + i] = t[i]
      BY <1>1
    <3> QED BY <3>1 DEF Elements
  <2> QED BY <2>1, <2>2, <2>3
<1>4. ASSUME Increasing(s), Increasing(t), Below(s, t)
      PROVE  Continues(s, u)
  <2>1. ASSUME NEW i \in 1..Len(u), NEW j \in 1..Len(u), i < j
        PROVE  u[i] < u[j]
    <3>1. CASE j \in 1..Len(s)
      <4>1. i \in 1..Len(s)
        BY <1>1, <2>1, <3>1
      <4> QED BY <1>1, <1>4, <2>1, <3>1, <4>1 DEF Increasing
    <3>2. CASE j \notin 1..Len(s)
      <4>1. j - Len(s) \in 1..Len(t) /\ u[j] = t[j - Len(s)]
        BY <1>2, <3>2
      <4>2. CASE i \in 1..Len(s)
        <5>1. u[i] \in Elements(s) /\ u[j] \in Elements(t)
          BY <1>1, <4>1, <4>2 DEF Elements
        <5> QED BY <1>4, <5>1 DEF Below
      <4>3. CASE i \notin 1..Len(s)
        <5>1. i - Len(s) \in 1..Len(t) /\ u[i] = t[i - Len(s)]
          BY <1>2, <4>3
        <5>2. i - Len(s) < j - Len(s)
          BY <1>1, <2>1
        <5> QED BY <1>4, <4>1, <5>1, <5>2 DEF Increasing
      <4> QED BY <4>2, <4>3
    <3> QED BY <3>1, <3>2
  <2> QED BY <1>1, <2>1 DEF Continues, Increasing
<1> QED BY <1>1, <1>3, <1>4 DEF u

\* The head of a queue in order is older than what stays.
LEMMA Taken ==
  ASSUME NEW s \in Seq(Nat), s # <<>>
  PROVE  /\ Head(s) \in Nat /\ Tail(s) \in Seq(Nat)
         /\ Elements(s) = Elements(Tail(s)) \cup {Head(s)}
         /\ Increasing(s) => /\ Increasing(Tail(s))
                             /\ \A y \in Elements(Tail(s)) : Head(s) < y
<1> DEFINE t == Tail(s)
<1>1. /\ t \in Seq(Nat) /\ Len(t) = Len(s) - 1 /\ Len(s) \in Nat \ {0}
      /\ \A i \in 1..Len(t) : t[i] = s[i + 1]
      /\ Head(s) = s[1] /\ s[1] \in Nat
  OBVIOUS
<1> HIDE DEF t
<1>2. Elements(s) = Elements(t) \cup {s[1]}
  <2>1. \A i \in 1..Len(s) :
          i = 1 \/ (i - 1 \in 1..Len(t) /\ s[i] = t[i - 1])
    <3> SUFFICES ASSUME NEW i \in 1..Len(s), i # 1
                 PROVE  i - 1 \in 1..Len(t) /\ s[i] = t[i - 1]
      OBVIOUS
    <3>1. i - 1 \in 1..Len(t) /\ (i - 1) + 1 = i
      BY <1>1
    <3> QED BY <1>1, <3>1
  <2>2. Elements(s) \subseteq Elements(t) \cup {s[1]}
    BY <2>1 DEF Elements
  <2>3. Elements(t) \subseteq Elements(s)
    <3> SUFFICES ASSUME NEW i \in 1..Len(t) PROVE t[i] \in Elements(s)
      BY DEF Elements
    <3>1. i + 1 \in 1..Len(s) /\ t[i] = s[i + 1]
      BY <1>1
    <3> QED BY <3>1 DEF Elements
  <2>4. s[1] \in Elements(s)
    BY <1>1 DEF Elements
  <2> QED BY <2>2, <2>3, <2>4
<1>3. ASSUME Increasing(s)
      PROVE  Increasing(t) /\ \A y \in Elements(t) : s[1] < y
  <2>1. \A i \in 1..Len(t) : i + 1 \in 1..Len(s) /\ t[i] = s[i + 1]
    BY <1>1
  <2>2. \A i, j \in 1..Len(t) : i < j => t[i] < t[j]
    <3> SUFFICES ASSUME NEW i \in 1..Len(t), NEW j \in 1..Len(t), i < j
                 PROVE  t[i] < t[j]
      OBVIOUS
    <3>1. i + 1 < j + 1
      BY <1>1
    <3> QED BY <1>3, <2>1, <3>1 DEF Increasing
  <2>3. ASSUME NEW i \in 1..Len(t)
        PROVE  s[1] < t[i]
    <3>1. 1 \in 1..Len(s) /\ 1 < i + 1
      BY <1>1
    <3> QED BY <1>3, <2>1, <3>1 DEF Increasing
  <2> QED BY <2>2, <2>3 DEF Increasing, Elements
<1> QED BY <1>1, <1>2, <1>3 DEF t

-----------------------------------------------------------------------------
(* The invariant *)

Steps == {"idle", "insert", "webhook", "access", "mirror", "done"}

Typing ==
  /\ offered \in Nat
  /\ worker \in [step : Steps, row : Nat]
  /\ queue \in Seq(Nat) /\ stored \in Seq(Nat)
  /\ sinkQueue \in Seq(Nat) /\ batch \in Seq(Nat) /\ shipped \in Seq(Nat)

\* The row the worker holds, before and after it was stored.
Waiting == IF worker.step = "insert" THEN {worker.row} ELSE {}
Handed == IF worker.step \in {"webhook", "access", "mirror"} THEN {worker.row}
                                                            ELSE {}

Older(S, T) == \A x \in S, y \in T : x < y

\* The table, the row being stored and the queue follow one another, and the
\* newest of them is no newer than the last row offered.
TableInOrder ==
  /\ Increasing(stored) /\ Increasing(queue)
  /\ Older(Elements(stored), Waiting \cup Elements(queue))
  /\ Older(Waiting, Elements(queue))
  /\ Elements(stored) \cup Waiting \cup Elements(queue) \subseteq 1..offered

Collected == Elements(shipped) \cup Elements(batch) \cup Elements(sinkQueue)

\* So do the warehouse, the batch, the sink's queue and the row that is still
\* to be handed to it; and all of these are in the table.
MirrorInOrder ==
  /\ Increasing(shipped) /\ Increasing(batch) /\ Increasing(sinkQueue)
  /\ Below(shipped, batch) /\ Below(shipped, sinkQueue)
  /\ Below(batch, sinkQueue)
  /\ Older(Collected, Handed)
  /\ Collected \cup Handed \subseteq Elements(stored)

\* Every row offered is somewhere, and the worker ends with an empty queue.
Accounted ==
  /\ 1..offered \subseteq
       Elements(queue) \cup Waiting \cup Elements(stored) \cup refused
  /\ worker.step = "done" => queueClosed /\ queue = <<>>
  /\ main = "exited" => worker.step = "done"

IInv == Typing /\ TableInOrder /\ MirrorInOrder /\ Accounted

\* What these speak of.
upstream == <<offered, queue, stored, refused>>
downstream == <<sinkQueue, batch, shipped>>

LEMMA InitEstablishes == ASSUME InitPipeline PROVE IInv
<1> USE DEF InitPipeline, InitLog, InitSink, Idle
<1>1. Typing
  BY DEF Typing, Steps
<1>2. Waiting = {} /\ Handed = {} /\ Elements(<<>>) = {} /\ Increasing(<<>>)
  BY Empty DEF Waiting, Handed
<1>3. TableInOrder /\ MirrorInOrder
  BY <1>2 DEF TableInOrder, MirrorInOrder, Collected, Older, Below
<1>4. Accounted
  BY DEF Accounted
<1> QED BY <1>1, <1>3, <1>4 DEF IInv

\* A step that moves no row: the worker may only go from sink to sink.
LEMMA NoRowMoves ==
  ASSUME IInv, UNCHANGED <<upstream, downstream>>,
         worker' \in [step : Steps, row : Nat],
         Waiting' = Waiting, Handed' = Handed,
         worker'.step = "done" => queueClosed' /\ queue = <<>>,
         main' = "exited" => worker'.step = "done"
  PROVE  IInv'
<1>1. Typing'
  BY DEF IInv, Typing, upstream, downstream
<1>2. TableInOrder'
  BY DEF IInv, TableInOrder, upstream
<1>3. Collected' = Collected
  BY DEF Collected, downstream
<1>4. MirrorInOrder'
  BY <1>3 DEF IInv, MirrorInOrder, upstream, downstream
<1>5. Accounted'
  BY DEF IInv, Accounted, upstream
<1> QED BY <1>1, <1>2, <1>4, <1>5 DEF IInv

\* A step of a request, of the worker or of main leaves the sink's part alone.
LEMMA MirrorUntouched ==
  ASSUME IInv, UNCHANGED downstream, Handed' \subseteq Handed,
         Elements(stored) \subseteq Elements(stored')
  PROVE  MirrorInOrder'
<1>1. Collected' = Collected
  BY DEF Collected, downstream
<1> QED BY <1>1 DEF IInv, MirrorInOrder, downstream, Older

-----------------------------------------------------------------------------
(* Requests and the worker *)

LEMMA QueueRequestKeeps == ASSUME IInv, QueueRequest PROVE IInv'
<1> DEFINE r == offered + 1
<1>1. /\ offered' = r /\ r \in Nat /\ offered \in Nat
      /\ UNCHANGED <<worker, stored, queueClosed, main, downstream>>
      /\ \/ ~queueClosed /\ queue' = Append(queue, r) /\ refused' = refused
         \/ queue' = queue /\ refused' = refused \cup {r}
  BY DEF QueueRequest, IInv, Typing, hookVars, sinkVars, downstream
<1>2. Waiting' = Waiting /\ Handed' = Handed
  BY <1>1 DEF Waiting, Handed
<1>3. /\ queue' \in Seq(Nat)
      /\ Increasing(queue')
      /\ Elements(queue') \cup refused' = Elements(queue) \cup refused \cup {r}
      /\ Elements(queue') \subseteq Elements(queue) \cup {r}
  <2>1. CASE queue' = queue /\ refused' = refused \cup {r}
    BY <2>1 DEF IInv, Typing, TableInOrder
  <2>2. CASE queue' = Append(queue, r) /\ refused' = refused
    <3>1. \A y \in Elements(queue) : y < r
      BY <1>1 DEF IInv, TableInOrder
    <3>2. Continues(queue, Append(queue, r))
          /\ Elements(Append(queue, r)) = Elements(queue) \cup {r}
          /\ Append(queue, r) \in Seq(Nat)
      BY <1>1, <3>1, Appended DEF IInv, Typing, TableInOrder
    <3> QED BY <2>2, <3>2 DEF Continues
  <2> QED BY <1>1, <2>1, <2>2
<1>4. Typing'
  BY <1>1, <1>3 DEF IInv, Typing, downstream
<1>5. TableInOrder'
  <2>1. Elements(stored) \cup Waiting \cup Elements(queue) \subseteq 1..offered
        /\ Increasing(stored) /\ Older(Waiting, Elements(queue))
        /\ Older(Elements(stored), Waiting \cup Elements(queue))
    BY DEF IInv, TableInOrder
  <2>2. Older(Elements(stored) \cup Waiting, {r})
    BY <1>1, <2>1 DEF Older
  <2>3. 1..offered \cup {r} \subseteq 1..offered'
    BY <1>1
  <2>4. Older(Waiting, Elements(queue'))
        /\ Older(Elements(stored), Waiting \cup Elements(queue'))
    BY <1>3, <2>1, <2>2 DEF Older
  <2>5. Elements(stored) \cup Waiting \cup Elements(queue') \subseteq 1..offered'
    BY <1>3, <2>1, <2>3
  <2> QED BY <1>1, <1>2, <1>3, <2>1, <2>4, <2>5 DEF TableInOrder
<1>6. MirrorInOrder'
  BY <1>1, <1>2, MirrorUntouched
<1>7. Accounted'
  <2>1. 1..offered' \subseteq 1..offered \cup {r}
    BY <1>1
  <2>2. 1..offered' \subseteq
          Elements(queue') \cup Waiting \cup Elements(stored) \cup refused'
    BY <1>3, <2>1 DEF IInv, Accounted
  <2>3. worker.step = "done" => queue' = queue
    BY <1>1 DEF IInv, Accounted
  <2> QED BY <1>1, <1>2, <2>2, <2>3 DEF IInv, Accounted
<1> QED BY <1>4, <1>5, <1>6, <1>7 DEF IInv

LEMMA WorkerTakeKeeps == ASSUME IInv, WorkerTake PROVE IInv'
<1> DEFINE r == Head(queue)
<1>1. /\ worker' = [step |-> "insert", row |-> r] /\ queue' = Tail(queue)
      /\ queue # <<>> /\ queue \in Seq(Nat) /\ worker.step = "idle"
      /\ UNCHANGED <<offered, stored, refused, queueClosed, main, downstream>>
  BY DEF WorkerTake, Idle, IInv, Typing, hookVars, sinkVars, downstream
<1>2. /\ r \in Nat /\ Tail(queue) \in Seq(Nat)
      /\ Elements(queue) = Elements(Tail(queue)) \cup {r}
      /\ Increasing(Tail(queue))
      /\ \A y \in Elements(Tail(queue)) : r < y
  BY <1>1, Taken DEF IInv, TableInOrder
<1>3. Waiting = {} /\ Waiting' = {r} /\ Handed' = {} /\ Handed = {}
  BY <1>1 DEF Waiting, Handed
<1>4. Typing'
  BY <1>1, <1>2 DEF IInv, Typing, downstream, Steps
<1>5. TableInOrder'
  BY <1>1, <1>2, <1>3 DEF IInv, TableInOrder, Older
<1>6. MirrorInOrder'
  BY <1>1, <1>3, MirrorUntouched
<1>7. Accounted'
  BY <1>1, <1>2, <1>3 DEF IInv, Accounted
<1> QED BY <1>4, <1>5, <1>6, <1>7 DEF IInv

\* A row enters the table: the one step that is a Store of the mirror's table.
LEMMA InsertKeeps ==
  ASSUME IInv, Insert
  PROVE  IInv' /\ (Analytics!Store \/ UNCHANGED <<stored, shipped>>)
<1> DEFINE r == worker.row
<1>1. /\ worker.step = "insert" /\ r \in Nat /\ stored \in Seq(Nat)
      /\ UNCHANGED <<offered, queue, queueClosed, main, downstream>>
      /\ \/ /\ stored' = Append(stored, r) /\ refused' = refused
            /\ worker' = [worker EXCEPT !.step = "webhook"]
         \/ /\ stored' = stored /\ refused' = refused \cup {r}
            /\ worker' = Idle
  BY DEF Insert, Goto, IInv, Typing, hookVars, sinkVars, downstream
<1>2. Waiting = {r} /\ Waiting' = {} /\ Handed = {}
  BY <1>1 DEF Waiting, Handed, Idle, IInv, Typing
<1>3. \A y \in Elements(stored) : y < r
  BY <1>2 DEF IInv, TableInOrder, Older
<1>4. /\ Append(stored, r) \in Seq(Nat)
      /\ Elements(Append(stored, r)) = Elements(stored) \cup {r}
      /\ Continues(stored, Append(stored, r))
      /\ Len(Append(stored, r)) = Len(stored) + 1
  BY <1>1, <1>3, Appended DEF IInv, TableInOrder
<1>5. Typing' /\ worker'.step \in {"idle", "webhook"}
  <2>1. worker' \in [step : {"idle", "webhook"}, row : Nat]
    <3>1. worker \in [step : Steps, row : Nat]
      BY DEF IInv, Typing
    <3>2. CASE worker' = [worker EXCEPT !.step = "webhook"]
      BY <3>1, <3>2
    <3>3. CASE worker' = Idle
      BY <3>3 DEF Idle
    <3> QED BY <1>1, <3>2, <3>3
  <2>2. stored' \in Seq(Nat)
    BY <1>1, <1>4
  <2> QED BY <1>1, <2>1, <2>2 DEF IInv, Typing, downstream, Steps
<1>6. /\ Elements(stored) \subseteq Elements(stored')
      /\ Elements(stored') \subseteq Elements(stored) \cup {r}
      /\ Elements(stored') \cup refused' = Elements(stored) \cup refused \cup {r}
      /\ Increasing(stored')
  BY <1>1, <1>4 DEF Continues, IInv, TableInOrder
<1>7. TableInOrder'
  BY <1>1, <1>2, <1>6 DEF IInv, TableInOrder, Older
<1>8. MirrorInOrder'
  <2>1. CASE worker' = Idle
    <3>1. Handed' = {}
      BY <2>1 DEF Handed, Idle
    <3> QED BY <1>1, <1>6, <3>1, MirrorUntouched
  <2>2. CASE stored' = Append(stored, r) /\ worker'.step = "webhook"
    <3>1. Handed' = {r}
      BY <1>1, <2>2 DEF Handed, IInv, Typing, Idle
    <3>2. Collected' = Collected /\ Collected \subseteq Elements(stored)
      BY <1>1 DEF Collected, downstream, IInv, MirrorInOrder
    <3>3. Older(Collected, {r})
      BY <1>3, <3>2 DEF Older
    <3>4. Collected \cup {r} \subseteq Elements(stored')
      BY <1>4, <2>2, <3>2
    <3> QED BY <1>1, <3>1, <3>2, <3>3, <3>4
            DEF IInv, MirrorInOrder, downstream
  <2> QED BY <1>1, <2>1, <2>2 DEF IInv, Typing
<1>9. Accounted'
  BY <1>1, <1>2, <1>5, <1>6 DEF IInv, Accounted
<1>10. Analytics!Store \/ UNCHANGED <<stored, shipped>>
  <2>1. CASE UNCHANGED stored
    BY <1>1, <2>1 DEF downstream
  <2>2. CASE stored' = Append(stored, r)
    <3>1. Analytics!Continues(stored, stored')
      BY <1>4, <2>2 DEF Continues, Analytics!Continues, Increasing,
                        Analytics!Increasing
    <3> QED BY <1>1, <1>4, <2>2, <3>1 DEF Analytics!Store, downstream
  <2> QED BY <1>1, <2>1, <2>2
<1> QED BY <1>5, <1>7, <1>8, <1>9, <1>10 DEF IInv

LEMMA PushWarehouseKeeps == ASSUME IInv, PushWarehouse PROVE IInv'
<1> DEFINE r == worker.row
<1>1. /\ worker.step = "mirror" /\ worker' = Idle /\ r \in Nat
      /\ UNCHANGED <<upstream, queueClosed, main, batch, shipped>>
      /\ sinkQueue \in Seq(Nat)
      /\ sinkQueue' = Append(sinkQueue, r) \/ sinkQueue' = sinkQueue
  BY DEF PushWarehouse, SinkPush, IInv, Typing, hookVars, upstream
<1>2. Handed = {r} /\ Handed' = {} /\ Waiting' = {} /\ Waiting = {}
  BY <1>1 DEF Waiting, Handed, Idle
<1>3. \A y \in Collected : y < r
  BY <1>2 DEF IInv, MirrorInOrder, Older
<1>4. /\ sinkQueue' \in Seq(Nat) /\ Increasing(sinkQueue')
      /\ Elements(sinkQueue') \subseteq Elements(sinkQueue) \cup {r}
  <2>1. \A y \in Elements(sinkQueue) : y < r
    BY <1>3 DEF Collected
  <2>2. /\ Append(sinkQueue, r) \in Seq(Nat)
        /\ Elements(Append(sinkQueue, r)) = Elements(sinkQueue) \cup {r}
        /\ Continues(sinkQueue, Append(sinkQueue, r))
    BY <1>1, <2>1, Appended DEF IInv, MirrorInOrder
  <2> QED BY <1>1, <2>2 DEF Continues, IInv, MirrorInOrder
<1>5. Typing'
  BY <1>1, <1>4 DEF IInv, Typing, upstream, Steps, Idle
<1>6. TableInOrder'
  BY <1>1, <1>2 DEF IInv, TableInOrder, upstream
<1>7. MirrorInOrder'
  <2>1. Below(shipped, sinkQueue') /\ Below(batch, sinkQueue')
    BY <1>3, <1>4 DEF IInv, MirrorInOrder, Below, Collected
  <2>2. Collected' \subseteq Collected \cup {r}
    BY <1>1, <1>4 DEF Collected
  <2>3. Collected' \subseteq Elements(stored)
    BY <1>2, <2>2 DEF IInv, MirrorInOrder
  <2> QED BY <1>1, <1>2, <1>4, <2>1, <2>3
          DEF IInv, MirrorInOrder, Older, upstream
<1>8. Accounted'
  BY <1>1, <1>2 DEF IInv, Accounted, upstream, Idle
<1> QED BY <1>5, <1>6, <1>7, <1>8 DEF IInv

\* The worker goes from sink to sink.
LEMMA HandOnKeeps == ASSUME IInv, PushWebhook \/ PushAccessLog PROVE IInv'
<1>1. /\ UNCHANGED <<upstream, downstream, queueClosed, main>>
      /\ worker.step \in {"webhook", "access"}
      /\ \/ worker' = [worker EXCEPT !.step = "access"]
         \/ worker' = [worker EXCEPT !.step = "mirror"]
  BY DEF PushWebhook, PushAccessLog, Goto, upstream, downstream, sinkVars,
         hookVars
<1>2. worker \in [step : Steps, row : Nat]
  BY DEF IInv, Typing
<1>3. worker' \in [step : {"access", "mirror"}, row : {worker.row}]
  BY <1>1, <1>2
<1>4. worker' \in [step : Steps, row : Nat] /\ worker'.row = worker.row
      /\ worker'.step \in {"access", "mirror"}
  BY <1>2, <1>3 DEF Steps
<1>5. Waiting' = Waiting /\ Handed' = Handed
  BY <1>1, <1>4 DEF Waiting, Handed
<1>6. main' # "exited"
  BY <1>1 DEF IInv, Accounted
<1> QED BY <1>1, <1>4, <1>5, <1>6, NoRowMoves

LEMMA WorkerDoneKeeps == ASSUME IInv, WorkerDone PROVE IInv'
<1>1. /\ UNCHANGED <<upstream, downstream, queueClosed, main>>
      /\ worker = Idle /\ queueClosed /\ queue = <<>>
      /\ worker' = [worker EXCEPT !.step = "done"]
  BY DEF WorkerDone, Goto, upstream, downstream, sinkVars, hookVars
<1>2. worker' = [step |-> "done", row |-> 0]
  BY <1>1 DEF Idle
<1>3. worker' \in [step : Steps, row : Nat] /\ Waiting' = Waiting
      /\ Handed' = Handed
  BY <1>1, <1>2 DEF Waiting, Handed, Idle, Steps
<1> QED BY <1>1, <1>2, <1>3, NoRowMoves

-----------------------------------------------------------------------------
(* The sink *)

SinkLeavesAlone == <<upstream, queueClosed, worker, main>>

\* The sink's steps only have to keep its own rows in order.
LEMMA SinkKeeps ==
  ASSUME IInv, UNCHANGED SinkLeavesAlone,
         sinkQueue' \in Seq(Nat), batch' \in Seq(Nat), shipped' \in Seq(Nat),
         Increasing(shipped'), Increasing(batch'), Increasing(sinkQueue'),
         Below(shipped', batch'), Below(shipped', sinkQueue'),
         Below(batch', sinkQueue'), Collected' \subseteq Collected
  PROVE  IInv'
<1>1. Typing'
  BY DEF IInv, Typing, SinkLeavesAlone, upstream
<1>2. Waiting' = Waiting /\ Handed' = Handed
  BY DEF Waiting, Handed, SinkLeavesAlone
<1>3. TableInOrder' /\ Accounted'
  BY <1>2 DEF IInv, TableInOrder, Accounted, SinkLeavesAlone, upstream
<1>4. MirrorInOrder'
  BY <1>2 DEF IInv, MirrorInOrder, Older, SinkLeavesAlone, upstream
<1> QED BY <1>1, <1>3, <1>4 DEF IInv

\* The batch takes the head of the queue.
LEMMA CollectKeeps ==
  ASSUME IInv, UNCHANGED <<SinkLeavesAlone, shipped>>, sinkQueue # <<>>,
         batch' = Append(batch, Head(sinkQueue)),
         sinkQueue' = Tail(sinkQueue)
  PROVE  IInv'
<1> DEFINE r == Head(sinkQueue)
<1>1. sinkQueue \in Seq(Nat) /\ batch \in Seq(Nat) /\ shipped \in Seq(Nat)
      /\ Increasing(shipped) /\ Increasing(batch) /\ Increasing(sinkQueue)
      /\ Below(shipped, batch) /\ Below(shipped, sinkQueue)
      /\ Below(batch, sinkQueue)
  BY DEF IInv, Typing, MirrorInOrder
<1>2. /\ r \in Nat /\ Tail(sinkQueue) \in Seq(Nat)
      /\ Elements(sinkQueue) = Elements(Tail(sinkQueue)) \cup {r}
      /\ Increasing(Tail(sinkQueue))
      /\ \A y \in Elements(Tail(sinkQueue)) : r < y
  BY <1>1, Taken
<1>3. \A y \in Elements(batch) : y < r
  BY <1>1, <1>2 DEF Below
<1>4. /\ batch' \in Seq(Nat) /\ Elements(batch') = Elements(batch) \cup {r}
      /\ Increasing(batch')
  BY <1>1, <1>2, <1>3, Appended DEF Continues
<1>5. Below(shipped', batch') /\ Below(shipped', sinkQueue')
      /\ Below(batch', sinkQueue')
  BY <1>1, <1>2, <1>4 DEF Below
<1>6. Collected' = Collected
  BY <1>2, <1>4 DEF Collected
<1> QED BY <1>1, <1>2, <1>4, <1>5, <1>6, SinkKeeps

\* A flush, whether the warehouse takes the batch or not: the one step that is
\* a Copy of the mirror.
LEMMA FlushKeeps ==
  ASSUME IInv, UNCHANGED SinkLeavesAlone, SinkFlush
  PROVE  IInv' /\ (Analytics!Copy \/ UNCHANGED <<stored, shipped>>)
<1>1. sinkQueue \in Seq(Nat) /\ batch \in Seq(Nat) /\ shipped \in Seq(Nat)
      /\ Increasing(shipped) /\ Increasing(batch) /\ Increasing(sinkQueue)
      /\ Below(shipped, batch) /\ Below(shipped, sinkQueue)
      /\ Below(batch, sinkQueue) /\ Collected \subseteq Elements(stored)
  BY DEF IInv, Typing, MirrorInOrder
<1>2. /\ batch' = <<>> /\ sinkQueue' = sinkQueue /\ stored' = stored
      /\ shipped' = shipped \o batch \/ shipped' = shipped
  BY DEF SinkFlush, SinkLeavesAlone, upstream
<1>3. /\ shipped \o batch \in Seq(Nat)
      /\ Elements(shipped \o batch) = Elements(shipped) \cup Elements(batch)
      /\ Continues(shipped, shipped \o batch)
  BY <1>1, Joined
<1>4. shipped' \in Seq(Nat) /\ Increasing(shipped')
      /\ Elements(shipped') \subseteq Elements(shipped) \cup Elements(batch)
  BY <1>1, <1>2, <1>3 DEF Continues
<1>5. batch' \in Seq(Nat) /\ Elements(batch') = {} /\ Increasing(batch')
  BY <1>2, Empty
<1>6. Below(shipped', batch') /\ Below(shipped', sinkQueue')
      /\ Below(batch', sinkQueue')
  BY <1>1, <1>2, <1>4, <1>5 DEF Below
<1>7. Collected' \subseteq Collected
  BY <1>2, <1>4, <1>5 DEF Collected
<1>8. IInv'
  BY <1>1, <1>2, <1>4, <1>5, <1>6, <1>7, SinkKeeps
<1>9. Analytics!Copy \/ UNCHANGED <<stored, shipped>>
  <2>1. CASE shipped' = shipped
    BY <1>2, <2>1
  <2>2. CASE shipped' = shipped \o batch
    <3>1. Analytics!Continues(shipped, shipped')
      BY <1>3, <2>2 DEF Continues, Analytics!Continues, Increasing,
                        Analytics!Increasing
    <3>2. Analytics!Elements(shipped') \subseteq Analytics!Elements(stored)
      BY <1>1, <1>4 DEF Collected, Elements, Analytics!Elements
    <3> QED BY <1>2, <3>1, <3>2 DEF Analytics!Copy
  <2> QED BY <1>2, <2>1, <2>2
<1> QED BY <1>8, <1>9

LEMMA SinkRunsKeeps ==
  ASSUME IInv, SinkRuns
  PROVE  IInv' /\ (Analytics!Copy \/ UNCHANGED <<stored, shipped>>)
<1>1. UNCHANGED SinkLeavesAlone
  BY DEF SinkRuns, SinkLeavesAlone, upstream, pipeVars
<1>2. CASE UNCHANGED downstream
  <2>1. Collected' = Collected /\ UNCHANGED <<stored, shipped>>
    BY <1>1, <1>2 DEF Collected, downstream, SinkLeavesAlone, upstream
  <2> QED BY <1>1, <1>2, <2>1, SinkKeeps
          DEF IInv, Typing, MirrorInOrder, downstream
<1>3. CASE SinkFlush
  BY <1>1, <1>3, FlushKeeps
<1>4. CASE /\ sinkQueue # <<>> /\ batch' = Append(batch, Head(sinkQueue))
           /\ sinkQueue' = Tail(sinkQueue) /\ shipped' = shipped
  BY <1>1, <1>4, CollectKeeps DEF SinkLeavesAlone, upstream
<1> QED BY <1>2, <1>3, <1>4
        DEF SinkRuns, SinkStep, SinkTake, SinkTick, SinkSeesStop, SinkDrain,
            downstream

-----------------------------------------------------------------------------
(* Everything else *)

LEMMA OthersKeep ==
  ASSUME IInv, Arrive \/ HookDeliver \/ HookSeesStop \/ Signal \/ Main
  PROVE  IInv' /\ UNCHANGED <<stored, shipped>>
<1>1. /\ UNCHANGED <<upstream, downstream, worker>>
      /\ queueClosed => queueClosed'
      /\ main' = "exited" => worker.step = "done"
  <2> USE DEF upstream, downstream, pipeVars, sinkVars, hookVars
  <2>1. CASE Arrive \/ HookDeliver \/ HookSeesStop
    BY <2>1 DEF Arrive, HookDeliver, HookSeesStop, Alive
  <2>2. CASE Signal
    BY <2>2 DEF Signal
  <2>3. CASE Main
    BY <2>3 DEF Main, StopSink, SinkStop, SinkStopped, CloseLog, StopHook,
                CloseQueue, Exit
  <2> QED BY <2>1, <2>2, <2>3
<1>2. Waiting' = Waiting /\ Handed' = Handed
  BY <1>1 DEF Waiting, Handed
<1>3. IInv'
  BY <1>1, <1>2, NoRowMoves DEF IInv, Typing, Accounted
<1> QED BY <1>1, <1>3 DEF upstream, downstream

-----------------------------------------------------------------------------
(* Theorems *)

LEMMA EveryStep ==
  ASSUME IInv, [NextPipeline]_vars
  PROVE  IInv' /\ [Analytics!Next]_<<stored, shipped>>
<1>1. CASE Arrive \/ HookDeliver \/ HookSeesStop \/ Signal \/ Main
  BY <1>1, OthersKeep
<1>2. CASE QueueRequest
  BY <1>2, QueueRequestKeeps DEF QueueRequest, sinkVars
<1>3. CASE WorkerTake
  BY <1>3, WorkerTakeKeeps DEF WorkerTake, sinkVars
<1>4. CASE Insert
  BY <1>4, InsertKeeps DEF Analytics!Next
<1>5. CASE PushWebhook \/ PushAccessLog
  BY <1>5, HandOnKeeps DEF PushWebhook, PushAccessLog, sinkVars
<1>6. CASE PushWarehouse
  BY <1>6, PushWarehouseKeeps DEF PushWarehouse, SinkPush
<1>7. CASE WorkerDone
  BY <1>7, WorkerDoneKeeps DEF WorkerDone, sinkVars
<1>8. CASE SinkRuns
  BY <1>8, SinkRunsKeeps DEF Analytics!Next
<1>9. CASE UNCHANGED vars
  <2>1. UNCHANGED <<upstream, downstream, worker, queueClosed, main>>
    BY <1>9 DEF vars, pipeVars, sinkVars, upstream, downstream
  <2>2. Waiting' = Waiting /\ Handed' = Handed
    BY <2>1 DEF Waiting, Handed
  <2>3. IInv'
    BY <2>1, <2>2, NoRowMoves DEF IInv, Typing, Accounted
  <2> QED BY <2>1, <2>3 DEF upstream, downstream
<1> QED BY <1>1, <1>2, <1>3, <1>4, <1>5, <1>6, <1>7, <1>8, <1>9
        DEF NextPipeline, Worker

LEMMA Invariance == SpecPipeline => []IInv
<1>1. IInv /\ [NextPipeline]_vars => IInv'
  BY EveryStep
<1> QED BY InitEstablishes, <1>1, PTL DEF SpecPipeline

\* No row that made it into the queue is on the way when the process ends
\* (DB.Close waits for runLogWorker, which empties the closed queue).
THEOREM AcceptedRowsAreWrittenHolds ==
  SpecPipeline => []AcceptedRowsAreWritten
<1>1. IInv => AcceptedRowsAreWritten
  <2> SUFFICES ASSUME IInv, main = "exited", NEW r \in 1..offered
               PROVE  r \in Elements(stored) \/ r \in refused
    BY DEF AcceptedRowsAreWritten
  <2>1. queue = <<>> /\ Waiting = {}
    BY DEF IInv, Accounted, Waiting
  <2> QED BY <2>1, Empty DEF IInv, Accounted
<1> QED BY Invariance, <1>1, PTL

\* The log worker and the sink implement the mirror: every step they take is a
\* row stored, a batch copied, or nothing the mirror speaks of (run, flush).
THEOREM MirrorsTheTableHolds == SpecPipeline => MirrorsTheTable
<1>1. InitPipeline => Analytics!Init
  BY DEF InitPipeline, InitSink, Analytics!Init
<1>2. IInv /\ [NextPipeline]_vars => [Analytics!Next]_<<stored, shipped>>
  BY EveryStep
<1> QED BY Invariance, <1>1, <1>2, PTL
        DEF SpecPipeline, MirrorsTheTable, Analytics!Spec

-----------------------------------------------------------------------------
(* The other sinks *)

\* What the webhook has been handed follows what was posted last.
PostsInOrder ==
  /\ hookQueue \in Seq(Nat) /\ posted \in Nat
  /\ Increasing(hookQueue) /\ \A y \in Elements(hookQueue) : posted < y
  /\ posted # 0 => posted \in Elements(stored)
  /\ Elements(hookQueue) \subseteq Elements(stored)
  /\ worker.step = "webhook" =>
       posted < worker.row /\ \A y \in Elements(hookQueue) : y < worker.row

\* An older backup holds older rows, also when a rotation went half way; none
\* is as new as the row on its way to the log.
FilesInOrder ==
  /\ logs \in [Files -> Seq(Nat)]
  /\ \A i \in Files : Increasing(logs[i]) /\ Elements(logs[i]) \subseteq Elements(stored)
  /\ \A i, j \in Files : j < i => Below(logs[i], logs[j])
  /\ worker.step \in {"webhook", "access"} =>
       \A i \in Files : \A y \in Elements(logs[i]) : y < worker.row

\* After m rotations without a fault: the m youngest backups are full, and each
\* file holds the rows of its place in what was pushed.
Rotations(m) ==
  /\ Len(pushed) = size + m * FileCap
  /\ m > 0 => size > 0
  /\ Len(logs[0]) = size
  /\ \A i \in 1..MaxBackups : Len(logs[i]) = IF i <= m THEN FileCap ELSE 0
  /\ \A i \in Files : \A j \in 1..Len(logs[i]) :
       logs[i][j] = pushed[Len(pushed) - size - i * FileCap + j]

LinesInPlace ==
  /\ logs \in [Files -> Seq(Nat)] /\ pushed \in Seq(Nat)
  /\ size \in 0..FileCap /\ logFaults \in Seq(LogFaults)
  /\ logFaults = <<>> => handle = "open" /\ \E m \in 0..Len(pushed) : Rotations(m)

SinkInv == PostsInOrder /\ FilesInOrder /\ LinesInPlace

\* The lines of the files up to one, the oldest first, exist as a function: a
\* smallest file for which they did not could be built from the one before.
ChainUpTo(n, f) ==
  f = [i \in 0..n |-> IF i = 0 THEN logs[0] ELSE logs[i] \o f[i-1]]

LEMMA ChainGrows ==
  ASSUME NEW n \in Nat, NEW f, ChainUpTo(n, f)
  PROVE  \E g : ChainUpTo(n + 1, g)
<1> DEFINE g == [i \in 0..n+1 |-> IF i = n + 1 THEN logs[n + 1] \o f[n] ELSE f[i]]
<1>1. \A i \in 0..n : f[i] = IF i = 0 THEN logs[0] ELSE logs[i] \o f[i-1]
  BY DEF ChainUpTo
<1>2. ASSUME NEW i \in 0..n+1
      PROVE  g[i] = IF i = 0 THEN logs[0] ELSE logs[i] \o g[i-1]
  <2>1. CASE i = n + 1
    <3>1. n \in 0..n+1 /\ n # n + 1 /\ i # 0 /\ i - 1 = n
      BY <2>1
    <3> QED BY <2>1, <3>1
  <2>2. CASE i # n + 1
    <3>1. i \in 0..n
      BY <2>2
    <3>2. i # 0 => i - 1 \in 0..n+1 /\ i - 1 # n + 1
      BY <3>1
    <3> QED BY <1>1, <2>2, <3>1, <3>2
  <2> QED BY <2>1, <2>2
<1>3. g = [i \in 0..n+1 |-> g[i]]
  OBVIOUS
<1> HIDE DEF g
<1>4. ChainUpTo(n + 1, g)
  BY <1>2, <1>3 DEF ChainUpTo
<1> QED BY <1>4

LEMMA ChainExists == \A n \in Nat : \E f : ChainUpTo(n, f)
<1> DEFINE T == {n \in Nat : ~ \E f : ChainUpTo(n, f)}
<1> SUFFICES ASSUME T # {} PROVE FALSE
  OBVIOUS
<1>1. PICK n \in T : \A k \in T : ~ (<<k, n>> \in OpToRel(<, Nat))
  <2>1. T \subseteq Nat
    OBVIOUS
  <2> HIDE DEF T
  <2> QED BY <2>1, NatLessThanWellFounded, WFMin
<1>2. \A k \in Nat : k < n => \E f : ChainUpTo(k, f)
  BY <1>1 DEF OpToRel
<1>3. CASE n = 0
  <2>1. ChainUpTo(0, [i \in 0..0 |-> logs[0]])
    BY DEF ChainUpTo
  <2> QED BY <1>3, <2>1
<1>4. CASE n # 0
  <2>1. n - 1 \in Nat /\ n - 1 < n /\ (n - 1) + 1 = n
    BY <1>4
  <2>2. \E f : ChainUpTo(n - 1, f)
    BY <1>2, <2>1
  <2>3. \E g : ChainUpTo(n, g)
    BY <2>1, <2>2, ChainGrows
  <2> QED BY <2>3
<1> QED BY <1>3, <1>4

LEMMA ChainIs ==
  \E f : /\ f[0] = logs[0]
         /\ \A i \in 1..MaxBackups : f[i] = logs[i] \o f[i-1]
         /\ Chain = f[MaxBackups]
<1>1. MaxBackups \in Nat
  BY AccessLogAssumption
<1> DEFINE from == CHOOSE f : f = [i \in Files |-> IF i = 0 THEN logs[0] ELSE logs[i] \o f[i-1]]
<1>2. \E f : f = [i \in Files |-> IF i = 0 THEN logs[0] ELSE logs[i] \o f[i-1]]
  BY <1>1, ChainExists DEF ChainUpTo, Files
<1>3. from = [i \in Files |-> IF i = 0 THEN logs[0] ELSE logs[i] \o from[i-1]]
  BY <1>2
<1>4. Chain = from[MaxBackups]
  BY DEF Chain
<1> HIDE DEF from
<1>5. from[0] = logs[0] /\ \A i \in 1..MaxBackups : from[i] = logs[i] \o from[i-1]
  BY <1>1, <1>3 DEF Files
<1> QED BY <1>4, <1>5

\* Of some files there is a youngest.
LEMMA Youngest ==
  ASSUME NEW T \in SUBSET Files, T # {}
  PROVE  0 \in T \/ \E i \in 1..MaxBackups : i \in T /\ i - 1 \in Files \ T
<1>1. T \subseteq Nat
  BY DEF Files
<1>2. PICK n \in T : \A k \in T : ~ (<<k, n>> \in OpToRel(<, Nat))
  BY <1>1, NatLessThanWellFounded, WFMin
<1>3. \A k \in T : ~ (k < n)
  BY <1>1, <1>2 DEF OpToRel
<1>4. n \in Files /\ MaxBackups \in Nat
  BY AccessLogAssumption
<1>5. n # 0 => n \in 1..MaxBackups /\ n - 1 \in Files /\ n - 1 < n
  BY <1>4 DEF Files
<1> QED BY <1>3, <1>5

LEMMA Concatenated ==
  ASSUME NEW s \in Seq(Nat), NEW t \in Seq(Nat), NEW u, u = s \o t
  PROVE  /\ u \in Seq(Nat) /\ Len(u) = Len(s) + Len(t)
         /\ \A j \in 1..Len(s) : u[j] = s[j]
         /\ \A j \in 1..Len(t) : u[Len(s) + j] = t[j]
         /\ Len(s) \in Nat /\ Len(t) \in Nat
OBVIOUS

LEMMA ChainInOrder ==
  ASSUME FilesInOrder
  PROVE  Increasing(Chain) /\ Elements(Chain) \subseteq Elements(stored)
<1>1. PICK f : /\ f[0] = logs[0]
               /\ \A i \in 1..MaxBackups : f[i] = logs[i] \o f[i-1]
               /\ Chain = f[MaxBackups]
  BY ChainIs
<1> DEFINE Good(n) == /\ f[n] \in Seq(Nat) /\ Increasing(f[n])
                      /\ Elements(f[n]) \subseteq Elements(stored)
                      /\ \A y \in Elements(f[n]) : \E i \in 0..n : y \in Elements(logs[i])
           T == {n \in Files : ~ Good(n)}
<1>2. MaxBackups \in Nat /\ 0 \in Files /\ MaxBackups \in Files
  BY AccessLogAssumption DEF Files
<1>3. \A i \in Files : logs[i] \in Seq(Nat) /\ Increasing(logs[i])
                       /\ Elements(logs[i]) \subseteq Elements(stored)
  BY DEF FilesInOrder
<1>4. Good(0)
  BY <1>1, <1>2, <1>3
<1>5. ASSUME NEW i \in 1..MaxBackups, Good(i - 1) PROVE Good(i)
  <2>1. i \in Files /\ i - 1 \in Files
    BY <1>2 DEF Files
  <2>2. Below(logs[i], f[i-1])
    <3> SUFFICES ASSUME NEW x \in Elements(logs[i]), NEW y \in Elements(f[i-1]) PROVE x < y
      BY DEF Below
    <3>1. PICK j \in 0..i-1 : y \in Elements(logs[j])
      BY <1>5
    <3>2. j \in Files /\ j < i
      BY <1>2, <2>1, <3>1 DEF Files
    <3> QED BY <2>1, <3>1, <3>2 DEF FilesInOrder, Below
  <2>3. logs[i] \in Seq(Nat) /\ f[i-1] \in Seq(Nat) /\ Increasing(logs[i]) /\ Increasing(f[i-1])
    BY <1>3, <1>5, <2>1
  <2>4. f[i] = logs[i] \o f[i-1]
    BY <1>1
  <2>5. /\ f[i] \in Seq(Nat) /\ Elements(f[i]) = Elements(logs[i]) \cup Elements(f[i-1])
        /\ Continues(logs[i], f[i])
    BY <2>2, <2>3, <2>4, Joined
  <2>6. Increasing(f[i])
    BY <2>5 DEF Continues
  <2>7. Elements(f[i]) \subseteq Elements(stored)
    BY <1>3, <1>5, <2>1, <2>5
  <2>8. \A y \in Elements(f[i]) : \E k \in 0..i : y \in Elements(logs[k])
    BY <1>5, <2>1, <2>5 DEF Files
  <2> QED BY <2>5, <2>6, <2>7, <2>8
<1> HIDE DEF Good
<1>6. T = {}
  <2> SUFFICES ASSUME T # {} PROVE FALSE
    OBVIOUS
  <2>1. T \in SUBSET Files
    OBVIOUS
  <2> HIDE DEF T
  <2>2. 0 \in T \/ \E i \in 1..MaxBackups : i \in T /\ i - 1 \in Files \ T
    BY <2>1, Youngest
  <2> QED BY <1>4, <1>5, <2>2 DEF T
<1>7. Good(MaxBackups)
  BY <1>2, <1>6
<1> QED BY <1>1, <1>7 DEF Good

\* Reading the files of the right lengths one after the other gives the end of
\* what was pushed.
LEMMA ChainIsNewest ==
  ASSUME LinesInPlace, logFaults = <<>>
  PROVE  /\ Len(Chain) <= Len(pushed)
         /\ Chain = SuffixOf(pushed, Len(Chain))
         /\ Len(Chain) > MaxBackups * FileCap \/ Chain = pushed
<1>1. PICK f : /\ f[0] = logs[0]
               /\ \A i \in 1..MaxBackups : f[i] = logs[i] \o f[i-1]
               /\ Chain = f[MaxBackups]
  BY ChainIs
<1>2. PICK m \in 0..Len(pushed) : Rotations(m)
  BY DEF LinesInPlace
<1> DEFINE P == Len(pushed)
           Least(n) == IF n <= m THEN n ELSE m
           Good(n) == /\ f[n] \in Seq(Nat)
                      /\ Len(f[n]) = size + Least(n) * FileCap
                      /\ \A j \in 1..Len(f[n]) : f[n][j] = pushed[P - Len(f[n]) + j]
           T == {n \in Files : ~ Good(n)}
<1>3. /\ MaxBackups \in Nat /\ 0 \in Files /\ MaxBackups \in Files
      /\ FileCap \in Nat \ {0} /\ P \in Nat /\ m \in Nat /\ size \in Nat
      /\ pushed \in Seq(Nat)
  BY <1>2, AccessLogAssumption DEF Files, LinesInPlace
<1>4. \A i \in Files : logs[i] \in Seq(Nat) /\ i \in Nat
  BY DEF LinesInPlace, Files
<1>5. /\ P = size + m * FileCap /\ (m > 0 => size > 0) /\ Len(logs[0]) = size
      /\ \A i \in 1..MaxBackups : Len(logs[i]) = IF i <= m THEN FileCap ELSE 0
      /\ \A i \in Files : \A j \in 1..Len(logs[i]) : logs[i][j] = pushed[P - size - i * FileCap + j]
  BY <1>2 DEF Rotations
<1> HIDE DEF P
<1>6. Good(0)
  <2>1. f[0] \in Seq(Nat) /\ Len(f[0]) = size /\ 0 * FileCap = 0 /\ Least(0) = 0
    BY <1>1, <1>3, <1>4, <1>5
  <2>2. \A j \in 1..Len(f[0]) : f[0][j] = pushed[P - size - 0 * FileCap + j]
    BY <1>1, <1>3, <1>5
  <2>3. \A j \in 1..Len(f[0]) : f[0][j] = pushed[P - Len(f[0]) + j]
    BY <1>3, <2>1, <2>2
  <2> QED BY <1>3, <2>1, <2>3
<1>7. ASSUME NEW i \in 1..MaxBackups, Good(i - 1) PROVE Good(i)
  <2>1. i \in Files /\ i - 1 \in Files /\ i \in Nat /\ i - 1 \in Nat
    BY <1>3 DEF Files
  <2>2. f[i] = logs[i] \o f[i-1] /\ logs[i] \in Seq(Nat) /\ f[i-1] \in Seq(Nat)
    BY <1>1, <1>4, <1>7, <2>1
  <2>3. /\ f[i] \in Seq(Nat) /\ Len(f[i]) = Len(logs[i]) + Len(f[i-1])
        /\ \A j \in 1..Len(logs[i]) : f[i][j] = logs[i][j]
        /\ \A j \in 1..Len(f[i-1]) : f[i][Len(logs[i]) + j] = f[i-1][j]
        /\ Len(logs[i]) \in Nat /\ Len(f[i-1]) \in Nat
    BY <2>2, Concatenated
  <2>4. CASE i <= m
    <3>1. Len(logs[i]) = FileCap /\ Least(i) = i /\ Least(i - 1) = i - 1
      BY <1>3, <1>5, <2>1, <2>4
    <3>2. (i - 1) * FileCap = i * FileCap - FileCap /\ i * FileCap \in Nat
      BY <1>3, <2>1
    <3>3. Len(f[i-1]) = size + i * FileCap - FileCap
      BY <1>7, <3>1, <3>2
    <3>4. Len(f[i]) = size + i * FileCap
      BY <1>3, <2>3, <3>1, <3>2, <3>3
    <3>5. ASSUME NEW j \in 1..Len(f[i]) PROVE f[i][j] = pushed[P - Len(f[i]) + j]
      <4>1. CASE j <= FileCap
        <5>1. f[i][j] = pushed[P - size - i * FileCap + j]
          <6>1. j \in 1..Len(logs[i])
            BY <1>3, <2>3, <3>1, <4>1
          <6>2. logs[i][j] = pushed[P - size - i * FileCap + j]
            BY <1>5, <2>1, <6>1
          <6> QED BY <2>3, <6>1, <6>2
        <5>2. P - size - i * FileCap + j = P - Len(f[i]) + j
          BY <1>3, <3>2, <3>4
        <5> QED BY <5>1, <5>2
      <4>2. CASE j > FileCap
        <5> DEFINE k == j - FileCap
        <5>1. k \in 1..Len(f[i-1]) /\ FileCap + k = j
          BY <1>3, <2>3, <3>1, <4>2
        <5>2. f[i][j] = f[i-1][k]
          BY <2>3, <3>1, <5>1
        <5>3. f[i-1][k] = pushed[P - Len(f[i-1]) + k]
          BY <1>7, <5>1
        <5>4. P - Len(f[i-1]) + k = P - Len(f[i]) + j
          BY <1>3, <2>3, <3>1, <5>1
        <5> QED BY <5>2, <5>3, <5>4
      <4>3. j \in Nat
        BY <2>3
      <4>4. j <= FileCap \/ j > FileCap
        BY <1>3, <4>3
      <4> QED BY <4>1, <4>2, <4>4
    <3> QED BY <2>3, <3>1, <3>4, <3>5
  <2>5. CASE ~ (i <= m)
    <3>1. Len(logs[i]) = 0 /\ Least(i) = m /\ Least(i - 1) = m
      BY <1>3, <1>5, <2>1, <2>5
    <3>2. Len(f[i]) = Len(f[i-1]) /\ \A j \in 1..Len(f[i-1]) : f[i][j] = f[i-1][j]
      BY <2>3, <3>1
    <3> QED BY <1>7, <2>3, <3>1, <3>2
  <2> QED BY <2>4, <2>5
<1> HIDE DEF Good
<1>8. T = {}
  <2> SUFFICES ASSUME T # {} PROVE FALSE
    OBVIOUS
  <2>1. T \in SUBSET Files
    OBVIOUS
  <2> HIDE DEF T
  <2>2. 0 \in T \/ \E i \in 1..MaxBackups : i \in T /\ i - 1 \in Files \ T
    BY <2>1, Youngest
  <2> QED BY <1>6, <1>7, <2>2 DEF T
<1>9. Good(MaxBackups)
  BY <1>3, <1>8
<1> DEFINE L == Len(Chain)
<1>10. /\ Chain \in Seq(Nat) /\ L = size + Least(MaxBackups) * FileCap
       /\ \A j \in 1..L : Chain[j] = pushed[P - L + j]
  BY <1>1, <1>9 DEF Good
<1>11. L \in Nat /\ L <= P /\ (MaxBackups <= m \/ L = P)
  <2>1. CASE MaxBackups <= m
    <3>1. MaxBackups * FileCap <= m * FileCap /\ MaxBackups * FileCap \in Nat /\ m * FileCap \in Nat
      <4>1. PICK d \in Nat : m = MaxBackups + d
        <5>1. m - MaxBackups \in Nat /\ m = MaxBackups + (m - MaxBackups)
          BY <1>3, <2>1
        <5> QED BY <5>1
      <4>2. d * FileCap \in Nat /\ MaxBackups * FileCap \in Nat
        BY <1>3
      <4>3. m * FileCap = MaxBackups * FileCap + d * FileCap
        BY <1>3, <4>1
      <4> QED BY <4>2, <4>3
    <3> QED BY <1>3, <1>5, <1>10, <2>1, <3>1
  <2>2. CASE ~ (MaxBackups <= m)
    BY <1>3, <1>5, <1>10, <2>2
  <2> QED BY <2>1, <2>2
<1>12. Chain = SuffixOf(pushed, L)
  <2>1. SuffixOf(pushed, L) = SubSeq(pushed, P - L + 1, P)
    BY DEF SuffixOf, P
  <2> DEFINE s == SubSeq(pushed, P - L + 1, P)
  <2>2. P - L + 1 \in 1..Len(pushed) + 1 /\ P \in (P - L + 1) - 1 .. Len(pushed)
    BY <1>3, <1>11 DEF P
  <2>3. /\ s \in Seq(Nat) /\ Len(s) = P - (P - L + 1) + 1
        /\ \A j \in 1..P - (P - L + 1) + 1 : s[j] = pushed[(P - L + 1) + j - 1]
    BY <1>3, <2>2, SubSeqProperties
  <2> HIDE DEF s, L
  <2>4. P - (P - L + 1) + 1 = L /\ \A j \in 1..L : (P - L + 1) + j - 1 = P - L + j
    BY <1>3, <1>11
  <2>5. Len(s) = L /\ \A j \in 1..L : s[j] = pushed[P - L + j]
    BY <2>3, <2>4
  <2>6. Chain = [j \in 1..L |-> Chain[j]] /\ s = [j \in 1..L |-> s[j]]
    BY <1>10, <2>3, <2>5 DEF L
  <2>7. \A j \in 1..L : Chain[j] = s[j]
    BY <1>10, <2>5 DEF L
  <2>8. Chain = s
    BY <2>6, <2>7
  <2> QED BY <2>1, <2>8 DEF s
<1>13. L > MaxBackups * FileCap \/ Chain = pushed
  <2>1. CASE L = P
    <3>1. pushed = [j \in 1..P |-> pushed[j]] /\ Chain = [j \in 1..L |-> Chain[j]]
      BY <1>3, <1>10 DEF P
    <3>2. \A j \in 1..L : P - L + j = j
      BY <1>11, <2>1
    <3> QED BY <1>10, <2>1, <3>1, <3>2
  <2>2. CASE L # P
    <3>1. MaxBackups < m
      BY <1>3, <1>5, <1>10, <1>11, <2>2
    <3>2. L = size + MaxBackups * FileCap /\ size > 0 /\ MaxBackups * FileCap \in Nat
      BY <1>3, <1>5, <1>10, <3>1
    <3> QED BY <1>3, <3>2
  <2> QED BY <2>1, <2>2
<1> QED BY <1>11, <1>12, <1>13 DEF P

LEMMA SinksStart == InitPipeline => SinkInv
<1> SUFFICES ASSUME InitPipeline PROVE SinkInv
  OBVIOUS
<1>1. /\ hookQueue = <<>> /\ posted = 0 /\ worker = Idle /\ size = 0 /\ handle = "open"
      /\ logs = [i \in Files |-> <<>>] /\ logFaults = <<>> /\ pushed = <<>>
  BY DEF InitPipeline, InitLog
<1>2. /\ <<>> \in Seq(Nat) /\ <<>> \in Seq(LogFaults) /\ Len(<<>>) = 0
      /\ Elements(<<>>) = {} /\ Increasing(<<>>)
  BY Empty
<1>3. worker.step = "idle"
  BY <1>1 DEF Idle
<1>4. PostsInOrder
  BY <1>1, <1>2, <1>3 DEF PostsInOrder
<1>5. logs \in [Files -> Seq(Nat)] /\ \A i \in Files : logs[i] = <<>>
  BY <1>1, <1>2
<1>6. FilesInOrder
  BY <1>2, <1>3, <1>5 DEF FilesInOrder, Below
<1>7. 0 \in Files /\ (\A i \in 1..MaxBackups : i \in Files) /\ FileCap \in Nat \ {0}
  BY AccessLogAssumption DEF Files
<1>8. Rotations(0)
  <2>1. \A i \in 1..MaxBackups : ~ (i <= 0)
    OBVIOUS
  <2>2. 0 = size + 0 * FileCap
    BY <1>1, <1>7
  <2> QED BY <1>1, <1>2, <1>5, <1>7, <2>1, <2>2 DEF Rotations
<1>9. LinesInPlace
  BY <1>1, <1>2, <1>5, <1>7, <1>8 DEF LinesInPlace
<1> QED BY <1>4, <1>6, <1>9 DEF SinkInv

\* A step that hands the webhook nothing and posts nothing.
LEMMA PostsStay ==
  ASSUME PostsInOrder, UNCHANGED <<hookQueue, posted>>,
         Elements(stored) \subseteq Elements(stored'),
         worker'.step = "webhook" =>
           \/ worker' = worker
           \/ 0 < worker'.row /\ \A y \in Elements(stored) : y < worker'.row
  PROVE  PostsInOrder'
BY DEF PostsInOrder

\* A step that leaves the files as they are.
LEMMA FilesStay ==
  ASSUME FilesInOrder, UNCHANGED logs, Elements(stored) \subseteq Elements(stored'),
         worker'.step \in {"webhook", "access"} =>
           \/ worker.step \in {"webhook", "access"} /\ worker'.row = worker.row
           \/ \A y \in Elements(stored) : y < worker'.row
  PROVE  FilesInOrder'
BY DEF FilesInOrder

LEMMA LinesStay ==
  ASSUME LinesInPlace, UNCHANGED <<logs, size, handle, logFaults, pushed>> PROVE LinesInPlace'
BY DEF LinesInPlace, Rotations

LEMMA InsertPosts == ASSUME IInv, SinkInv, Insert PROVE SinkInv'
<1> DEFINE r == worker.row
<1>1. /\ worker.step = "insert" /\ worker \in [step : Steps, row : Nat] /\ stored \in Seq(Nat)
      /\ UNCHANGED <<hookQueue, posted, logs, size, handle, logFaults, pushed>>
      /\ \/ stored' = Append(stored, r) /\ worker' = [worker EXCEPT !.step = "webhook"]
         \/ stored' = stored /\ worker' = Idle
  BY DEF Insert, Goto, hookVars, logVars, IInv, Typing
<1>2. worker'.step = "webhook" => worker'.row = r /\ r \in Nat
  BY <1>1 DEF Idle
<1>3. worker'.step \in {"webhook", "idle"}
  BY <1>1 DEF Idle
<1>4. 0 < r /\ \A y \in Elements(stored) : y < r
  BY <1>1 DEF IInv, TableInOrder, Older, Waiting
<1>5. Elements(stored) \subseteq Elements(stored')
  BY <1>1, Appended
<1> QED BY <1>1, <1>2, <1>3, <1>4, <1>5, PostsStay, FilesStay, LinesStay DEF SinkInv

LEMMA PushWebhookPosts == ASSUME IInv, SinkInv, PushWebhook PROVE SinkInv'
<1> DEFINE r == worker.row
<1>1. /\ worker.step = "webhook" /\ worker \in [step : Steps, row : Nat]
      /\ UNCHANGED <<stored, posted, logs, size, handle, logFaults, pushed>>
      /\ worker' = [worker EXCEPT !.step = "access"]
      /\ hookQueue' = Append(hookQueue, r) \/ hookQueue' = hookQueue
  BY DEF PushWebhook, Goto, pipeVars, logVars, IInv, Typing
<1>2. worker'.step = "access" /\ worker'.row = r /\ r \in Nat
  BY <1>1
<1>3. r \in Elements(stored)
  BY <1>1 DEF IInv, MirrorInOrder, Handed
<1>4. /\ hookQueue \in Seq(Nat) /\ posted \in Nat /\ Increasing(hookQueue)
      /\ \A y \in Elements(hookQueue) : posted < y /\ y < r
      /\ Elements(hookQueue) \subseteq Elements(stored) /\ posted < r
  BY <1>1 DEF SinkInv, PostsInOrder
<1>5. /\ hookQueue' \in Seq(Nat) /\ Increasing(hookQueue')
      /\ Elements(hookQueue') \subseteq Elements(hookQueue) \cup {r}
  <2>1. /\ Append(hookQueue, r) \in Seq(Nat) /\ Continues(hookQueue, Append(hookQueue, r))
        /\ Elements(Append(hookQueue, r)) = Elements(hookQueue) \cup {r}
    BY <1>2, <1>4, Appended
  <2> QED BY <1>1, <1>4, <2>1 DEF Continues
<1>6. PostsInOrder'
  BY <1>1, <1>2, <1>3, <1>4, <1>5 DEF SinkInv, PostsInOrder
<1> QED BY <1>1, <1>2, <1>6, FilesStay, LinesStay DEF SinkInv

LEMMA HookDeliverPosts == ASSUME IInv, SinkInv, HookDeliver PROVE SinkInv'
<1>1. /\ hookQueue # <<>> /\ hookQueue' = Tail(hookQueue)
      /\ posted' \in {posted, Head(hookQueue)}
      /\ UNCHANGED <<stored, worker, logs, size, handle, logFaults, pushed>>
  BY DEF HookDeliver, pipeVars, logVars
<1>2. /\ hookQueue \in Seq(Nat) /\ posted \in Nat /\ Increasing(hookQueue)
      /\ \A y \in Elements(hookQueue) : posted < y
      /\ Elements(hookQueue) \subseteq Elements(stored)
      /\ posted # 0 => posted \in Elements(stored)
      /\ worker.step = "webhook" =>
           posted < worker.row /\ \A y \in Elements(hookQueue) : y < worker.row
  BY DEF SinkInv, PostsInOrder
<1>3. /\ Head(hookQueue) \in Nat /\ Tail(hookQueue) \in Seq(Nat)
      /\ Elements(hookQueue) = Elements(Tail(hookQueue)) \cup {Head(hookQueue)}
      /\ Increasing(Tail(hookQueue))
      /\ \A y \in Elements(Tail(hookQueue)) : Head(hookQueue) < y
  BY <1>1, <1>2, Taken
<1>4. /\ posted' \in Nat
      /\ \A y \in Elements(hookQueue') : posted' < y
      /\ posted' # 0 => posted' \in Elements(stored)
      /\ Elements(hookQueue') \subseteq Elements(stored)
      /\ worker.step = "webhook" =>
           posted' < worker.row /\ \A y \in Elements(hookQueue') : y < worker.row
  BY <1>1, <1>2, <1>3
<1>5. PostsInOrder'
  BY <1>1, <1>3, <1>4 DEF PostsInOrder
<1> QED BY <1>1, <1>5, FilesStay, LinesStay DEF SinkInv

-----------------------------------------------------------------------------
(* The access log *)

Ordered(g) ==
  /\ g \in [Files -> Seq(Nat)]
  /\ \A i \in Files : Increasing(g[i]) /\ Elements(g[i]) \subseteq Elements(stored)
  /\ \A i, j \in Files : j < i => Below(g[i], g[j])

\* Whichever renames fail, a file moves or stays and is never in two places.
LEMMA RotatedInOrder ==
  ASSUME Ordered(logs), NEW ok \in SUBSET Files
  PROVE  /\ Ordered(Rotated(ok))
         /\ \A i \in Files : \A y \in Elements(Rotated(ok)[i]) :
              \E j \in Files : y \in Elements(logs[j])
<1> DEFINE g == Rotated(ok)
<1>1. ASSUME NEW i \in Files
      PROVE  \/ i - 1 \in ok /\ i - 1 \in Files /\ g[i] = logs[i-1]
             \/ g[i] = <<>>
             \/ i \notin ok /\ g[i] = logs[i]
  <2>1. g[i] = IF i > 0 /\ i-1 \in ok /\ logs[i-1] # <<>> THEN logs[i-1]
               ELSE IF i \in ok THEN <<>> ELSE logs[i]
    BY DEF Rotated
  <2> QED BY <2>1
<1>2. DOMAIN g = Files /\ g = [i \in Files |-> g[i]]
  BY DEF Rotated
<1> HIDE DEF g
<1>3. \A i \in Files : i \in Nat
  BY DEF Files
<1>4. /\ <<>> \in Seq(Nat) /\ Increasing(<<>>) /\ Elements(<<>>) = {}
      /\ \A s : Below(<<>>, s) /\ Below(s, <<>>)
  BY Empty DEF Below
<1>5. ASSUME NEW i \in Files
      PROVE  /\ g[i] \in Seq(Nat) /\ Increasing(g[i]) /\ Elements(g[i]) \subseteq Elements(stored)
             /\ \A y \in Elements(g[i]) : \E j \in Files : y \in Elements(logs[j])
  BY <1>1, <1>4 DEF Ordered
<1>6. ASSUME NEW i \in Files, NEW j \in Files, j < i PROVE Below(g[i], g[j])
  <2>1. i - 1 # j => j < i - 1
    BY <1>3, <1>6
  <2>2. i \in Nat /\ j \in Nat
    BY <1>3
  <2>3. \A k, l \in Files : l < k => Below(logs[k], logs[l])
    BY DEF Ordered
  <2>4. CASE i - 1 \in ok /\ i - 1 \in Files /\ g[i] = logs[i-1]
    <3>1. CASE j - 1 \in ok /\ j - 1 \in Files /\ g[j] = logs[j-1]
      <4>1. j - 1 < i - 1
        BY <1>6, <2>2
      <4> QED BY <2>3, <2>4, <3>1, <4>1
    <3>2. CASE g[j] = <<>>
      BY <1>4, <3>2
    <3>3. CASE j \notin ok /\ g[j] = logs[j]
      BY <2>1, <2>3, <2>4, <3>3
    <3> QED BY <1>1, <3>1, <3>2, <3>3
  <2>5. CASE g[i] = <<>>
    BY <1>4, <2>5
  <2>6. CASE i \notin ok /\ g[i] = logs[i]
    <3>1. CASE j - 1 \in ok /\ j - 1 \in Files /\ g[j] = logs[j-1]
      <4>1. j - 1 < i
        BY <1>6, <2>2
      <4> QED BY <2>3, <2>6, <3>1, <4>1
    <3>2. CASE g[j] = <<>>
      BY <1>4, <3>2
    <3>3. CASE j \notin ok /\ g[j] = logs[j]
      BY <1>6, <2>3, <2>6, <3>3
    <3> QED BY <1>1, <3>1, <3>2, <3>3
  <2> QED BY <1>1, <2>4, <2>5, <2>6
<1>7. g \in [Files -> Seq(Nat)]
  BY <1>2, <1>5
<1> QED BY <1>5, <1>6, <1>7 DEF Ordered, g

\* A newer row goes to the end of the current file.
LEMMA WrittenInOrder ==
  ASSUME NEW g, Ordered(g), NEW r \in Elements(stored), r \in Nat,
         \A i \in Files : \A y \in Elements(g[i]) : y < r
  PROVE  Ordered(Write(g, r))
<1> DEFINE h == Write(g, r)
<1>1. 0 \in Files /\ \A i \in Files : i \in Nat
  BY AccessLogAssumption DEF Files
<1>2. h = [g EXCEPT ![0] = Append(g[0], r)]
  BY DEF Write
<1>3. /\ g[0] \in Seq(Nat) /\ Append(g[0], r) \in Seq(Nat)
      /\ Elements(Append(g[0], r)) = Elements(g[0]) \cup {r}
      /\ Increasing(Append(g[0], r))
  BY <1>1, Appended DEF Ordered, Continues
<1>4. h[0] = Append(g[0], r) /\ h \in [Files -> Seq(Nat)] /\ \A i \in Files : i # 0 => h[i] = g[i]
  BY <1>1, <1>2, <1>3 DEF Ordered
<1> HIDE DEF h
<1>5. \A i \in Files : Increasing(h[i]) /\ Elements(h[i]) \subseteq Elements(stored)
  BY <1>1, <1>3, <1>4 DEF Ordered
<1>6. ASSUME NEW i \in Files, NEW j \in Files, j < i PROVE Below(h[i], h[j])
  <2>1. i # 0 /\ h[i] = g[i] /\ Below(g[i], g[j])
    BY <1>1, <1>4, <1>6 DEF Ordered
  <2>2. CASE j = 0
    BY <1>3, <1>4, <2>1, <2>2 DEF Below
  <2>3. CASE j # 0
    BY <1>4, <2>1, <2>3
  <2> QED BY <2>2, <2>3
<1> QED BY <1>4, <1>5, <1>6 DEF Ordered, h

LEMMA LogPushInOrder ==
  ASSUME Ordered(logs), NEW r \in Elements(stored), r \in Nat, LogPush(r),
         \A i \in Files : \A y \in Elements(logs[i]) : y < r
  PROVE  Ordered(logs')
<1>1. ASSUME NEW ok \in SUBSET Files
      PROVE  Ordered(Rotated(ok)) /\ Ordered(Write(Rotated(ok), r))
  <2>1. /\ Ordered(Rotated(ok))
        /\ \A i \in Files : \A y \in Elements(Rotated(ok)[i]) : y < r
    BY RotatedInOrder
  <2> QED BY <2>1, WrittenInOrder
<1>2. Ordered(Write(logs, r))
  BY WrittenInOrder
<1>3. \/ logs' = logs \/ logs' = Write(logs, r)
      \/ \E ok \in SUBSET Files : logs' = Rotated(ok) \/ logs' = Write(Rotated(ok), r)
  <2>1. CASE logClosed \/ LogDead(r)
    BY <2>1 DEF LogPush, LogDead, logVars
  <2>2. CASE LogAppend(r)
    BY <2>2 DEF LogAppend, Append1
  <2>3. CASE LogRotate(r)
    <3>1. CASE Append1(Rotated(Files), 0, r)
      BY <3>1 DEF Append1
    <3>2. CASE \E ok \in (SUBSET Files) \ {Files} : LogFault("rename") /\ logs' = Write(Rotated(ok), r) /\ size' = 1
      BY <3>2
    <3> QED BY <2>3, <3>1, <3>2 DEF LogRotate
  <2>4. CASE LogReopenFails(r)
    BY <2>4 DEF LogReopenFails
  <2> QED BY <2>1, <2>2, <2>3, <2>4 DEF LogPush
<1> QED BY <1>1, <1>2, <1>3

\* The place of a line of the i-th backup, in files of n lines each.
LEMMA Places ==
  ASSUME NEW n \in Nat \ {0}, NEW i \in Nat \ {0}, NEW m \in Nat, i <= m
  PROVE  /\ i * n \in Nat /\ m * n \in Nat /\ n <= i * n /\ i * n <= m * n
         /\ (i - 1) * n = i * n - n /\ (m + 1) * n = m * n + n
<1>1. PICK d \in Nat : m = i + d
  <2>1. m - i \in Nat /\ m = i + (m - i)
    OBVIOUS
  <2> QED BY <2>1
<1>2. PICK e \in Nat : i = 1 + e
  <2>1. i - 1 \in Nat /\ i = 1 + (i - 1)
    OBVIOUS
  <2> QED BY <2>1
<1>3. d * n \in Nat /\ e * n \in Nat /\ i * n \in Nat /\ m * n \in Nat
  OBVIOUS
<1>4. m * n = i * n + d * n
  BY <1>1
<1>5. i * n = n + e * n /\ i - 1 = e
  BY <1>2
<1>6. (m + 1) * n = m * n + n
  OBVIOUS
<1> QED BY <1>3, <1>4, <1>5, <1>6

\* Without a fault every push leaves the lines in their places.
LEMMA LogPushLines ==
  ASSUME LinesInPlace, NEW r \in Nat, LogPush(r)
  PROVE  LinesInPlace'
<1>1. CASE logClosed
  BY <1>1, LinesStay DEF LogPush, logVars
<1> SUFFICES ASSUME ~ logClosed PROVE LinesInPlace'
  BY <1>1
<1>2. /\ pushed' = Append(pushed, r)
      /\ LogAppend(r) \/ LogRotate(r) \/ LogReopenFails(r) \/ LogDead(r)
  BY DEF LogPush
<1>3. /\ logs \in [Files -> Seq(Nat)] /\ pushed \in Seq(Nat)
      /\ size \in 0..FileCap /\ logFaults \in Seq(LogFaults)
      /\ FileCap \in Nat \ {0} /\ 0 \in Files /\ MaxBackups \in Nat
      /\ \A i \in Files : i \in Nat
  BY AccessLogAssumption DEF LinesInPlace, Files
<1> DEFINE P == Len(pushed)
<1>4. /\ P \in Nat /\ pushed' \in Seq(Nat) /\ Len(pushed') = P + 1
      /\ \A j \in 1..P : pushed'[j] = pushed[j]
      /\ pushed'[P + 1] = r
  BY <1>2, <1>3
<1>5. ASSUME NEW g \in [Files -> Seq(Nat)]
      PROVE  Write(g, r) \in [Files -> Seq(Nat)]
  <2>1. g[0] \in Seq(Nat) /\ Append(g[0], r) \in Seq(Nat)
    BY <1>3
  <2> QED BY <2>1 DEF Write
<1>6. ASSUME NEW ok \in SUBSET Files PROVE Rotated(ok) \in [Files -> Seq(Nat)]
  <2>1. ASSUME NEW i \in Files PROVE Rotated(ok)[i] \in Seq(Nat)
    <3>1. i > 0 => i - 1 \in Files
      BY <1>3 DEF Files
    <3>2. logs[i] \in Seq(Nat) /\ <<>> \in Seq(Nat) /\ (i > 0 => logs[i-1] \in Seq(Nat))
      BY <1>3, <3>1
    <3> QED BY <3>2 DEF Rotated
  <2>2. Rotated(ok) = [i \in Files |-> Rotated(ok)[i]]
    BY DEF Rotated
  <2> QED BY <2>1, <2>2
<1>7. ASSUME NEW kind, LogFault(kind)
      PROVE  logFaults' \in Seq(LogFaults) /\ logFaults' # <<>>
  <2>1. kind \in LogFaults /\ logFaults' = Append(logFaults, kind)
    BY <1>7 DEF LogFault
  <2> QED BY <1>3, <2>1
<1>8. ASSUME logFaults' \in Seq(LogFaults), logFaults' # <<>>,
             logs' \in [Files -> Seq(Nat)], size' \in 0..FileCap
      PROVE  LinesInPlace'
  BY <1>4, <1>8 DEF LinesInPlace
<1>9. CASE LogAppend(r)
  <2>1. CASE LogFault("write") /\ logs' = logs /\ size' = size
    BY <1>3, <1>7, <1>8, <2>1
  <2>2. CASE logs' = Write(logs, r) /\ size' = size + 1 /\ UNCHANGED logFaults
    <3>1. /\ logs' \in [Files -> Seq(Nat)] /\ size' \in 0..FileCap
          /\ handle = "open" /\ handle' = handle
      BY <1>3, <1>5, <1>9, <2>2 DEF LogAppend
    <3>2. /\ logs'[0] = Append(logs[0], r)
          /\ \A i \in Files : i # 0 => logs'[i] = logs[i]
      BY <1>3, <2>2 DEF Write
    <3>3. SUFFICES ASSUME logFaults = <<>>
                   PROVE  \E n \in 0..Len(pushed') : Rotations(n)'
      BY <1>3, <1>4, <2>2, <3>1 DEF LinesInPlace
    <3>4. PICK m \in 0..P : Rotations(m)
      BY <3>3 DEF LinesInPlace
    <3>5. /\ P = size + m * FileCap /\ m \in Nat
          /\ Len(logs[0]) = size
          /\ \A i \in 1..MaxBackups : /\ i <= m => Len(logs[i]) = FileCap
                                      /\ ~ (i <= m) => Len(logs[i]) = 0
          /\ \A i \in Files : \A j \in 1..Len(logs[i]) :
               logs[i][j] = pushed[P - size - i * FileCap + j]
      <4> DEFINE Room(i) == IF i <= m THEN FileCap ELSE 0
      <4>1. \A i \in 1..MaxBackups : Len(logs[i]) = Room(i)
        BY <3>4 DEF Rotations
      <4>2. \A i \in 1..MaxBackups : (i <= m => Room(i) = FileCap) /\ (~ (i <= m) => Room(i) = 0)
        OBVIOUS
      <4> HIDE DEF Room
      <4> QED BY <1>4, <3>4, <4>1, <4>2 DEF Rotations
    <3>6. /\ logs[0] \in Seq(Nat) /\ Len(logs'[0]) = size + 1
          /\ \A j \in 1..size : logs'[0][j] = logs[0][j]
          /\ logs'[0][size + 1] = r
      <4>1. logs[0] \in Seq(Nat)
        BY <1>3
      <4>2. /\ Len(Append(logs[0], r)) = Len(logs[0]) + 1
            /\ \A j \in 1..Len(logs[0]) : Append(logs[0], r)[j] = logs[0][j]
            /\ Append(logs[0], r)[Len(logs[0]) + 1] = r
        BY <4>1
      <4> QED BY <3>2, <3>5, <4>1, <4>2
    <3>7. m * FileCap \in Nat /\ 0 * FileCap = 0
      BY <1>3, <3>5
    <3> HIDE DEF P
    <3>8. ASSUME NEW i \in Files, NEW j \in 1..Len(logs'[i])
          PROVE  logs'[i][j] = pushed'[(P + 1) - size' - i * FileCap + j]
      <4>1. CASE i = 0
        <5>1. (P + 1) - size' - i * FileCap + j = m * FileCap + j
          BY <1>3, <1>4, <2>2, <3>5, <3>6, <3>7, <4>1
        <5>2. CASE j = size + 1
          <6>1. m * FileCap + j = P + 1
            BY <1>3, <1>4, <3>5, <3>7, <5>2
          <6> QED BY <1>4, <3>6, <4>1, <5>1, <5>2, <6>1
        <5>3. CASE j # size + 1
          <6>1. j \in 1..size
            BY <1>3, <3>6, <4>1, <5>3
          <6>2. PICK M \in Nat : M = m * FileCap
            BY <3>7
          <6>3. j \in Nat /\ P - size - 0 + j = M + j /\ M + j \in 1..P
            <7>1. P = size + M /\ size \in Nat /\ P \in Nat /\ j \in 1..size
              BY <1>3, <1>4, <3>5, <6>1, <6>2
            <7> QED BY <6>2, <7>1
          <6>4. logs[0][j] = pushed[P - size - 0 * FileCap + j]
            BY <1>3, <3>5, <6>1
          <6>5. logs[0][j] = pushed[M + j]
            BY <3>7, <6>3, <6>4
          <6> QED BY <1>4, <3>6, <4>1, <5>1, <6>1, <6>2, <6>3, <6>5
        <5> QED BY <5>2, <5>3
      <4>2. CASE i # 0
        <5>1. i \in 1..MaxBackups /\ logs'[i] = logs[i] /\ i \in Nat \ {0}
          BY <1>3, <3>2, <4>2 DEF Files
        <5>2. i <= m /\ j \in 1..FileCap
          BY <1>3, <3>5, <5>1
        <5>3. /\ i * FileCap \in Nat /\ FileCap <= i * FileCap /\ i * FileCap <= m * FileCap
          BY <1>3, <3>5, <5>1, <5>2, Places
        <5>4. /\ (P + 1) - size' - i * FileCap + j = P - size - i * FileCap + j
              /\ P - size - i * FileCap + j \in 1..P
          <6>1. PICK M \in Nat : M = m * FileCap
            BY <3>7
          <6>2. PICK a \in Nat : a = i * FileCap
            BY <5>3
          <6>3. j \in Nat /\ FileCap <= a /\ a <= M /\ P = size + M /\ j <= FileCap /\ 1 <= j
            BY <1>3, <3>5, <5>2, <5>3, <6>1, <6>2
          <6>4. /\ (P + 1) - size' - a + j = P - size - a + j
                /\ P - size - a + j \in 1..P
            BY <1>3, <1>4, <2>2, <6>3
          <6> QED BY <6>2, <6>4
        <5>5. logs[i][j] = pushed[P - size - i * FileCap + j]
          BY <3>5, <5>1
        <5> QED BY <1>4, <5>1, <5>4, <5>5
      <4> QED BY <4>1, <4>2
    <3>9. P + 1 = size' + m * FileCap /\ size' > 0
      BY <1>3, <1>4, <2>2, <3>5, <3>7
    <3>10. \A i \in 1..MaxBackups : logs'[i] = logs[i]
      BY <1>3, <3>2 DEF Files
    <3>11. \A i \in 1..MaxBackups : Len(logs'[i]) = IF i <= m THEN FileCap ELSE 0
      BY <3>5, <3>10
    <3>12. Rotations(m)'
      BY <1>4, <2>2, <3>6, <3>8, <3>9, <3>11 DEF Rotations
    <3> QED BY <1>4, <3>4, <3>12
  <2> QED BY <1>9, <2>1, <2>2 DEF LogAppend, Append1
<1>10. CASE LogRotate(r)
  <2>1. CASE LogFault("write") /\ logs' = Rotated(Files) /\ size' = 0
    BY <1>3, <1>6, <1>7, <1>8, <2>1
  <2>2. CASE \E ok \in (SUBSET Files) \ {Files} :
               LogFault("rename") /\ logs' = Write(Rotated(ok), r) /\ size' = 1
    <3>1. PICK ok \in SUBSET Files : LogFault("rename") /\ logs' = Write(Rotated(ok), r) /\ size' = 1
      BY <2>2
    <3>2. logs' \in [Files -> Seq(Nat)] /\ size' \in 0..FileCap
      BY <1>3, <1>5, <1>6, <3>1
    <3> QED BY <1>7, <1>8, <3>1, <3>2
  <2>3. CASE logs' = Write(Rotated(Files), r) /\ size' = 0 + 1 /\ UNCHANGED logFaults
    <3>1. /\ logs' \in [Files -> Seq(Nat)] /\ size' = 1 /\ size' \in 0..FileCap
          /\ handle = "open" /\ handle' = handle /\ size = FileCap
      <4>1. Rotated(Files) \in [Files -> Seq(Nat)]
        BY <1>6
      <4>2. logs' \in [Files -> Seq(Nat)]
        BY <1>5, <2>3, <4>1
      <4> QED BY <1>3, <1>10, <2>3, <4>2 DEF LogRotate
    <3>2. /\ logs'[0] = <<r>>
          /\ \A i \in 1..MaxBackups : i \in Files /\ i - 1 \in Files /\ logs'[i] = logs[i-1]
      <4>1. Rotated(Files)[0] = <<>>
        BY <1>3 DEF Rotated
      <4>2. ASSUME NEW i \in 1..MaxBackups
            PROVE  i \in Files /\ i - 1 \in Files /\ Rotated(Files)[i] = logs[i-1]
        <5>1. i \in Files /\ i - 1 \in Files /\ i > 0
          BY <1>3 DEF Files
        <5> QED BY <5>1 DEF Rotated
      <4>3. Rotated(Files) \in [Files -> Seq(Nat)]
        BY <1>6
      <4>4. /\ logs'[0] = Append(Rotated(Files)[0], r)
            /\ \A i \in Files : i # 0 => logs'[i] = Rotated(Files)[i]
        BY <1>3, <2>3, <4>3 DEF Write
      <4>5. Append(<<>>, r) = <<r>>
        OBVIOUS
      <4> QED BY <4>1, <4>2, <4>4, <4>5
    <3>3. SUFFICES ASSUME logFaults = <<>>
                   PROVE  \E n \in 0..Len(pushed') : Rotations(n)'
      BY <1>3, <1>4, <2>3, <3>1 DEF LinesInPlace
    <3>4. PICK m \in 0..P : Rotations(m)
      BY <3>3 DEF LinesInPlace
    <3>5. /\ P = FileCap + m * FileCap /\ m \in Nat
          /\ Len(logs[0]) = FileCap
          /\ \A i \in 1..MaxBackups : /\ i <= m => Len(logs[i]) = FileCap
                                      /\ ~ (i <= m) => Len(logs[i]) = 0
          /\ \A i \in Files : \A j \in 1..Len(logs[i]) :
               logs[i][j] = pushed[P - FileCap - i * FileCap + j]
      <4> DEFINE Room(i) == IF i <= m THEN FileCap ELSE 0
      <4>1. \A i \in 1..MaxBackups : Len(logs[i]) = Room(i)
        BY <3>4 DEF Rotations
      <4>2. \A i \in 1..MaxBackups : (i <= m => Room(i) = FileCap) /\ (~ (i <= m) => Room(i) = 0)
        OBVIOUS
      <4> HIDE DEF Room
      <4>3. P = size + m * FileCap /\ Len(logs[0]) = size
        BY <3>4 DEF Rotations
      <4>4. \A i \in Files : \A j \in 1..Len(logs[i]) :
              logs[i][j] = pushed[P - size - i * FileCap + j]
        BY <3>4 DEF Rotations
      <4>5. size = FileCap /\ m \in Nat
        BY <1>4, <3>1, <3>4
      <4>6. \A i \in Files : \A j \in 1..Len(logs[i]) :
              logs[i][j] = pushed[P - FileCap - i * FileCap + j]
        BY <4>4, <4>5
      <4>7. P = FileCap + m * FileCap /\ Len(logs[0]) = FileCap
        BY <4>3, <4>5
      <4>8. \A i \in 1..MaxBackups : /\ i <= m => Len(logs[i]) = FileCap
                                     /\ ~ (i <= m) => Len(logs[i]) = 0
        BY <4>1, <4>2
      <4> QED BY <4>5, <4>6, <4>7, <4>8
    <3>6. m * FileCap \in Nat /\ 0 * FileCap = 0 /\ (m + 1) * FileCap = m * FileCap + FileCap
      BY <1>3, <3>5
    <3> HIDE DEF P
    <3>7. ASSUME NEW i \in Files, NEW j \in 1..Len(logs'[i])
          PROVE  logs'[i][j] = pushed'[(P + 1) - size' - i * FileCap + j]
      <4>1. CASE i = 0
        <5>1. j = 1 /\ logs'[i][j] = r
          <6>1. Len(<<r>>) = 1 /\ <<r>>[1] = r /\ logs'[i] = <<r>>
            BY <3>2, <4>1
          <6> QED BY <6>1
        <5>2. (P + 1) - size' - i * FileCap + j = P + 1
          BY <1>4, <3>1, <3>6, <4>1, <5>1
        <5> QED BY <1>4, <5>1, <5>2
      <4>2. CASE i # 0
        <5>1. /\ i \in 1..MaxBackups /\ i \in Nat \ {0} /\ i - 1 \in Files
              /\ logs'[i] = logs[i-1]
          BY <1>3, <3>2, <4>2 DEF Files
        <5>2. i <= m + 1 /\ j \in 1..FileCap
          <6>1. CASE i = 1
            <7>1. logs[i-1] = logs[0]
              BY <6>1
            <7> QED BY <1>3, <3>5, <5>1, <6>1, <7>1
          <6>2. CASE i # 1
            <7>1. i - 1 \in 1..MaxBackups
              BY <1>3, <5>1, <6>2
            <7> QED BY <1>3, <3>5, <5>1, <7>1
          <6> QED BY <6>1, <6>2
        <5>3. /\ i * FileCap \in Nat /\ FileCap <= i * FileCap
              /\ i * FileCap <= (m + 1) * FileCap
              /\ (i - 1) * FileCap = i * FileCap - FileCap
          <6>1. m + 1 \in Nat
            BY <3>5
          <6> QED BY <1>3, <5>1, <5>2, <6>1, Places
        <5>4. logs[i-1][j] = pushed[P - FileCap - (i - 1) * FileCap + j]
          BY <3>5, <5>1
        <5>5. /\ P - FileCap - (i - 1) * FileCap + j = P - i * FileCap + j
              /\ (P + 1) - size' - i * FileCap + j = P - i * FileCap + j
              /\ P - i * FileCap + j \in 1..P
          <6>1. PICK M \in Nat : M = m * FileCap
            BY <3>6
          <6>2. PICK a \in Nat : a = i * FileCap
            BY <5>3
          <6>3. /\ j \in Nat /\ FileCap <= a /\ a <= M + FileCap /\ P = FileCap + M
                /\ j <= FileCap /\ 1 <= j
            BY <1>3, <3>5, <3>6, <5>2, <5>3, <6>1, <6>2
          <6>4. /\ P - FileCap - (a - FileCap) + j = P - a + j
                /\ (P + 1) - size' - a + j = P - a + j
                /\ P - a + j \in 1..P
            BY <1>3, <1>4, <3>1, <6>3
          <6> QED BY <5>3, <6>2, <6>4
        <5> QED BY <1>4, <5>1, <5>4, <5>5
      <4> QED BY <4>1, <4>2
    <3>8. P + 1 = size' + (m + 1) * FileCap /\ size' > 0
      BY <1>3, <1>4, <3>1, <3>5, <3>6
    <3>9. ASSUME NEW i \in 1..MaxBackups
          PROVE  Len(logs'[i]) = IF i <= m + 1 THEN FileCap ELSE 0
      <4>1. CASE i = 1
        <5>1. logs'[i] = logs[0] /\ i <= m + 1
          BY <3>2, <3>5, <4>1
        <5> QED BY <3>5, <5>1
      <4>2. CASE i # 1
        <5>1. i - 1 \in 1..MaxBackups /\ logs'[i] = logs[i-1] /\ (i <= m + 1 <=> i - 1 <= m)
          BY <1>3, <3>2, <3>5, <4>2
        <5> QED BY <3>5, <5>1
      <4> QED BY <4>1, <4>2
    <3>10. Len(logs'[0]) = size'
      BY <3>1, <3>2
    <3>11. Rotations(m + 1)'
      BY <1>4, <3>7, <3>8, <3>9, <3>10 DEF Rotations
    <3>12. m + 1 \in 0..Len(pushed')
      BY <1>4, <3>4 DEF P
    <3> QED BY <3>11, <3>12
  <2> QED BY <1>10, <2>1, <2>2, <2>3 DEF LogRotate, Append1
<1>11. CASE LogReopenFails(r)
  BY <1>3, <1>6, <1>7, <1>8, <1>11 DEF LogReopenFails
<1>12. CASE LogDead(r)
  <2>1. handle = "dead" /\ UNCHANGED <<logs, size, handle, logFaults>> /\ logFaults # <<>>
    BY <1>12 DEF LogDead, LinesInPlace
  <2> QED BY <1>3, <1>8, <2>1
<1> QED BY <1>2, <1>9, <1>10, <1>11, <1>12

LEMMA PushAccessLogPosts == ASSUME IInv, SinkInv, PushAccessLog PROVE SinkInv'
<1> DEFINE r == worker.row
<1>1. /\ worker.step = "access" /\ worker \in [step : Steps, row : Nat]
      /\ worker' = [worker EXCEPT !.step = "mirror"] /\ LogPush(r)
      /\ UNCHANGED <<stored, hookQueue, posted>>
  BY DEF PushAccessLog, Goto, pipeVars, hookVars, IInv, Typing
<1>2. worker'.step = "mirror" /\ r \in Nat
  BY <1>1
<1>3. r \in Elements(stored)
  BY <1>1 DEF IInv, MirrorInOrder, Handed
<1>4. Ordered(logs) /\ \A i \in Files : \A y \in Elements(logs[i]) : y < r
  BY <1>1 DEF SinkInv, FilesInOrder, Ordered
<1>5. Ordered(logs')
  BY <1>1, <1>2, <1>3, <1>4, LogPushInOrder
<1>6. FilesInOrder'
  BY <1>1, <1>2, <1>5 DEF FilesInOrder, Ordered
<1> QED BY <1>1, <1>2, <1>6, PostsStay, LogPushLines DEF SinkInv

\* Nobody else touches the webhook's queue or the log.
LEMMA OthersPost ==
  ASSUME IInv, SinkInv,
         UNCHANGED <<stored, hookQueue, posted, logs, size, handle, logFaults, pushed>>,
         worker' = worker \/ worker'.step \notin {"webhook", "access"}
  PROVE  SinkInv'
<1>1. worker' # worker => worker'.step \notin {"webhook", "access"}
  OBVIOUS
<1> QED BY <1>1, PostsStay, FilesStay, LinesStay DEF SinkInv

LEMMA SinksKeep == ASSUME IInv, SinkInv, [NextPipeline]_vars PROVE SinkInv'
<1>1. CASE Insert
  BY <1>1, InsertPosts
<1>2. CASE PushWebhook
  BY <1>2, PushWebhookPosts
<1>3. CASE PushAccessLog
  BY <1>3, PushAccessLogPosts
<1>4. CASE HookDeliver
  BY <1>4, HookDeliverPosts
<1> USE DEF pipeVars, hookVars, logVars
<1>5. CASE Arrive \/ QueueRequest \/ HookSeesStop \/ Signal
  BY <1>5, OthersPost DEF Arrive, QueueRequest, HookSeesStop, Signal
<1>6. CASE WorkerTake
  <2>1. worker'.step = "insert"
    BY <1>6 DEF WorkerTake
  <2> QED BY <1>6, <2>1, OthersPost DEF WorkerTake
<1>7. CASE PushWarehouse
  <2>1. worker'.step = "idle"
    BY <1>7 DEF PushWarehouse, Idle
  <2> QED BY <1>7, <2>1, OthersPost DEF PushWarehouse
<1>8. CASE WorkerDone
  <2>1. worker'.step = "done"
    BY <1>8 DEF WorkerDone, Goto, IInv, Typing
  <2> QED BY <1>8, <2>1, OthersPost DEF WorkerDone
<1>9. CASE Main
  BY <1>9, OthersPost
     DEF Main, StopSink, SinkStopped, CloseLog, LogClose, StopHook, CloseQueue, Exit
<1>10. CASE SinkRuns
  BY <1>10, OthersPost DEF SinkRuns
<1>11. CASE UNCHANGED vars
  BY <1>11, OthersPost DEF vars
<1> QED BY <1>1, <1>2, <1>3, <1>4, <1>5, <1>6, <1>7, <1>8, <1>9, <1>10, <1>11
        DEF NextPipeline, Worker

LEMMA SinksInvariance == SpecPipeline => [](IInv /\ SinkInv)
<1>1. IInv /\ SinkInv /\ [NextPipeline]_vars => SinkInv'
  BY SinksKeep
<1> QED BY Invariance, SinksStart, <1>1, PTL DEF SpecPipeline

\* What reached the webhook and the access log is in the table, each row once
\* and in the order of the ids, whatever was dropped, failed or was rotated
\* half way (Pusher.Push and deliver, Writer.Push and rotateLocked).
THEOREM SinksFollowTheDatabaseHolds == SpecPipeline => []SinksFollowTheDatabase
<1>1. IInv /\ SinkInv => SinksFollowTheDatabase
  <2> SUFFICES ASSUME IInv, SinkInv PROVE SinksFollowTheDatabase
    OBVIOUS
  <2>1. Increasing(stored)
    BY DEF IInv, TableInOrder
  <2>2. Increasing(Chain) /\ Elements(Chain) \subseteq Elements(stored)
    BY ChainInOrder DEF SinkInv
  <2>3. Increasing(Posts) /\ Elements(Posts) \subseteq Elements(stored)
    <3>1. /\ hookQueue \in Seq(Nat) /\ posted \in Nat /\ Increasing(hookQueue)
          /\ \A y \in Elements(hookQueue) : posted < y
          /\ posted # 0 => posted \in Elements(stored)
          /\ Elements(hookQueue) \subseteq Elements(stored)
      BY DEF SinkInv, PostsInOrder
    <3> DEFINE p == IF posted = 0 THEN <<>> ELSE <<posted>>
    <3>2. p \in Seq(Nat) /\ Increasing(p) /\ Elements(p) = IF posted = 0 THEN {} ELSE {posted}
      <4>1. CASE posted = 0
        BY <4>1, Empty
      <4>2. CASE posted # 0
        <5>1. <<posted>> \in Seq(Nat) /\ Len(<<posted>>) = 1 /\ <<posted>>[1] = posted
          BY <3>1
        <5>2. Increasing(<<posted>>) /\ Elements(<<posted>>) = {posted}
          BY <5>1 DEF Increasing, Elements
        <5> QED BY <4>2, <5>1, <5>2
      <4> QED BY <4>1, <4>2
    <3>3. Posts = p \o hookQueue
      BY DEF Posts
    <3> HIDE DEF p
    <3>4. Below(p, hookQueue)
      BY <3>1, <3>2 DEF Below
    <3>5. Continues(p, p \o hookQueue) /\ Elements(p \o hookQueue) = Elements(p) \cup Elements(hookQueue)
      BY <3>1, <3>2, <3>4, Joined
    <3> QED BY <3>1, <3>2, <3>3, <3>5 DEF Continues
  <2> QED BY <2>1, <2>2, <2>3 DEF SinksFollowTheDatabase, Sinks
<1> QED BY SinksInvariance, <1>1, PTL

\* While nothing has failed the files hold the newest lines without a gap, and
\* all of them until the backups are full (Writer.Push, rotateLocked).
THEOREM LogKeepsNewestHolds == SpecPipeline => []LogKeepsNewest
<1>1. IInv /\ SinkInv => LogKeepsNewest
  BY ChainIsNewest DEF SinkInv, LogKeepsNewest
<1> QED BY SinksInvariance, <1>1, PTL
=============================================================================
