----------------------------- MODULE Warehouse -----------------------------
(***************************************************************************)
(* The analytics mirror (internal/notify/warehouse): the log worker pushes *)
(* rows on a bounded queue without ever waiting, one goroutine collects    *)
(* them in batches and inserts each batch in the warehouse, an external    *)
(* service that may refuse it.  Stop flushes at most one more batch and    *)
(* waits for the goroutine.                                                *)
(***************************************************************************)
EXTENDS Integers, Sequences

CONSTANTS
  SinkCap,        \* capacity of the queue (queueSize)
  BatchSize,      \* rows per insert
  InsertsMayFail  \* whether the warehouse may refuse a batch

ASSUME WarehouseAssumption ==
  /\ SinkCap \in Nat \ {0}
  /\ BatchSize \in Nat \ {0}
  /\ InsertsMayFail \in BOOLEAN

VARIABLES
  sinkQueue,  \* Sink.queue
  batch,      \* the rows collected
  sink,       \* where run is: "loop", "flush", "drain", "lastflush", "done"
  stopSink,   \* Sink.stop is closed
  shipped     \* rows in the warehouse, in the order of their insertion

sinkVars == <<sinkQueue, batch, sink, stopSink, shipped>>

TypeOKSink ==
  /\ Len(sinkQueue) <= SinkCap
  /\ Len(batch) <= BatchSize
  /\ sink \in {"loop", "flush", "drain", "lastflush", "done"}
  /\ sink # "loop" /\ sink # "flush" => stopSink
  /\ stopSink \in BOOLEAN

InitSink ==
  /\ sinkQueue = <<>>
  /\ batch = <<>>
  /\ sink = "loop"
  /\ stopSink = FALSE
  /\ shipped = <<>>

\* Mutant: Push waits for room.
SinkPushWaits(row) ==
  /\ Len(sinkQueue) < SinkCap
  /\ sinkQueue' = Append(sinkQueue, row)
  /\ UNCHANGED <<batch, sink, stopSink, shipped>>

\* Push drops the row when the queue is full, and does not know of Stop.
SinkPush(row) ==
  /\ sinkQueue' = IF Len(sinkQueue) < SinkCap THEN Append(sinkQueue, row)
                                              ELSE sinkQueue
  /\ UNCHANGED <<batch, sink, stopSink, shipped>>

\* run takes a row; a full batch is flushed at once.
SinkTake ==
  /\ sink = "loop"
  /\ sinkQueue # <<>>
  /\ batch' = Append(batch, Head(sinkQueue))
  /\ sinkQueue' = Tail(sinkQueue)
  /\ sink' = IF Len(batch') >= BatchSize THEN "flush" ELSE "loop"
  /\ UNCHANGED <<stopSink, shipped>>

\* The flush ticker.
SinkTick ==
  /\ sink = "loop"
  /\ batch # <<>>
  /\ sink' = "flush"
  /\ UNCHANGED <<sinkQueue, batch, stopSink, shipped>>

\* Mutant: a batch whose insert seems to have failed is kept and sent again.
SinkFlushRetries ==
  /\ sink \in {"flush", "lastflush"}
  /\ \/ shipped' = shipped \o batch /\ batch' = <<>>
     \/ InsertsMayFail /\ shipped' = shipped \o batch /\ UNCHANGED batch
  /\ sink' = IF sink = "flush" THEN "loop" ELSE "done"
  /\ UNCHANGED <<sinkQueue, stopSink>>

\* flush: one insert; its rows are forgotten whether it succeeds or not.
SinkFlush ==
  /\ sink \in {"flush", "lastflush"}
  /\ \/ shipped' = shipped \o batch
     \/ InsertsMayFail /\ UNCHANGED shipped
  /\ batch' = <<>>
  /\ sink' = IF sink = "flush" THEN "loop" ELSE "done"
  /\ UNCHANGED <<sinkQueue, stopSink>>

\* run notices that stop is closed; select may prefer its other cases.
SinkSeesStop ==
  /\ sink = "loop"
  /\ stopSink
  /\ sink' = "drain"
  /\ UNCHANGED <<sinkQueue, batch, stopSink, shipped>>

\* The drain loop, bounded by one batch while rows keep coming.
SinkDrain ==
  /\ sink = "drain"
  /\ IF sinkQueue # <<>> /\ Len(batch) < BatchSize
       THEN /\ batch' = Append(batch, Head(sinkQueue))
            /\ sinkQueue' = Tail(sinkQueue)
            /\ UNCHANGED sink
       ELSE /\ sink' = IF batch = <<>> THEN "done" ELSE "lastflush"
            /\ UNCHANGED <<batch, sinkQueue>>
  /\ UNCHANGED <<stopSink, shipped>>

SinkStop ==
  /\ stopSink' = TRUE
  /\ UNCHANGED <<sinkQueue, batch, sink, shipped>>

SinkStep ==
  \/ SinkTake
  \/ SinkTick
  \/ SinkFlush
  \/ SinkSeesStop
  \/ SinkDrain
=============================================================================
