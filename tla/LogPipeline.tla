---------------------------- MODULE LogPipeline ----------------------------
(***************************************************************************)
(* A request's row on its way out: the handler offers it to the bounded    *)
(* log queue, one worker inserts it in the database and then hands it, in  *)
(* this order, to the live-log clients (not modelled), the webhook, the    *)
(* autoban and threat-score hooks (module Autoban), the access log and the *)
(* warehouse.                                                              *)
(* On SIGTERM the listeners close, main returns from Start at once and its *)
(* deferred calls run in the reverse of their registration:                *)
(*    warehouse Stop, access log Close, webhook Stop, DB.Close, exit.      *)
(* Requests still being served run on until the process exits.             *)
(*                                                                         *)
(* Rows are numbered in the order they are offered to the queue.           *)
(***************************************************************************)
EXTENDS AccessLog, Warehouse, Streams

CONSTANTS
  MaxRows,       \* bound on the requests explored
  MaxInFlight,   \* bound on requests served at the same time
  QueueCap,      \* capacity of DB.logQueue (logQueueSize)
  HookCap,       \* capacity of the webhook queue
  DBMayFail      \* whether InsertRequest may fail

ASSUME LogPipelineAssumption ==
  /\ MaxRows \in Nat /\ MaxInFlight \in Nat
  /\ QueueCap \in Nat \ {0} /\ HookCap \in Nat \ {0}
  /\ DBMayFail \in BOOLEAN

VARIABLES
  inFlight,     \* requests whose handler is running
  offered,      \* rows offered to QueueRequest so far
  queue,        \* DB.logQueue
  queueClosed,  \* DB.Close has closed it
  worker,       \* runLogWorker: its step and the row it holds
  stored,       \* rows of the requests table, in the order of their ids
  refused,      \* rows whose insert failed, and rows not queued
  hookQueue,    \* Pusher.queue
  hook,         \* the webhook goroutine: "loop", "done"
  stopHook,     \* Pusher.stop is closed
  posted,       \* the row posted to the webhook last, 0 before the first
  main          \* the main goroutine: the step it is about to take

pipeVars == <<inFlight, offered, queue, queueClosed, worker, stored, refused>>
hookVars == <<hookQueue, hook, stopHook, posted>>
vars == <<pipeVars, hookVars, main, logVars, sinkVars>>

Shutdown == <<"serving", "stop_sink", "wait_sink", "close_log", "stop_hook",
              "close_db", "wait_worker", "exited">>
\* The process has not ended.  The worker and the sink have by then.
Alive == main # "exited"
Idle == [step |-> "idle", row |-> 0]

TypeOK ==
  /\ TypeOKLog
  /\ TypeOKSink
  /\ inFlight \in 0..MaxInFlight
  /\ offered + inFlight <= MaxRows
  /\ Len(queue) <= QueueCap
  /\ queueClosed \in BOOLEAN
  /\ worker \in [step : {"idle", "insert", "webhook", "access", "mirror",
                         "done"}, row : 0..MaxRows]
  /\ Elements(stored) \cup refused \subseteq 1..MaxRows
  /\ Len(hookQueue) <= HookCap
  /\ hook \in {"loop", "done"}
  /\ posted \in 0..MaxRows
  /\ stopHook \in BOOLEAN
  /\ main \in Elements(Shutdown)

InitPipeline ==
  /\ InitLog
  /\ InitSink
  /\ inFlight = 0
  /\ offered = 0
  /\ queue = <<>>
  /\ queueClosed = FALSE
  /\ worker = Idle
  /\ stored = <<>>
  /\ refused = {}
  /\ hookQueue = <<>>
  /\ hook = "loop"
  /\ stopHook = FALSE
  /\ posted = 0
  /\ main = "serving"

----------------------------------------------------------------------------
(* Requests.                                                                *)

\* A request is accepted; after the signal none is.
Arrive ==
  /\ main = "serving"
  /\ inFlight < MaxInFlight
  /\ offered + inFlight < MaxRows
  /\ inFlight' = inFlight + 1
  /\ UNCHANGED <<offered, queue, queueClosed, worker, stored, refused>>
  /\ UNCHANGED <<hookVars, main, logVars, sinkVars>>

\* The handler ends with QueueRequest, which drops the row when the queue is
\* full.  A send on the closed queue panics; the Recover middleware answers the
\* panic, and the row is gone as well.
QueueRequest ==
  /\ Alive
  /\ inFlight > 0
  /\ inFlight' = inFlight - 1
  /\ offered' = offered + 1
  /\ IF ~queueClosed /\ Len(queue) < QueueCap
       THEN queue' = Append(queue, offered') /\ UNCHANGED refused
       ELSE refused' = refused \cup {offered'} /\ UNCHANGED queue
  /\ UNCHANGED <<queueClosed, worker, stored>>
  /\ UNCHANGED <<hookVars, main, logVars, sinkVars>>

----------------------------------------------------------------------------
(* The log worker.                                                          *)

Goto(step) == worker' = [worker EXCEPT !.step = step]

WorkerTake ==
  /\ worker = Idle
  /\ queue # <<>>
  /\ worker' = [step |-> "insert", row |-> Head(queue)]
  /\ queue' = Tail(queue)
  /\ UNCHANGED <<inFlight, offered, queueClosed, stored, refused>>
  /\ UNCHANGED <<hookVars, main, logVars, sinkVars>>

\* Mutant: a row that could not be inserted is handed on all the same.
InsertHandsOnFailures ==
  /\ worker.step = "insert"
  /\ Goto("webhook")
  /\ \/ stored' = Append(stored, worker.row) /\ UNCHANGED refused
     \/ DBMayFail /\ refused' = refused \cup {worker.row} /\ UNCHANGED stored
  /\ UNCHANGED <<inFlight, offered, queue, queueClosed>>
  /\ UNCHANGED <<hookVars, main, logVars, sinkVars>>

\* InsertRequest; a row that could not be inserted goes nowhere.
Insert ==
  /\ worker.step = "insert"
  /\ \/ /\ stored' = Append(stored, worker.row)
        /\ Goto("webhook")
        /\ UNCHANGED refused
     \/ /\ DBMayFail
        /\ refused' = refused \cup {worker.row}
        /\ worker' = Idle
        /\ UNCHANGED stored
  /\ UNCHANGED <<inFlight, offered, queue, queueClosed>>
  /\ UNCHANGED <<hookVars, main, logVars, sinkVars>>

\* Pusher.Push, then the autoban and threat-score hooks, which stay in memory.
PushWebhook ==
  /\ worker.step = "webhook"
  /\ Goto("access")
  /\ hookQueue' = IF Len(hookQueue) < HookCap
                    THEN Append(hookQueue, worker.row) ELSE hookQueue
  /\ UNCHANGED <<inFlight, offered, queue, queueClosed, stored, refused>>
  /\ UNCHANGED <<hook, stopHook, posted, main, logVars, sinkVars>>

PushAccessLog ==
  /\ worker.step = "access"
  /\ Goto("mirror")
  /\ LogPush(worker.row)
  /\ UNCHANGED <<inFlight, offered, queue, queueClosed, stored, refused>>
  /\ UNCHANGED <<hookVars, main, sinkVars>>

PushWarehouse ==
  /\ worker.step = "mirror"
  /\ worker' = Idle
  /\ SinkPush(worker.row)
  /\ UNCHANGED <<inFlight, offered, queue, queueClosed, stored, refused>>
  /\ UNCHANGED <<hookVars, main, logVars>>

\* The range over the closed queue ends once it is empty.
WorkerDone ==
  /\ worker = Idle
  /\ queueClosed
  /\ queue = <<>>
  /\ Goto("done")
  /\ UNCHANGED <<inFlight, offered, queue, queueClosed, stored, refused>>
  /\ UNCHANGED <<hookVars, main, logVars, sinkVars>>

Worker ==
  \/ WorkerTake
  \/ Insert
  \/ PushWebhook
  \/ PushAccessLog
  \/ PushWarehouse
  \/ WorkerDone

----------------------------------------------------------------------------
(* The webhook goroutine.                                                   *)

\* deliver: posted, or filtered out, or the endpoint fails; there is no retry.
HookDeliver ==
  /\ Alive
  /\ hook = "loop"
  /\ hookQueue # <<>>
  /\ hookQueue' = Tail(hookQueue)
  /\ posted' \in {posted, Head(hookQueue)}
  /\ UNCHANGED <<hook, stopHook, pipeVars, main, logVars, sinkVars>>

\* run returns when it sees stop; what is queued stays there.
HookSeesStop ==
  /\ Alive
  /\ hook = "loop"
  /\ stopHook
  /\ hook' = "done"
  /\ UNCHANGED <<hookQueue, stopHook, posted>>
  /\ UNCHANGED <<pipeVars, main, logVars, sinkVars>>

----------------------------------------------------------------------------
(* Shutdown.                                                                *)

\* SIGTERM: Shutdown closes the listeners and e.Start returns to main.
Signal ==
  /\ main = "serving"
  /\ main' = "stop_sink"
  /\ UNCHANGED <<pipeVars, hookVars, logVars, sinkVars>>

\* Sink.Stop, ...
StopSink ==
  /\ main = "stop_sink"
  /\ SinkStop
  /\ main' = "wait_sink"
  /\ UNCHANGED <<pipeVars, hookVars, logVars>>

\* ... which waits for the goroutine.
SinkStopped ==
  /\ main = "wait_sink"
  /\ sink = "done"
  /\ main' = "close_log"
  /\ UNCHANGED <<pipeVars, hookVars, logVars, sinkVars>>

CloseLog ==
  /\ main = "close_log"
  /\ LogClose
  /\ main' = "stop_hook"
  /\ UNCHANGED <<pipeVars, hookVars, sinkVars>>

\* Pusher.Stop does not wait.
StopHook ==
  /\ main = "stop_hook"
  /\ stopHook' = TRUE
  /\ main' = "close_db"
  /\ UNCHANGED <<hookQueue, hook, posted>>
  /\ UNCHANGED <<pipeVars, logVars, sinkVars>>

\* DB.Close closes the queue, ...
CloseQueue ==
  /\ main = "close_db"
  /\ queueClosed' = TRUE
  /\ main' = "wait_worker"
  /\ UNCHANGED <<inFlight, offered, queue, worker, stored, refused>>
  /\ UNCHANGED <<hookVars, logVars, sinkVars>>

\* Mutant: DB.Close does not wait for the worker.
ExitAtOnce ==
  /\ main = "wait_worker"
  /\ main' = "exited"
  /\ UNCHANGED <<pipeVars, hookVars, logVars, sinkVars>>

\* ... waits for the worker, and main returns: the process ends with whatever
\* else is running in it.
Exit ==
  /\ main = "wait_worker"
  /\ worker.step = "done"
  /\ main' = "exited"
  /\ UNCHANGED <<pipeVars, hookVars, logVars, sinkVars>>

Main ==
  \/ StopSink
  \/ SinkStopped
  \/ CloseLog
  \/ StopHook
  \/ CloseQueue
  \/ Exit

----------------------------------------------------------------------------
SinkRuns == SinkStep /\ UNCHANGED <<pipeVars, hookVars, main, logVars>>

NextPipeline ==
  \/ Arrive
  \/ QueueRequest
  \/ Worker
  \/ SinkRuns
  \/ HookDeliver
  \/ HookSeesStop
  \/ Signal
  \/ Main

SpecPipeline == InitPipeline /\ [][NextPipeline]_vars

\* The goroutines run on; neither requests nor signals have to come.
FairPipeline ==
  /\ SpecPipeline
  /\ WF_vars(Worker)
  /\ WF_vars(SinkRuns)
  /\ WF_vars(Main)

----------------------------------------------------------------------------
(* Properties.                                                              *)

Posts == (IF posted = 0 THEN <<>> ELSE <<posted>>) \o hookQueue
Sinks == {Posts, Chain}

\* Whatever is dropped on the way, webhook and access log see stored rows only,
\* each at most once, in the order of their ids, during shutdown too.
SinksFollowTheDatabase ==
  /\ Increasing(stored)
  /\ \A s \in Sinks : Increasing(s) /\ Elements(s) \subseteq Elements(stored)

\* The warehouse is a mirror of the requests table: the worker, the queue, the
\* batches and the flushes that fail or are the last implement Mirror.
Analytics == INSTANCE Mirror WITH table <- stored, mirror <- shipped
MirrorsTheTable == Analytics!Spec

\* When the process ends, no row that made it into the queue is still on the
\* way to the database.
AcceptedRowsAreWritten ==
  main = "exited" =>
    \A r \in 1..offered : r \in Elements(stored) \/ r \in refused

\* Every push of the worker is non-blocking, and whoever main waits for goes
\* on: a shutdown that has begun ends, in whatever state the queues are.
ShutdownCompletes == [](main # "serving" => <>(main = "exited"))

\* "in-flight miss fetches are children of requests on the main listener,
\* which graceful shutdown already drains" (main.go, serveCacheReturn).
RequestsAreDrained == main = "exited" => inFlight = 0
=============================================================================
