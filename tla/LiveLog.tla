------------------------------- MODULE LiveLog -------------------------------
(***************************************************************************)
(* What the admin's browser is told while requests are logged: the         *)
(* broadcaster that copies every stored row to the channels of open        *)
(* streams, the Stats view that counts a seed and then what is streamed,   *)
(* and the bell whose badge is a count made for each blocked row.          *)
(*                                                                         *)
(* A row is the number of its request, in the order of the log queue; its  *)
(* timestamp is older than its place in the table.  The two streams share  *)
(* nothing but the rows: the browser has one of them open.  A stream that  *)
(* breaks is opened again.                                                 *)
(***************************************************************************)
EXTENDS Integers, FiniteSets, Sequences

CONSTANTS
  Conns,         \* connections: their handlers and channels
  BlockedRows,   \* the requests that are blocked
  ChanCap,       \* capacity of a channel, 64 in the code
  MaxRows,       \* bound: requests
  MaxBreaks,     \* bound: broken connections
  MaxMarks,      \* bound: times the admin marks the alerts as read
  MaxLiveFaults  \* bound: failing inserts, reads and writes

ASSUME LiveAssumption == MaxRows \in Nat

VARIABLES
  stream,    \* the stream the browser opens, "stats" or "bell"
  made,      \* requests so far
  waiting,   \* the log queue
  table,     \* the rows of the table
  pushing,   \* a row that is stored and not yet broadcast, 0 for none
  subs,      \* LogBroadcaster.subs
  chans,     \* per connection its channel: [rows, open]
  conns,     \* per connection: where its handler is, whether the browser
             \* reads it, the time of the last mark the handler read
  seenUpTo,  \* notifications_seen_at: how many requests had ended
  view,      \* the Stats view: [at, seed, max, pending, counted]
  bell,      \* [count, under way to the browser; badge; mark, a POST under way]
  breaks, marks, liveFaults, \* history: how many
  missed,    \* history: rows that reached neither the view nor its seed
  alone,     \* history: no mark overlapped the count under way, no row was
             \* missed since it was begun
  muddled    \* history: a mark overlapped a count, a blocked row was missed or
             \* a call failed, and no count was made alone since

viewVars == <<view, missed>>
bellVars == <<seenUpTo, bell, marks, alone, muddled>>
rowVars == <<made, waiting, table, pushing>>
linkVars == <<subs, chans, conns, breaks>>
liveVars == <<stream, rowVars, linkVars, viewVars, bellVars, liveFaults>>

Rows == 1 .. MaxRows
NoCount == -1
Shut == [rows |-> <<>>, open |-> FALSE]
NewChannel == [rows |-> <<>>, open |-> TRUE]
Unconnected == [at |-> "off", read |-> FALSE, upTo |-> 0]

RowsIn(s) == {s[i] : i \in DOMAIN s}
Live == {c \in Conns : conns[c].read}
Counts == {c \in Conns : conns[c].at \in {"seen", "count"}}

Fault == liveFaults < MaxLiveFaults /\ liveFaults' = liveFaults + 1

\* The bell is behind: rows that are blocked did not reach it.
Misses(rows) ==
  /\ muddled' = (muddled \/ (stream = "bell" /\ rows \cap BlockedRows # {}))
  /\ alone' = (alone /\ rows \cap BlockedRows = {})

\* -- Rows ------------------------------------------------------------------

\* writeLog
Request ==
  /\ made < MaxRows
  /\ made' = made + 1
  /\ waiting' = Append(waiting, made + 1)
  /\ UNCHANGED <<stream, table, pushing, linkVars, viewVars, bellVars, liveFaults>>

InsertRow ==
  /\ waiting # <<>> /\ pushing = 0
  /\ waiting' = Tail(waiting)
  /\ table' = table \cup {Head(waiting)} /\ pushing' = Head(waiting)
  /\ UNCHANGED <<stream, made, linkVars, viewVars, bellVars, liveFaults>>

InsertFails ==
  /\ waiting # <<>> /\ pushing = 0 /\ Fault
  /\ waiting' = Tail(waiting)
  /\ UNCHANGED <<stream, made, table, pushing, linkVars, viewVars, bellVars>>

\* -- LogBroadcaster --------------------------------------------------------

HasRoom(c) == Len(chans[c].rows) < ChanCap

\* One critical section: a full channel misses the row.
Broadcast ==
  /\ pushing # 0
  /\ chans' = [c \in Conns |->
       IF c \in subs /\ HasRoom(c)
       THEN [chans[c] EXCEPT !.rows = Append(@, pushing)] ELSE chans[c]]
  /\ pushing' = 0
  /\ IF \E c \in Live \cap subs : HasRoom(c)
     THEN UNCHANGED <<missed, alone, muddled>>
     ELSE missed' = missed \cup {pushing} /\ Misses({pushing})
  /\ UNCHANGED <<stream, made, waiting, table, subs, conns, breaks, view, seenUpTo,
                 bell, marks, liveFaults>>

\* The browser opens its stream, again if it broke.
Subscribe(c) ==
  /\ conns[c].at = "off" /\ Live = {}
  /\ chans' = [chans EXCEPT ![c] = NewChannel]
  /\ subs' = subs \cup {c}
  /\ conns' = [conns EXCEPT ![c] = [at |-> "on", read |-> TRUE, upTo |-> 0]]
  /\ UNCHANGED <<stream, rowVars, breaks, viewVars, bellVars, liveFaults>>

\* The connection breaks; what its handler still writes reaches nobody.
Break(c) ==
  /\ conns[c].read /\ breaks < MaxBreaks /\ breaks' = breaks + 1
  /\ conns' = [conns EXCEPT ![c].read = FALSE]
  /\ missed' = missed \cup RowsIn(chans[c].rows)
  /\ muddled' = (muddled \/ /\ stream = "bell"
                            /\ \/ c \in Counts \/ bell.count # NoCount
                               \/ RowsIn(chans[c].rows) \cap BlockedRows # {})
  /\ bell' = [bell EXCEPT !.count = NoCount]
  /\ alone' = FALSE
  /\ UNCHANGED <<stream, rowVars, subs, chans, view, seenUpTo, marks, liveFaults>>

\* Unsubscribe: the channel leaves the set, and is closed after the lock.
Unsubscribe(c) ==
  /\ conns[c].at = "on" /\ ~ conns[c].read
  /\ subs' = subs \ {c}
  /\ conns' = [conns EXCEPT ![c].at = "leaving"]
  /\ UNCHANGED <<stream, rowVars, chans, breaks, viewVars, bellVars, liveFaults>>

Close(c) ==
  /\ conns[c].at = "leaving"
  /\ chans' = [chans EXCEPT ![c] = Shut]
  /\ conns' = [conns EXCEPT ![c] = Unconnected]
  /\ UNCHANGED <<stream, rowVars, subs, breaks, viewVars, bellVars, liveFaults>>

\* -- The Stats view --------------------------------------------------------

Newest(s) == IF s = {} THEN 0 ELSE CHOOSE r \in s : \A q \in s : q <= r

Counted(counted, rows) == [r \in Rows |-> counted[r] + IF r \in rows THEN 1 ELSE 0]

TakeRow(c) == chans' = [chans EXCEPT ![c].rows = Tail(@)]

\* LogsStream hands on a row; add() waits for a seed that is on its way.
LogsStream(c) ==
  LET r == Head(chans[c].rows)
  IN /\ stream = "stats" /\ conns[c].at = "on" /\ chans[c].rows # <<>>
     /\ TakeRow(c)
     /\ view' =
          IF ~ conns[c].read \/ view.at = "hidden" THEN view
          ELSE IF view.at = "counting"
          THEN [view EXCEPT !.counted = Counted(@, {r} \ (0 .. view.max))]
          ELSE [view EXCEPT !.pending = @ \cup {r}]
     /\ UNCHANGED <<stream, rowVars, subs, conns, breaks, missed, bellVars, liveFaults>>

\* loadStatsSeed, when the tab is shown for the first time.
ShowStats ==
  /\ stream = "stats" /\ view.at = "hidden"
  /\ view' = [view EXCEPT !.at = "seeding"]
  /\ UNCHANGED <<stream, rowVars, linkVars, missed, bellVars, liveFaults>>

\* The rows of the last hour, fewer than statsSeedLimit.
LogStatsSeed ==
  /\ view.at = "seeding"
  /\ view' = [view EXCEPT !.at = "seeded", !.seed = table]
  /\ UNCHANGED <<stream, rowVars, linkVars, missed, bellVars, liveFaults>>

\* Mutant: what was streamed while the seed was loading is counted as it is.
CountSeedAndPending ==
  /\ view.at = "seeded"
  /\ view' = [view EXCEPT !.at = "counting", !.max = Newest(view.seed), !.pending = {},
                !.counted = Counted(Counted(@, view.seed), view.pending)]
  /\ UNCHANGED <<stream, rowVars, linkVars, missed, bellVars, liveFaults>>

CountSeed ==
  /\ view.at = "seeded"
  /\ view' = [view EXCEPT !.at = "counting", !.max = Newest(view.seed), !.pending = {},
                !.counted = Counted(Counted(@, view.seed),
                                    view.pending \ (0 .. Newest(view.seed)))]
  /\ UNCHANGED <<stream, rowVars, linkVars, missed, bellVars, liveFaults>>

\* Without a seed the view counts what it was streamed since it was shown.
SeedFails ==
  /\ view.at \in {"seeding", "seeded"} /\ Fault
  /\ view' = [view EXCEPT !.at = "counting", !.pending = {},
                !.counted = Counted(@, view.pending)]
  /\ missed' = missed \cup (table \ ({pushing} \cup view.pending
                                      \cup UNION {RowsIn(chans[c].rows) : c \in Live}))
  /\ UNCHANGED <<stream, rowVars, linkVars, bellVars>>

\* -- The bell --------------------------------------------------------------

Unread(upTo) == Cardinality({r \in table \cap BlockedRows : r > upTo})

\* NotificationsStream takes a row; one that was let through changes nothing.
NotificationsStream(c) ==
  LET r == Head(chans[c].rows)
  IN /\ stream = "bell" /\ conns[c].at = "on" /\ chans[c].rows # <<>>
     /\ TakeRow(c)
     /\ IF r \in BlockedRows
        THEN /\ conns' = [conns EXCEPT ![c].at = "seen"]
             /\ alone' = IF conns[c].read THEN bell.mark = "idle" ELSE alone
        ELSE UNCHANGED <<conns, alone>>
     /\ UNCHANGED <<stream, rowVars, subs, breaks, viewVars, seenUpTo, bell, marks,
                    muddled, liveFaults>>

\* unreadAlertCount: two reads.
NotificationsSeenAt(c) ==
  /\ conns[c].at = "seen"
  /\ conns' = [conns EXCEPT ![c].at = "count", ![c].upTo = seenUpTo]
  /\ UNCHANGED <<stream, rowVars, subs, chans, breaks, viewVars, bellVars, liveFaults>>

\* The number is written to the stream, where a later one replaces it.
Tells(c, n) ==
  /\ conns' = [conns EXCEPT ![c].at = "on", ![c].upTo = 0]
  /\ bell' = IF conns[c].read THEN [bell EXCEPT !.count = n] ELSE bell

CountBlockedSince(c) ==
  /\ conns[c].at = "count"
  /\ Tells(c, Unread(conns[c].upTo))
  /\ UNCHANGED <<stream, rowVars, subs, chans, breaks, viewVars, seenUpTo, marks,
                 alone, muddled, liveFaults>>

\* Either read fails: the count is 0.
CountFails(c) ==
  /\ c \in Counts /\ Fault
  /\ Tells(c, 0)
  /\ alone' = IF conns[c].read THEN FALSE ELSE alone
  /\ UNCHANGED <<stream, rowVars, subs, chans, breaks, viewVars, seenUpTo, marks, muddled>>

UpdateBadge ==
  /\ bell.count # NoCount
  /\ bell' = [bell EXCEPT !.count = NoCount, !.badge = bell.count]
  /\ muddled' = ~ alone
  /\ UNCHANGED <<stream, rowVars, linkVars, viewVars, seenUpTo, marks, alone, liveFaults>>

\* markAllRead: the badge is cleared once the answer is there, be it an error.
MarkAllRead ==
  /\ stream = "bell" /\ bell.mark = "idle" /\ marks < MaxMarks /\ marks' = marks + 1
  /\ bell' = [bell EXCEPT !.mark = "sent"]
  /\ alone' = FALSE
  /\ UNCHANGED <<stream, rowVars, linkVars, viewVars, seenUpTo, muddled, liveFaults>>

MarkNotificationsSeen ==
  /\ bell.mark = "sent"
  /\ seenUpTo' = made
  /\ bell' = [bell EXCEPT !.mark = "answered"]
  /\ UNCHANGED <<stream, rowVars, linkVars, viewVars, marks, alone, muddled, liveFaults>>

SeenFails ==
  /\ bell.mark = "sent" /\ Fault
  /\ bell' = [bell EXCEPT !.mark = "answered"]
  /\ muddled' = TRUE
  /\ UNCHANGED <<stream, rowVars, linkVars, viewVars, seenUpTo, marks, alone>>

ClearBadge ==
  /\ bell.mark = "answered"
  /\ bell' = [bell EXCEPT !.mark = "idle", !.badge = 0]
  /\ UNCHANGED <<stream, rowVars, linkVars, viewVars, seenUpTo, marks, alone, muddled, liveFaults>>

InitLive ==
  /\ stream \in {"stats", "bell"}
  /\ made = 0 /\ waiting = <<>> /\ table = {} /\ pushing = 0
  /\ subs = {} /\ chans = [c \in Conns |-> Shut] /\ conns = [c \in Conns |-> Unconnected]
  /\ seenUpTo = 0
  /\ view = [at |-> "hidden", seed |-> {}, max |-> 0, pending |-> {},
             counted |-> [r \in Rows |-> 0]]
  /\ bell = [count |-> NoCount, badge |-> 0, mark |-> "idle"]
  /\ breaks = 0 /\ marks = 0 /\ liveFaults = 0
  /\ missed = {} /\ alone = FALSE /\ muddled = FALSE

NextLive ==
  \/ Request \/ InsertRow \/ InsertFails \/ Broadcast
  \/ \E c \in Conns : \/ Subscribe(c) \/ Break(c) \/ Unsubscribe(c) \/ Close(c)
                      \/ LogsStream(c) \/ NotificationsStream(c)
                      \/ NotificationsSeenAt(c) \/ CountBlockedSince(c) \/ CountFails(c)
  \/ ShowStats \/ LogStatsSeed \/ CountSeed \/ SeedFails
  \/ UpdateBadge \/ MarkAllRead \/ MarkNotificationsSeen \/ SeenFails \/ ClearBadge

SpecLive == InitLive /\ [][NextLive]_liveVars

\* -- Properties ------------------------------------------------------------

\* Unsubscribe: while rows are sent to every channel of the set, and streams
\* come and go, none of these channels is closed; a send would end the process.
OpenWhileSubscribed == \A c \in subs : chans[c].open

\* "nothing is counted twice" (logstats.js), whether a row comes in the seed,
\* while the seed is on its way, or on a stream that was opened again.
CountedOnce == \A r \in Rows : view.counted[r] <= 1

RowsAtRest ==
  /\ waiting = <<>> /\ pushing = 0
  /\ Live # {} /\ \A c \in Live : conns[c].at = "on" /\ chans[c].rows = <<>>

\* Once all rows are stored and streamed, the view has counted them all, but
\* for those a full channel, a broken stream or a failed seed lost.
NothingElseIsLost ==
  (RowsAtRest /\ view.at = "counting") =>
    \A r \in table : view.counted[r] = 1 \/ r \in missed

\* Once all is at rest the badge is the number of unread blocked rows, unless a
\* mark overlapped a count, a row was missed or a call failed, and no later
\* row was counted undisturbed.
BadgeTells ==
  (stream = "bell" /\ RowsAtRest /\ ~ muddled /\ bell.count = NoCount /\ bell.mark = "idle") =>
    bell.badge = Unread(seenUpTo)
==============================================================================
