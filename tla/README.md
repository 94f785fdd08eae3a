# A TLA+ model of Palisade (coraza-waf-mod)

Palisade is a reverse proxy with a web application firewall, written in Go. A
node receives requests, passes them through a series of checks (IP and geo
rules, rate limit, browser challenge, threat score, the Coraza rule engine),
forwards what is left to the backends of the service the host or path belongs
to, and logs a row per request. Administrators change everything at run time
from a web UI or an API. Several nodes may share a database and a Redis server.

Most of its state is a copy: of database tables in memory, of settings in a
component, of a component in a request that fetched it. The models here are
about those copies: who refreshes them, in how many steps, and what happens when
two refreshes, a request, a crash or an error come between the steps.

- [Inventory](#inventory): components, state, operations, interactions, hazards
- [Modules](#modules): what models what
- [Runs](#runs): what TLC checks, within which bounds
- [Fairness](#fairness)
- [Proofs](#proofs)
- [Findings](#findings)
- [Plan](#plan)
- [Not modelled](#not-modelled)

Paths below are relative to `src/`, and `internal/` is left out where it is
clear.

## Inventory

| Component | State | Operations | Talks to | Hard behaviour | What makes it correct |
|---|---|---|---|---|---|
| Global IP rules (`security/blocklist`) | four maps (global and per service, allow and block) and CIDR lists under a lock; `clusterPub` | `Check`, `Reload`, `ReloadIntel`, `EnableClusterSync` | table `ip_rules`; Redis channel; called by the UI, the API, autoban, threat intel | the table is read outside the lock; messages are lost; boot loads before it subscribes | a node enforces the table once things settle |
| Automatic banner (`security/autoban`) | points per address in a sliding window, markers of addresses with a ban, settings | `Record`, `ban`, `sweep`, `ReloadConfig`, `Score` | called by the log worker; writes `ip_rules`, reloads the blocklist, mails | look-up and write are two statements; a marker outlives a failed ban; settings are three keys | one ban at a time; old offences count once; an admin's rule wins; a persistent offender is banned |
| Request log (`storage/db.go`) | bounded queue, one worker, table `requests` | `QueueRequest`, `runLogWorker`, `Close` | hands each row to the live log, webhook, autoban, threat score, access log, warehouse | full or closed queue, failing inserts, shutdown | every sink sees stored rows, in order, once; accepted rows are stored |
| Access log (`notify/accesslog`) | file, size, backups | `Push`, rotation, `Close` | called by the log worker | each step of a rotation may fail alone | the files hold the newest lines without a gap |
| Analytics mirror (`notify/warehouse`) | bounded queue, batch | `Push`, flush, snapshot, `Stop` | called by the log worker; writes to an external database | never waits; drains at most one batch | each row at most once, in order; `Stop` ends |
| Webhook (`notify/webhook`) | bounded queue | `Push`, deliver, `Stop` | called by the log worker; posts to a URL | queue abandoned by `Stop` | at most once, in order |
| Live log (`ui/broadcast.go`, `logstats.go`, the pages' scripts) | subscribed channels; in the browser the counts of the Stats view and the badge of the bell | `Subscribe`, `Broadcast`, `Unsubscribe`, both streams, the seed, the unread count, mark as read | called by the log worker; reads `requests` | slow clients miss rows, streams break, a seed and the stream overlap, a mark overlaps a count | each row counted once; the badge right in the end |
| Start and shutdown (`main.go`) | order of deferred calls | boot, SIGHUP, SIGTERM | everything | handlers in flight; sinks stopped before the queue is drained | the shutdown ends and loses nothing it promised to keep |
| Hostnames (`services/registry.go`, `ui/api.go`) | names of a service in two groups of columns, the registry's list, its index of names | add, edit names, update by the API, delete, `ValidateHosts`, `canonicalRedirect` | table `services` | names are checked against the registry's list and written later, in two statements | a name is one service's; redirects end |
| Services (`services/registry.go`) | service list, pools, health map, stop channel, limiters, certificates, host index | `Reload`, `Match`, `Proxy`, purge | table `services`; Varnish | rebuilt wholesale, installed in three steps; reloads overlap | what is installed belongs together and to the saved settings |
| Backend pools (`services/balancer.go`) | health per backend, in-flight counts | `pick`, retry, mark up or down, `runChecks` | backends | old pools and checks finish late and share health | one retry; no side effect twice; recovered backends return |
| Rate limiter (`security/ratelimit`) | buckets per address, or Redis | `Allow`, `AllowScaled`, eviction, snapshot, restore | database; replaced by a settings change | refill and cap, restart, swap under use, Redis fails open | no more tokens than time allows |
| Browser challenge (`security/challenge`) | used nonces, secret, TTL | gate, page, verify, cookie | proxy; replaced by a settings change | check and mark are two critical sections; sweep and replacement of the used set | a nonce counts once in its window; who solved it stays admitted |
| WAF engine (`security/waf`) | compiled engines of one build, verdict cache; four tables of rules and exceptions | `CheckWithOptions`, `get`, `put`, every rule handler, `buildWAFAll` | replaced by SIGHUP and the UI | concurrent rebuilds from several reads; late `put`; ids checked before they are written | engines are what the tables say; a verdict is fresh and of its engine |
| Threat score, adaptive (`security/threatscore`, `adaptive`) | score per address, judgments of networks, those in flight | `Record`, `CurrentScore`, `Decide`, reloads | log worker; an external classifier | judgments in flight across a settings change; settings written key by key | no judgment of an old key unless it was under way |
| Threat intel (`security/threatintel`) | sources, stored lists | periodic and manual sync, switch, delete | blocklist | a sync reloads while handlers change sources; two syncs of one source | what is blocked is what the enabled sources stored; lists go forward |
| Admin sign-in (`ui/loginlimit.go`, `twofactor.go`, `passkey.go`, `devices.go`, sessions in `storage`) | attempts, pending logins, secret, codes, passkeys, devices, sessions, password | password, second factors, enrollment, change of credentials, revocation | database, mail | read-modify-write without transactions everywhere | codes work once; every factor is asked; one live session; an old password ends |
| Geo rules (`security/geo`) | rule map, and the risk countries of the scorer | add, delete, two reloads | table `geo_rules`; threat score | the table is read twice, the second error is dropped | both copies follow the table |
| JA3/JA4, ASN, bot signals | none | look-ups | | | pure functions |
| Move to another database (`storage/migrate_backend.go`, `secretenc.go`) | source, target, identity columns, sealed secrets | `MigrateConfigTo` table by table, switch, reseal | all tables | no transaction; ids are copied; another key file | a move that reports success is complete; secrets can be read |
| Daily report (`notify/mailer/reporter.go`) | settings row by row, last reported day | run at start and after midnight, save settings, mark | mail | crash between mail and mark; a run over midnight | a day is reported once, and not never |
| Mail texts, metrics, TLS, compression, configuration | little or none | output, parsing | external services | | |

The interactions that matter most:

- *Change*: handler -> database row -> `Reload` of the copy in memory (-> Redis
  -> `Reload` on other nodes). The same shape for IP rules, services, autoban
  settings, WAF engines, geo rules, challenge, threat score and rate limiter.
- *Log*: request -> queue -> worker -> database -> sinks; autoban closes the
  loop, since a row may end in a new IP rule.
- *Life cycle*: boot loads copies, then subscribes; shutdown runs `main`'s
  deferred calls in reverse.

The hazards of this code, each at its line and with the properties that cover
it, are listed in `PROJECT.json`.

## Modules

| Module | Models | Extends |
|---|---|---|
| `Blocklist` | IP rules of a cluster: table, copies, reloads, Redis | |
| `Autoban` | the banner of one node, its ban goroutines, settings, crash | `Blocklist` |
| `AccessLog` | the rotating access log | |
| `Warehouse` | the analytics mirror | |
| `LogPipeline` | log queue, worker, webhook, shutdown; drives the two above | `AccessLog`, `Warehouse`, `Streams` |
| `Streams` | sequences of rows: in order, one continues another | |
| `Mirror` | abstract specification: a table and a copy that follows it | `Streams` |
| `Backends` | one service: its reloads, pools, checks and requests | |
| `CacheRoute` | one service behind Varnish: reloads, purges, requests and misses | |
| `TokenBucket` | the arithmetic of a bucket, in Go and in the Lua script | |
| `RateLimit` | the global rate limit: requests, back ends, saves, settings changes, restarts | `TokenBucket` |
| `Challenge` | the browser challenge: gate, page, verify, cookie, its settings | |
| `WafRules` | from the tables of WAF rules to the engines | |
| `VerdictCache` | `CheckWithOptions` with the cache of verdicts of each engine | |
| `GeoRules` | geo rules, the Blocker's copy and the scorer's | |
| `Hosts` | hostnames of services: validation, two writes, index, redirects | |
| `LiveLog` | broadcaster, Stats view, bell | |
| `ThreatScore` | judgments of networks and the settings of the service that gives them | |
| `ThreatIntel` | sources of threat intelligence, their syncs, the copy in force | |
| `Migration` | the move of the configuration to another database | |
| `Reports` | the reporter that mails each day once | |
| `LoginLimiter` | failures of one address, as functions of the entry and the time | |
| `SignIn` | the admin account: logins, factors, sessions, settings | `LoginLimiter` |
| `LogPipelineProofs`, `BackendsProofs`, `CacheRouteProofs`, `RateLimitProofs`, `SignInProofs` | theorems | the module they are about |
| `IPRulesProofs` | theorems | `Blocklist`, `Autoban` |
| `EnginesProofs` | theorems | `MCEngines` and the modules it conjoins |
| `JobsProofs` | theorems | `MCJobs` and the modules it conjoins |
| `MCBlocklist`, `MCAutoban`, `MCLogPipeline`, `MCBackends`, `MCCacheRoute`, `MCRateLimit`, `MCSignIn` | values of constants for TLC | the module they instantiate |
| `MCEngines` | values for TLC; properties that conjoin those of modules of one kind | `Challenge`, `WafRules`, `VerdictCache`, `GeoRules`, `Hosts`, `LiveLog` |
| `MCJobs` | the same | `ThreatScore`, `ThreatIntel`, `Migration`, `Reports` |

### Blocklist

`hist` holds every content the `ip_rules` table has had, so that a copy is an
index into it: `view[n]` is the revision node `n` enforces, `seen[p]` the one a
goroutine has read and not installed yet. `pc[p]` is the step a goroutine is
about to take: a handler goes `read -> swap -> publish` (`IPBlocklist.Reload`),
a subscriber `read -> swap` (`reloadLocal`). `Commit` is `AddIPRule` or
`DeleteIPRule`; `ReadTable` and `ReadFails` are the two ends of `ListIPRules`;
`Swap` is the section under the lock; `Publish` picks the subscribed nodes the
message reaches; `Restart`, `Subscribe` and `StartAlone` are the boot sequence
of `main.go`. `overtaken` and `missed` are history variables: they name the two
accidents that may leave a node behind.

### Autoban

The log queue carries rows with an address and what happened to the request.
`RecordIgnored`, `RecordScored` and `RecordBan` are the three ways through
`Banner.Record`, which runs on the log worker; `BanLookup`, `BanWrite`,
`BanWriteFails` and `Notify` are `ban`, whose reload is that of `Blocklist`
(`BanWrite` is a `Commit` of that module). `Sweep` is the janitor.
`SaveSettings`, `WriteThreshold`, `WriteWindow`, `SaveFails`, `ReadSettings` and
`SwapSettings` are the settings page, which writes its three keys one by one, so that
a reader may find some of them new and some old; `HalfRead` is what
`GetAutobanConfig` returns if a later key cannot be read. Time is a count of ticks kept as ages and capped where no comparison can
tell the difference. `sinceBan` is a history variable. Two durations are assumed
to be short against the hour a marker lives: that of a row in the queue and
that of a ban goroutine (guard of `Tick`).

### AccessLog, Warehouse, LogPipeline

A row is its number. `QueueRequest` drops it when the queue is full or closed;
the worker's steps are `Insert`, `PushWebhook`, `PushAccessLog`,
`PushWarehouse`. The live log, autoban and threat score hooks only touch memory
and are left out of this module. `LogPush` is `Writer.Push` with its rotation:
`Rotated(ok)` is the effect of the renames of which those in `ok` succeed,
`LogReopenFails` the failed `OpenFile`, after which the handle is dead
(`LogDead`). `SinkTake` .. `SinkDrain` are the branches of the warehouse loop.
`main` walks through the deferred calls: `StopSink`, `SinkStopped`, `CloseLog`,
`StopHook`, `CloseQueue`, `Exit`. Handlers (`Arrive`, `QueueRequest`) are not
waited for by anybody.

`Mirror` is what the warehouse promises without its queue and batches: the table
grows by one row at a time (`Store`), and now and then the mirror takes over some
rows of the table that come after those it has (`Copy`). `LogPipeline` implements
it with `stored` as the table and `shipped` as the mirror: `Insert` is `Store`, a
flush that succeeds is `Copy`, every other step stutters. This is the property
`MirrorsTheTable`. For the webhook and the access log
`SinksFollowTheDatabase` says the same of the rows they have not finished with.

### Backends

One service. `Save` is a handler that has stored the new settings; its `Reload`
then takes the steps `ReadList` (or `ReadFails`), `Build` (reads the old health
map and makes the pool), `Install` (list and proxies), `Register` (health map)
and `SwapChecks` (stop channel). These steps of different changes interleave.
Old pools stay in `pools`, because requests and check rounds that began on them
go on: `req[r].pool`, `probes`, `round`. Health objects are shared by pools
through `objs`: `"up"`, `"cooling"` (down for `passiveCooldown`) or `"out"` (down
until a check passes). `Picks` is `pick` up to its ordering: which candidate
the round robin or the least-connections rule prefers is left open. An exchange with a
backend ends as the backend stood at its start or at its end (`MayEnd`); a
backend that answers requests but fails its health path is not modelled.
`troubled` is a history variable: some reload overlapped another or failed.

### CacheRoute

One service, one URL, and Varnish as one object that is stored or not. `Save`
stands for the handlers that add, edit, remove or switch the service and for
`SaveVarnishConfig`; `ReadList`, `ReadVarnish` (or `ReadFails`) and `Install` are
its `Reload`, of which several may be under way. `Install` counts the goroutines that
`staleCacheServices` asks for in `purging`; `Purge` is one of them, whose PURGE
may fail, `PurgeServiceCache` the button. A request takes its three
look-ups of the registry in `Match`, `Proxy` and, after a cache miss, `Return`
(`CacheReturnHandler`); `Straight` covers everything that reaches the pool of the
proxy it fetched: no cache, a method that is never cached, a Varnish that
refuses the connection.

A ban strikes what is stored. A miss that was under way when its service was
re-pointed ends after the purge, and Varnish may then keep the old backend's
answer until it expires; so may one for a service taken off the cache. The model
marks such objects `late`, and `Excused` names the three reasons why the cache may
hold what does not belong: a purge to come, a purge that failed, a late object.
The code calls the purge best-effort (`registry.go:379`). What the properties
claim is that there is no fourth reason. `had` is a history variable: the
backends the service has had since the request arrived. The address of Varnish is
taken as fixed, requests for hosts of no service are left out, and pools of several
backends are the business of `Backends`.

`Finish` leaves out that `Handle` asks `Cached` once more, after the answer, to
decide whether to log the `X-Cache` header as Varnish's (`handler.go:478`). If the
service was put on the cache in between, the header is the backend's.

### TokenBucket, RateLimit

A bucket is its tokens and the time of its last refill; tokens are counted in
parts, so that rates need not be whole. `Refilled` is the Go code, `ScriptRefilled`
the Lua script; they differ in what a negative elapsed time does. Such times
exist: `Begin` takes the back end and reads the clock, and only `Take` locks the
bucket (`Limiter.allow`), or `Script` runs in Redis, up to `MaxLag` ticks later. Every back end that
`buildRateLimit` makes has a number, its life, with its own buckets, janitor
(`Evict`) and save loop (`Snapshot`, `Write`). `SaveSettings`, `Build`, `Swap` and
`StopOld` are `SaveRateLimitConfig` and `ReloadRateLimit`; `Exit` and `Boot` a restart,
which restores the buckets from the table `store`. A Redis that cannot be reached
when the back end is built is replaced by a limiter in memory, later it lets
requests pass (`FailOpen`). `granted` and `promise` are history variables: how
many requests were granted in each stretch of time, and until when a denied
client was told to wait. What it is told (`Told`) is what `proxy/handler.go:386`
writes into the `Retry-After` header: the wait cut down to whole seconds, one at
least. So a client that comes back exactly then may come too early by a part of
a second, and `RetryAfterNearlyHonoured` speaks of one that comes later than that.

The bounds on grants need two things of the constants. `SlowestRefillIsCovered`:
a bucket that is evicted would have been full again, which holds of the
code's five idle minutes if a full refill takes less. `OneScaleOrNoLag`: with
several scales (adaptive enforcement) a call must not be late. Otherwise a late
call with a low scale takes back less than a call with a high scale then adds
for the same ticks, and TLC finds more granted than the bound, by the lag times
the difference of the rates; the comment at `ratelimit.go:120` ("correct
token-bucket math even when scale changes") leaves that out.

### Challenge

`challengers` holds every Challenger the process has built, each with its own
set of used nonces; `active` is the one requests take. A post reads it once and
goes through two critical sections: `CheckPasses` or `CheckFails`, then `Redeem`
or `AlreadyUsed`, both of which sweep first (`Swept`). `SaveBotSettings` is
`WriteEnabled`, `WriteTTL` (or `WriteFails`) and `ReloadBot`; `Restart` reads the
secret and the settings again. A signature is the version of the secret, a proof
of work is right or wrong, and one browser follows the redirects (`Challenged`,
`ServePage`), whose solution may be posted several times. `redeemed` is history.

### WafRules, VerdictCache

`WafRules` has one service. Every handler of a rule, an exception, an option or a
custom rule is a `Changed` (or, for custom rules, a check and a later write:
`CheckCustomRule`, `InsertCustomRule`, `UpdateCustomRule`), after which its
`reloadWAF` reads in three steps (`GetDisabledRules`, `ListCustomRules`,
`ListServices`) and reads the exceptions of the service while it builds
(`ReloadWAF`, which swaps the default engine and the service's at once). A rule is
an identifier, an engine the rules it leaves out and those it adds; it compiles
unless two rules have one id. `behind` is set by a reload that failed or
overlapped another change, and cleared by one that ran alone.

`VerdictCache` has the requests that judge with an engine while it is replaced:
`BeginCheck` takes the newest engine, `LookUp` is `get`, `Evaluate` takes as long as
it takes, `PutAndAnswer` is `put`. A verdict is the engine, the fingerprint, and the
rest of the request that the fingerprint leaves out.

### GeoRules, Hosts

`GeoRules`: one country, per scope a rule. A handler writes the table
(`ChangeGeoRule`), reads it (`ListGeoRules`), installs it (`ReloadBlocker`), reads it
again and hands it to the scorer (`ReloadGeoRules`). The error of the second read is
dropped by the code: the scorer then has no risk countries (`GeoReadFails`).

`Hosts`: a service is its host, its other names and the name they redirect to. A
handler is a `Begin...`, a `Check` against the registry's list (`ValidateHosts`), its
writes (`InsertService`; or `UpdateService` and then `SetServiceHosts`, two statements
of `APIUpdateService`), and a reload in two steps (`ReadServices`, `Install`).
`RefusesTheRest` is the update whose backends, bot mode or schema turn out to be
wrong after its names were written: nothing is reloaded. `lastId` is the
table's last key. `blind`, `revived`, `mixed` and `hostsBehind` are history: they
name how names may come to be shared, redirects to lead nowhere, and the
registry to lag.

### LiveLog

`Request` (with the timestamp), `InsertRow` and `Broadcast` are the way of a row to
the channels. `Unsubscribe` and `Close` are the two halves of
`LogBroadcaster.Unsubscribe`. `LogsStream` hands a row to the Stats view, which is
hidden, waits for its seed (`LogStatsSeed`, `CountSeed`, `SeedFails`) or counts.
`NotificationsStream`, `NotificationsSeenAt` and `CountBlockedSince` make the number
of unread blocked rows; `UpdateBadge` is its arrival; `MarkAllRead`,
`MarkNotificationsSeen` and `ClearBadge` mark alerts as read. `missed`, `alone` and
`muddled` are history. The browser has one of the two streams open, as they share
only the rows; the rows of the last hour are fewer than `statsSeedLimit`.

### ThreatScore, ThreatIntel

`ThreatScore`: the log worker looks a network up (`ClassifyASN`) and starts a
goroutine (`StartJudge`), which asks the service with the key it was given and
stores the answer (`JudgeASN`) or gives up (`JudgeFails`). `SaveTypeSafeSettings` reads
the stored key if the field is blank (`OpenForm`), writes two rows (`WriteSwitch`,
`WriteKey`), and reloads, which clears the cache (`ReloadTypeSafeConfig`). A judgment
is the key it was asked with. `crossed` says that the last reload met a judgment
that was under way or about to begin, `torn` that the rows may differ from the
classifier.

`ThreatIntel`: the worker takes the sources that are due one by one (`SyncDue`,
`NextSource`), a handler may sync one of them at once (`SyncSource`); `Fetch`, `Store`
(the transaction that replaces a list, and the stamp of the source after it) or
`SyncFails`, each of which may lose the stamp, whose error the code drops; then
`ListIPs` and `SwapIntel`, the two steps of `ReloadIntel`. A list is the version the
publisher had. `crossing` holds the sources two syncs of which overlapped.

### Migration

Two databases, `old` and `new`. `SetMeta`, `SetSecretMeta`, `AddCertificate`,
`CreateAPIKey`, `AddSource`, `SyncStores` and `Remove` change the live one;
`OpenTarget` to `FixPostgresIdentitySequence` are `MigrateConfigTo`, one table a
step and each of them able to fail; `Start` is a start of the process on either,
with a key file that may have been created or lost, and seals what it finds open.
`Numbered` are the tables whose next id is set after the copy. Of the table `meta`
only rows that exist are copied (`HasRow`), so that a target that was not empty keeps
what the source never set. Three tables stand for the rest.

### Reports

`reporter` goes `ReadSwitch`, `ReadToken`, `ReadTo`, `AlreadySent` or `NotYetSent`,
`Send`, `MarkSent`, and waits for midnight; each read may fail. A mail that fails has not
reached the server (`ReportFails`) or has, and only the answer to it or to `QUIT` was an
error (`SentWithError`): the reporter cannot tell, and leaves the day unmarked in both cases.
The page of the mail settings reads the token if its field is blank (`OpenPage`) and
writes the rows one by one. `Crash` and `Midnight` may come between any two steps.
`excused` and `again` are history: days that may go unreported, and that may be
reported twice, for a reason the code accepts.

### LoginLimiter, SignIn

`LoginLimiter` has `Blocked`, `Failed` and so on as functions of an entry and the
time. `SignIn` has one account and one address: `clock` counts time steps of the
authenticator, `totp` is its four rows in `meta`, `pending` the map of logins that
have passed the password, `rows` the table of sessions, `req` the requests under way.
Every statement of a handler is a step: for instance an authenticator code is
`GetTOTPSecret`, `GetTOTPLastCounter`, `SetTOTPLastCounter`; a backup code
`ReadBackupCodes`, `WriteBackupCodes`; a session `ForgetDevice` or `RevokeOwnDevice`,
`RevokeLive`, `InsertSession`. So are the check of when a code was last mailed and the
new code in the entry, which is not locked between them (`LoginTOTPEmail`,
`KeepMailCode`). Codes are tokens: an authenticator code is its secret
and time step, a mailed code its login and number. `seen` is history: what was
issued and spent, and what went wrong (`mishaps`).

## Runs

All runs are exhaustive within their bounds.

| Run | Bounds | Shows |
|---|---|---|
| `blocklist_cluster` | two nodes, three handlers (two on one node), one address, two changes, one restart, lossy Redis, failing reads | `StaleOnlyByAccident`, `Settles` |
| `autoban` | one node and address, three table changes, two ban goroutines, two settings, one crash, one database error, markers of one tick and windows of one or two | `OneBanAtATime`, `NoOffenceCountsTwice`, `PersistentOffenderIsRuled`, `StandingBlockIsEnforced` |
| `log_pipeline` | four requests, two at a time; queues of one; files of one line and two backups; one log fault, any number of database and warehouse faults; a signal at any moment | `SinksFollowTheDatabase`, `LogKeepsNewest`, `AcceptedRowsAreWritten`, `MirrorsTheTable`, `ShutdownCompletes` |
| `backends` | two backends, one of which changes state once; one request; two changes, overlapping or not; with and without a health path | `SentAtMostTwice`, `BadGatewayOnlyAfterRetry`, `InstalledTogether`, `RecoveredBackendReturns` |
| `backend_stranded` | one change | `NoneOutWithoutCheck` fails |
| `cache_route` | two backends, three changes by two administrators, three requests, two at a time; failing reads and purges | `CacheFollowsRegistry`, `AnsweredByItsService` |
| `rate_limit` | one address, three requests, two of them at once and up to one tick late; four ticks, buckets evicted after three; two back ends, in memory or in Redis, built by a settings change or a restart; saves and purges that may fail | `MemoryBound`, `RetryAfterNearlyHonoured` |
| `rate_limit_reload` | two settings changes at a time, restarts, three back ends, in memory or disabled | `LastWordIsTheActiveOnes` |
| `sign_in` | three requests, two at a time, two devices, one failing database call; two failures lock an address for one of two time steps; the authenticator, the password, passkeys and devices may be changed meanwhile | `TypeOK`, `OneLiveSession`, `FactorsHold`, `CodesWorkOnce`, `OldPasswordEnds`, `FailuresCount` |
| `engines` | challenge: two nonces, two posts, two saves, three ticks, restarts, one failing write; rules: three changes by two callers, two custom rows and ids, a failing read, a restart; verdicts: three checks, two at a time, two engines, a cache of one; geo: three changes, a failing read; hosts: two services and names, two changes, a failing step; live log: three rows, a channel for two, one break, one mark, one failing call | `NamesAreSound`, `StreamsTell`, `OncePerWindow`, `SettingsInForce`, `OnlyRacesRepeatIds`, `VerdictsAreSound`, `SolvedStaysAdmitted` |
| `jobs` | score: one network, two keys, two judgments and two forms; intel: two sources, the worker and a handler, three changes; move: two rows a table, two secrets, two runs, an edit between any two steps; report: three days, one change of settings, two starts; one failing call each | `ScoreFollowsKey`, `BlankKeepsKey`, `IntelIsCurrent`, `MovesWhole`, `SecretsStayReadable`, `ReportedOnce`, `WorkEnds` |
| `keys_lose_scope` | one key, one move without faults | `KeysKeepTheirScope` fails |

`engines` and `jobs` take several modules that share no variable: in each
behaviour one of them moves and the others rest. That costs TLC the sum of their
states and not the product, and a conjunction of properties says what several of
them promise in the same sense, for instance that settings are in force.

Why the bounds are enough to mean something:

- *Two changes* are what it takes for one reload to overtake another; a third
  handler on the other node makes the overtaking one local or remote. One
  restart puts a boot between any two steps.
- *One address* is enough for the banner, whose state is per address; the
  second ban goroutine is there for the second ban that must not happen. Windows
  longer and shorter than a marker's life are both there, because the order in
  which they run out is what `NoOffenceCountsTwice` is about. Three table changes
  are a ban, an unban and another ban.
- *Four rows* fill three files of one line and push one line out; queues of one
  row are full as soon as two requests meet. The numbers are small, the code's
  comparisons only ask "full" or "not full".
- *Two changes of a service* are two overlapping reloads or a reload whose
  predecessor's requests and checks are still under way. One change of the
  backend's state is a failure or a recovery.
- *Two requests at a time* are the races of the sign-in: all its hazards are a read
  of one request and a write of another; the third request is the one that shows
  the damage, by a second use of a code or of a session.
- *Two posts, two saves, two engines, two services, two sources* are one that is
  overtaken and one that overtakes. A cache of one entry evicts at the second
  fingerprint; a nonce's window of one tick lets a post come in time, late and after
  the sweep; two names are one that is free and one that is taken.
- *Three days* are one that is reported in time, one whose report runs over
  midnight, and the next.
- *Three changes of a cached service* re-point it, and back, and switch the cache, in
  overlapping reloads; two requests are a miss under way and a hit on what it
  leaves.

`CHECK_DEADLOCK FALSE` is set everywhere: the models stop when the bounds on
changes, requests or ticks are spent and when the process has exited.

Every property of a passing run is also checked to fail for a plausible mistake
in the code: the operators marked `Mutant` in the modules, each the body of an
action with a missing step, a wrong order or a missing guard.

## Fairness

- Goroutines that can run do run (weak fairness of reload steps, of the log
  worker, of the sinks, of `main`'s deferred calls): the Go scheduler promises
  that, and none of these steps waits for something the model leaves out, except
  for calls to databases and backends, which have timeouts or fail.
- A subscriber goroutine receives what is delivered to it. Messages need not be
  delivered.
- Neither requests, signals nor administrators have to come. The one exception is
  `PersistentOffenderIsRuled`, whose premise is an address that keeps attacking
  (`PersistentAttack`, strong fairness of `Stopped(ip, "critical")`).
- A judgment of a network ends (`FairScore`: the service answers or its client times
  out), the worker of threat intelligence goes on (`FairIntel`: its fetches time out),
  and the reporter, restarted by its supervisor, goes on too (`FairReports`).
- Time passes (`Tick`, `CooldownEnds`) and tickers fire (`Sweep`, `StartRound`).
- `StopChecks` has strong fairness: the goroutine looks at its channel between
  rounds, and Go's `select` picks a ready case at random, so it cannot prefer the
  ticker forever.

## Proofs

TLAPS checks these for every value of the constants: every property of the runs
that is not liveness is a theorem. Where a property is about one component the
theorem is about the specification of that component's module. Those of `engines`
and `jobs` are about each machine under its own specification, too; only
`SettingsInForce`, which is about four machines, is proved of `MCEngines`' `Spec`.

Most invariants are of one of four kinds, named so that they can be recognised:

- *Alone*: "once nobody changes it, the copy is what the table says, unless two changes
  met" is not inductive, because the clearing of that excuse by a change that ran alone is
  part of it. The invariant says of every caller that counts as alone that it
  is the only one and that what it has read is what the table says, and that as
  long as nothing is behind every caller counts as alone (`RulesAlone`, `SavesAlone`,
  `GeoAlone`, `AloneInForce`, `AloneInForms`, `AloneInReloads`, `InOrder`).
- *Lines*: what is stored, in hand, queued and to come follow one another
  (`TableInOrder`, `MirrorInOrder`, `PostsInOrder`, `FilesInOrder`, `RowsLineUp`).
- *Still true*: a check that was made is true when it is used, as long as the accident
  that is on record has not happened (`OneSaver`, `NamesApart`, `BlankForms`, `Unspent`).
- *Aged together*: two ages that a step of time keeps equal (`JobsMarked`,
  `MarkersLast`, `Remembered`, `CachesBacked`).

`IPRulesProofs` (`Blocklist`, `Autoban`)

- `TypeCorrect`: `Spec => []TypeOK`.
- `StaleOnlyByAccidentHolds`: `Spec => []StaleOnlyByAccident`. The property alone is
  not inductive. `Inv` adds that only subscribed nodes have messages or a busy
  subscriber (`SubscriberOnly`), and that a subscriber about to install an
  old copy has another message waiting, or a handler that has yet to publish
  is on its way, or the refresh was lost (`OldCopyIsCorrected`). The first makes
  sure that a message counts as a refresh of its node, the second that a
  subscriber which is overtaken is corrected later.
- `ConvergedWhenQuietHolds`: `Spec => []ConvergedWhenQuiet`, from the same
  invariant: when nothing is in progress, nobody is `Pending`.
- `OneBanAtATimeHolds`: `SpecBan => []OneBanAtATime`. The invariant `BanInv` adds
  that every goroutine at work on an address has a marker behind it which was
  set when the ban was decided and has not reached its lifetime (`JobsMarked`).
  A marker and the time since the ban was decided then age together: `Tick` keeps
  them equal, `Sweep` drops only markers older than any running job, `RecordBan`
  needs an address without a marker.
- `NoOffenceCountsTwiceHolds`: `SpecBan => []NoOffenceCountsTwice`. `PastInv` says that an
  address banned less than a marker's life ago still has its marker (`MarkersLast`), so
  that the rows of before the ban, which are no older than that when they are
  recorded, are ignored; and that whatever an address has on record is of after its last ban, or
  older than any window (`Forgotten`). What pruning leaves of a sequence of events is
  computed by a recursive function; that its result keeps the order and the ages
  is shown by a smallest counterexample.

Assumed: `BlocklistAssumption` (handlers and nodes are different, every handler
runs on some node); `AutobanAssumption`, in particular that some window is longer than the
life of a marker, and through the guard of `Tick` that a ban goroutine ends
within that life.

`LogPipelineProofs`

- `AcceptedRowsAreWrittenHolds`: `SpecPipeline => []AcceptedRowsAreWritten`, and
- `MirrorsTheTableHolds`: `SpecPipeline => Mirror`'s specification under the mapping
  above. The invariant `IInv` lines up every place a row can be in: what is
  stored, the worker's row, the queue, in this order and increasing
  (`TableInOrder`); what is shipped, the batch, the sink's queue, the worker's
  row if it is to be pushed yet, of which all but the last are stored
  (`MirrorInOrder`); and every row offered is waiting, stored or refused, by a full
  queue or a failed insert (`Accounted`). The lemmas `Appended`, `Joined` and `Taken` say what the
  operations on queues do to such lines.
- `SinksFollowTheDatabaseHolds`, `LogKeepsNewestHolds`: `SpecPipeline => []` of either.
  `SinkInv` has the line of the webhook (`PostsInOrder`), that an older file holds
  older rows, also when a rotation went half way (`FilesInOrder`), and for rotations
  without a fault which rows each file holds by its place (`LinesInPlace`). What the files
  read together is again a recursive function (`ChainUpTo`), and again by a
  smallest counterexample.

Assumed: `LogPipelineAssumption`, `AccessLogAssumption`, `WarehouseAssumption` (bounds are
numbers, queues and files hold something).

`BackendsProofs`

- `SentAtMostTwiceHolds`: `Spec => []SentAtMostTwice`. The invariant `RetryInv` says
  that a request waiting for a backend was sent at most once, and if it was, is
  safe to repeat; every step that is not the request's own leaves it alone.
- `InstalledTogetherHolds`: `Spec => []InstalledTogether`. `ReloadInv` says that every pool is
  checked under a stop channel of its own, that one whose checks run on has been
  told to stop or is the last, and that a pool a `Reload` still holds has not
  been checked yet (`ChecksApart`); and of the reloads what *alone* says above (`InOrder`).
- `BadGatewayOnlyAfterRetryHolds`: `Spec => BadGatewayOnlyAfterRetry`. `TriedInv` says that a
  request that waits for its second backend has failed at one of its pool, and
  that one that was sent twice was sent to two.

Assumed: `BackendsAssumption`, in particular that a service has a backend and
finitely many.

`CacheRouteProofs`

- `TypeCorrect`: `Spec => []TypeOK`.
- `CacheFollowsRegistryHolds`: `Spec => []CacheFollowsRegistry`. That an object is of
  the service's backend is not inductive: the service may be taken off the cache,
  re-pointed without a purge, since it is not cached, and put back. The
  invariant says that an object is of the backend of a service that is still
  cached, or excused (`ObjectCurrent`), and the same of every fetch
  (`FetchesCurrent`). `Install` either keeps that or has a purge on its way.
- `AnsweredByItsServiceHolds`: `Spec => []AnsweredByItsService`, since a request
  remembers the backend of its service at every moment (`Remembered`).

Assumed: `CacheRouteAssumption`.

`RateLimitProofs`

- `MemoryBoundHolds`: `Spec => []MemoryBound`. What was granted since some time and
  what the bucket holds now are not related by the property itself. `IInv` sees a
  bucket as a line, tokens + rate * (s - last) over all times s: a refill, be
  the elapsed time negative or not, moves along the line, the cap and every grant
  lower it. So what was granted at s or later and the line at s together stay within the
  burst (`EverySpentIsOnTheLine`). An evicted bucket has no line; by then what it
  granted is less than what an idle time refills. `EveryBucketIsSound` keeps every
  bucket, be it in memory, in a snapshot or in the table, from lying too far
  below empty, and `CountsAreOrdered` reduces windows to those that last until now.
  Assumed beside the next: the two conditions on the constants above.
- `RetryAfterNearlyHonouredHolds`: `Spec => RetryAfterNearlyHonoured`. A promise is a point
  the line of the bucket reaches: as long as nobody else's request moved the bucket, its
  line at any time after the promised one is worth a token (`PromisesKept`), since the
  header takes less than a second off; however late the calls came and however the
  scales differ. It needs neither of the two conditions.

Assumed: `BucketAssumption`, `RateLimitAssumption`.

`EnginesProofs` (`Challenge`, `WafRules`, `VerdictCache`, `GeoRules`, `Hosts`, `LiveLog`)

- `WafRuleIds`: `SpecWafRules => []OnlyRacesRepeatIds`. The check of a save is true when
  it is made; that it is still true at the write is what the proof is about. `IdsInv`
  says that, as long as no two saves overlapped, there is one save at most and
  the id it is about to write belongs to no other row. Every other step adds no row
  and changes no id (`FewerSavers`).
- `NonceOncePerWindow`: `SpecChallenge => []OncePerWindow`. `GateInv` adds that a nonce
  redeemed in time is remembered by the Challenger that redeemed it until it
  expires (`Remembered`): the sweep removes expired ones only, a save builds a new
  Challenger and leaves the old ones as they are, and a nonce whose solution was posted is
  never issued again.
- `SolvedIsAdmitted`: `SpecChallenge => SolvedStaysAdmitted`. `KeyInv`: the secret is stored
  before the first Challenger exists, every start reads the same one, and the
  cookie was made with it.
- `Verdicts`: `SpecVerdicts => []VerdictsAreSound`. `VerdictInv` says that every entry of a cache is a
  verdict of its engine that was given to somebody, and runs out a lifetime
  after that (`CachesBacked`); evictions and swaps of the engine only remove entries.
- `Names`: `SpecHosts => []NamesAreSound`. `HostInv`: no key is given twice (`KeysOnce`), what a
  handler has validated and not written stays free (`NamesApart`), a service
  redirects to a name of its own but between the two writes of a change
  (`TargetsKept`), and *alone* for the registry (`AloneInForce`).
- `InForce`: `Spec => []SettingsInForce`, the *alone* invariants of challenge, rules, geo and
  hosts, with `BuiltEngines`: the default engine and the service's are of one build, and
  `SignedInv`, what of nonces the types need. `EnginesInv` conjoins what
  each machine keeps.
- `Streams`: `SpecLive => []StreamsTell`. `LiveInv`: rows wait in the order of their requests
  (`RowsLineUp`); a channel of the set is open, holds stored rows, none twice and none
  still to be sent (`ChannelsSound`); every row of the view's hour is counted once,
  lost for a reason, or to be sent (`ViewSound`); the badge, or the count on its way to
  it, is what the table says, unless rows are on their way (`BellSound`).

Assumed: `RowNosAssumption` (0 is no row), `ChallengeAssumption`, `VerdictsAssumption`,
`HostsAssumption`, `LiveAssumption`.

`SignInProofs`

- `OneSession`: `Spec => []OneLiveSession`. `SessionInv` adds what a login knows between
  its `UPDATE` and its `INSERT`: every session alive was inserted after that
  `UPDATE` (`Inserting`). Every other step of every other request revokes or deletes
  sessions, or inserts one with a higher number.
- `FailuresCountHolds`: `Spec => FailuresCount`. `LimitInv` adds that a lock in force began
  no earlier than any moment at which a request that passed the limiter was let in, and
  which steps a request can be at before it has reported a failure or a
  complete login. So a lock that ends early is ended by a request of before.
- `TypeCorrect`: `Spec => []TypeOK`. Logins, changes of the password and requests are
  numbered below bounds that nothing checks but the number of requests: `CountInv`
  counts the requests that wait for a number, `KnownInv` says that every login a request or
  a row names has begun.
- `OldPassword`: `Spec => []OldPasswordEnds`. `PasswordInv`: a login whose password was
  another one than now began before the last deletion of sessions, or that deletion is
  still to come or failed; a row keeps its number and its login.
- `Factors`: `Spec => []FactorsHold`. `FactorInv` says of a login past its password
  that a factor it was not asked for was enabled only since, or could not be read
  (`Asked`), and of a confirmation which secret its code was made with (`Confirmed`).
- `CodesOnce`: `Spec => []CodesWorkOnce`. `EnrollInv` and `MailInv` keep codes apart:
  a code is of one enrollment or one mail. `OnceInv` says that a code that was
  accepted and is not spent yet has not been spent before (`Unspent`), unless
  another check of codes overlapped, a write failed, or the counter was forgotten.

`AccountInv` conjoins the ten. Assumed: `LimiterAssumption`, `SignInAssumption`.

`JobsProofs` (`ThreatScore`, `ThreatIntel`, `Migration`, `Reports`)

- `ScoreFollows`: `SpecScore => []ScoreFollowsKey`, and `BlankKeeps`: `SpecScore =>
  BlankKeepsKey`. `ScoreInv`: unless the last reload crossed a judgment, whoever is under
  judgment is marked and is judged with the key in use (`JudgedOnce`); *alone* for the
  forms (`AloneInForms`); a blank field holds the key that is stored (`BlankForms`).
- `IntelIsCurrentHolds`: `SpecIntel => IntelIsCurrent`. `IntelInv`: nothing is newer than what was
  published, a list that only one caller holds is no older than the stored
  one (`SyncsApart`), and *alone* for the reloads (`AloneInReloads`).
- `MovesWholeHolds`: `SpecMigration => MovesWhole`. Only the last step of a run reports success
  (`OnlyTheLastStepMoves`). Until then `MoveInv` says which tables of a target that was
  empty have their rows and which have none (`FilledSoFar`); that these rows are those of the live
  database, if the run was alone (`SameSoFar`); and that the next id of a live
  database, and of a target once it is filled, is above every row's (`NumbersFollow`),
  which takes the step that sets the sequences of Postgres, and the rows' own ids
  elsewhere. That a finite set of ids has a highest one is shown by its smallest bound.
- `SecretsStayReadableHolds`: `SpecMigration => SecretsStayReadable`. Nothing in the target is sealed
  until a process starts on it (`OpenInTarget`), and that start seals with its own key.
- `OneReportPerDayHolds`: `SpecReports => [](TypeOKReports /\ OneReportPerDay)`, the safety half of
  `ReportedOnce`. `ReportsInv`: the day under report is after the last one marked, once
  the mark was read (`NeverBackwards`); a day that was mailed is marked, or a later one is, or
  it is about to be, or the reporter was told that the mail had failed (`MailedIsMarked`).

Assumed: `ScoreAssumption`, `IntelAssumption`, `MigrationAssumption`, `ReportsAssumption`.

Only model-checked: liveness, which is out of the provers' reach, that is `Settles`,
`PersistentOffenderIsRuled`, `StandingBlockIsEnforced`, `ShutdownCompletes`, `RecoveredBackendReturns`,
`LastWordIsTheActiveOnes`, `NoDayIsSkipped` (the other half of `ReportedOnce`) and
`WorkEnds`; and the two properties that are expected to fail.

What the attempts to prove showed, each then changed in the model:

- `Hosts` gave a removed service's key to the next one, which SQLite's
  `AUTOINCREMENT` does not (`lastId`); and names come back in a way of their own: an
  update that got no further than `UpdateService` leaves the other names in the
  row, where `ValidateHosts` does not see them while the service has no host; a later
  update that gives it one brings them back unchecked, though another service
  may have them by now (`revived`, `api.go:358-361`, `db.go:816`).
- `CodesWorkOnce` needed one more excuse: a pending secret that is confirmed twice brings a
  disabled one back into force, with its counter forgotten.
- `SUBSET S \ T` is `SUBSET (S \ T)`. Written so, an assumption let a service have no
  backend, and a failed rotation of the access log could have renamed every file.

## Findings

The code disagrees with its own comments in two places which a run shows.

- `backend_stranded`: a backend marked out by an active check stays out when the health
  path is removed (`registry.go:271`, against the comment on `passiveCooldown`).
- `keys_lose_scope`: a move to another database makes an API key that may only read
  one that may write (`migrate_backend.go:319`, against `migrate_backend.go:23`).

The modules also state claims of comments that TLC refutes on small instances;
no run is spent on them. To see one, check it instead of the properties of the
run named.

| Claim | Run | What happens |
|---|---|---|
| `TakesEffectHere` (`ip.go`, on `Reload`) | `blocklist_cluster` | of two overlapping reloads the one that read the older rules may install last |
| `AdminRuleWins` (`autoban.go:23` and `db.go:415`, "never overwritten") | `autoban` | a ban replaces an admin's rule written between its look-up and its write |
| `RequestsAreDrained` (`main.go:766`) | `log_pipeline` | the process does not wait for requests in flight |
| `RedisBound` (`redis.go`, on `RedisBackend`) | `rate_limit`, five requests | the script refills twice for the same ticks when calls reach it in another order than they read the clock |
| `BackupCodesWorkOnce` (`db.go`, on `ConsumeTOTPBackupCode`) | `sign_in` | two requests read the list before either removes the code |
| `OneCookiePerNonce` (`challenge.go`, on `markNonceUsed`) | `engines` | settings that are saved, or a restart, forget the used nonces within the window; and a nonce checked in time and marked late may be swept in between |
| `RuleIdsUnique` (`customrules.go:146`) | `engines` | two saves check the same id before either writes; from then on every rebuild and the next start fail |
| `CacheOfThisKey` (`threatscore.go`, on `ReloadTypeSafeConfig`) | `jobs` | a judgment asked with the old key is stored after the cache was cleared |
| `ListedFromItsSource` (`db.go`, on `ListThreatIntelIPs`) | `jobs` | a source is deleted and its sync stores its list again: the rows stay, and belong to whatever gets that id |
| `SecondRunKeeps` (`main.go`, on `MigrateDBConfig`) | `jobs` | a second run fails on the first table with rows, after it has overwritten the settings |

Found while modelling, each by the order of a few statements:

- A rotation whose reopen fails loses the line that triggered it, and all later
  ones (`writer.go:175`, against the comment in `Push`).
- The access log is closed, and the warehouse stopped, before the log queue is
  drained (`main.go:400`, against the comment above it), so rows queued when the
  signal comes reach only the database.
- An API update of a service that is refused late has already written the names
  (`api.go:358`), and nothing is reloaded: the registry's list, against which names
  are validated, is stale until the next reload, and another service may take the
  same name. Of two services with one name the index prefers the first and the
  certificates the last (`registry.go:333-338`).
- `sanitizeHost` keeps a port that is not the default one "because they're meaningful
  for matching" (`handlers.go:1778`); `Match` strips the port of the request, so such
  a service never matches.
- A mark of the alerts clears the badge whatever the answer was (`notify.js:39`), also
  when the mark was not stored; and a blocked request that is still in the log
  queue when the admin marks them is never counted as unread, since its timestamp
  is older.
- `SaveTypeSafeSettings` with a blank key wipes the stored one if it cannot be read, and
  so does `SaveEmailSettings` with the token (`handlers.go:3031`), though "re-saving other
  fields never wipes the credential" (`handlers.go:3028`).
- A client that is refused is told the wait without its part of a second
  (`proxy/handler.go:386` and `:402`): one that needs 2.5 s is told 2, and refused again
  if it comes back at once.
- `Send` returns an error for a report that the mail server took, if the answer to the
  end of the data or to `QUIT` is lost (`mailer.go:93-96`): the day stays unmarked, and a
  restart on the same day mails it again (`reporter.go:28-30` says a restart
  does not duplicate a report). `OneReportPerDay` allows for it in `again`.
- `AddGeoRule` and `DeleteGeoRule` drop the error of their second read: the scorer
  then knows no risk country until the next change.
- A pending login that has passed the password survives a change of that
  password; `OldPasswordEnds` allows for it.
- Two logins at once may leave two live sessions (`db.go:2249` says one):
  `OneLiveSession` says exactly when.
- A daily report that fails is not tried again at the next midnight, as
  `reporter.go:96` says, but skipped: the next run reports the next day. One that
  runs over midnight lets the following day be skipped.
- A move to another database leaves out passkeys.

## Plan

Done, in this order: `Blocklist` and its proofs, `Autoban`, the log pipeline,
`Backends`, the first theorems about `Autoban` and `Backends`, `RateLimit` and the
bound on its grants, the refinement of `Mirror`, `CacheRoute` and its proofs; then
`SignIn`, `Challenge`, `WafRules`, `VerdictCache`, `GeoRules`, `ThreatScore`,
`ThreatIntel`, `Migration`, `Reports`, `Hosts` and `LiveLog`; then the
proofs of `WafRules`, `Challenge` and `SignIn` and the second theorem of `Autoban`; then
the proofs of every safety property that was only model-checked.

Next, by importance:

1. Theorems: the types of the machines in `engines` and `jobs` that no property names yet; what the
   copies have in common, once 2 is there; the lemmas on queues and lines
   gathered in one module of their own.
2. `LiveCopies`: an abstract specification of "a copy refreshed from a table",
   which the reload of IP rules, services, WAF engines, geo rules and settings
   refine, with their differences as constants; `Blocklist` first, by a refinement
   mapping (`view` as the copy).
3. The order of the checks of a request as a whole, on top of `CacheRoute`, with the
   copies it reads being replaced; per-service limiters and certificates.
4. Schema versions and the retention of rows, with the pruning that competes with
   the log worker for the database.

## Not modelled

- The rule engine (Coraza, a library), HTTP/3, ACME, Varnish, Redis and the
  databases: what the code relies on is an action or a nondeterministic result.
- Matching of addresses, prefixes and fingerprints; the sum of the signals of the
  threat score and its decay; parsing and formatting; templates; statistics;
  validation of forms; cryptography: no interleaving, and covered by unit tests.
- Schema versions and retention; certificates and their renewal; compression; the
  periodic snapshots of the warehouse.
- `deploy/`, `tools/` and the scripts of the admin pages but for the Stats view and
  the bell: not part of the running program.

`PROJECT.json` gives the status of each component and the lines each definition
translates.
