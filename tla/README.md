# Fishymetrics in TLA+

Fishymetrics answers Prometheus scrapes of baseboard management controllers
(BMCs).  This directory models what in it depends on the order of events or on
what a BMC happens to answer: what concurrent scrapes do to the state they
share, how credentials are refreshed, which resources a scrape discovers and
which tasks it makes of them, how the tasks are run and their results turned
into metrics, who holds connections and sessions, and how the vault token is
kept and given up.  TLC checks the models on small instances; TLAPS proves
the safety properties that hold for every instance.

Paths below are relative to the repository (`src/` here).

## 1. The system

| Component | State it keeps | Operations | What makes it correct |
|---|---|---|---|
| worker pool (`pool/`) | task list, channel, WaitGroup, results in the tasks | `NewPool`, `AddTask`, `Run`, `work`, `Task.Run` | when `Run` returns every task has run once and stored its result; nothing blocks, panics or leaks |
| fetch (`common/util.go`) | retry count and responses of one call | the closure of `Fetch`, `BuildRequest`, `DoRequest` | ends for every sequence of responses; says "invalid credential" only of credentials that are current; leaves no connection taken |
| credential cache (`common/credentials.go`) | `ChassisCreds.Creds`, `ExtraParamsAliases` | `Get`, `Set`, delete, `GetCredentials` | holds the target's own, current credential |
| scrape handlers (`http/handlers/scrape.go`) | local | full and partial scrape | the scrape uses the credentials it provided for |
| credentials script (`credentials_script.go`) | process and capped output | `credentialsFromScript` | ends in time, yields a credential or an error |
| exporter (`exporter/exporter.go`, `partial_exporter.go`) | `Exporter` of one request: pool, metrics | `NewExporter`, `NewPartialExporter`, `Collect`, `scrape` | never runs without a pool; both kinds make the same tasks; the metric `up` tells what happened |
| discovery (`exporter/helpers.go`) | endpoint lists | `getSystemEndpoints`, `getAllDriveEndpoints`, ... | every endpoint once, none lost |
| metric handlers (`exporter/handlers.go`) | gauges | one per kind of resource | what is broken is shown as broken, what is OK has said so |
| ignored list (`common/ignored.go`) | `IgnoredDevices` | added to by exporters; `TestConn`, `RemoveHost` | a rejected host is left alone until an operator intervenes |
| vault token (`vault/vault.go`) | login flag, token | `RenewToken`, `manageTokenLifecycle`, `wait`, `GetKVSecret` | logged in whenever possible; token revoked at the end |
| start and shutdown (`cmd/fishymetrics/main.go`) | channels, WaitGroup | signal handling | a signal ends the process, and only after all work is done |
| HTTP client (`exporter/httpclient.go`) | connection pool | `NewHTTPClient` | retries, one connection per host |
| moonshot exporter (`exporter/moonshot/`) | as exporter | its own `fetch`, `scrape`, handlers | as exporter |
| nuova plugin (`plugins/nuova/`) | session cookie | login, query, logout | every session is closed |
| OEM types (`oem/`) | - | JSON structures; unmarshallers that decide something | - |
| config, logger, middleware, templates, build info | - | data and output | - |

How they interact.  One goroutine serves one request: the handler writes the
global aliases, stores credentials in the shared cache, makes an exporter and
lets the Prometheus registry call `Collect`, which runs the pool.  Making the
exporter calls the BMC again and again through `Fetch`: for the chassis, their
links, the drives behind the controllers; each endpoint found becomes a task,
and plugins may add tasks.  A task is a `Fetch` closure, whose body `scrape`
hands to the task's metric handlers.  `Fetch` reads, deletes and rewrites the
cache.  The exporters and the operator's page share the ignored list.
`GetCredentials` needs the vault's token, which `RenewToken` keeps; `main`
connects server, signals, renewal and token manager by channels of capacity
one and a WaitGroup.

What is hard: there is no lock across two accesses to the cache and none at all
around the list and the aliases; the list is looked at twice in one request;
credentials rotate on the BMC and in the vault at different times; retries are
nested (library, 404 loop, 401 refresh, re-login) over one connection; shutdown
races with login; one variable takes the bodies of many resources in a row
(chassis, firmware, the `state` of a handler), so that what one leaves behind
can show in the next; a series is overwritten by the next one with its labels.
`PROJECT.json` lists each of these hazards with its line and the properties
that would notice it going wrong.

## 2. The modules

| Module | Models | Source |
|---|---|---|
| `PoolSpec` | what a pool promises: every task runs once between start and return | `pool/pool.go`, `pool/task.go` |
| `Pool` | goroutine of `Run`, workers, unbuffered channel, WaitGroup | the same |
| `Collector` (extends `Pool`) | `scrape`'s loop over tasks and handlers, `up` | `exporter/exporter.go` |
| `Fetch` | one call of `Fetch` per scraper, the cache, the global aliases; external: vault, BMC, rotations | `common/util.go`, `common/credentials.go` |
| `Scrape` (extends `Fetch`) | handlers, `NewExporter`, `NewPartialExporter`, `Collect`, `scrape`, ignored list, operator, panic and restart | `http/handlers`, `exporter`, `common/ignored.go` |
| `Calls` | the same closure and the moonshot's `fetch` once more: responses, their bodies, the one connection; the moonshot's `scrape` | `common/util.go`, `exporter/moonshot`, `exporter/httpclient.go` |
| `Endpoints` | URLs, `appendSlash`, `checkUnique` | `exporter/helpers.go` |
| `SystemEndpoints` | `getSystemEndpoints` over the chassis of a BMC | `exporter/helpers.go`, `oem/chassis.go` |
| `DriveEndpoints` | `getAllDriveEndpoints` over the controllers of a server | `exporter/helpers.go`, `oem/drive.go` |
| `Discovery` | a call of either, for the runs and proofs | - |
| `Tasks` | which tasks `NewExporter` and `NewPartialExporter` make | `exporter/exporter.go`, `exporter/partial_exporter.go`, `exporter/helpers.go` |
| `Handlers` | the status series that the bodies of a scrape set | `exporter/handlers.go`, `oem/firmware.go`, `exporter/moonshot`, `plugins/nuova/handlers.go` |
| `Nuova` | `Apply`, `checkRaidController`, `FetchXML`; external: the device's sessions | `plugins/nuova` |
| `VaultToken` | renewal, token manager, server, shutdown, `main` | `vault/vault.go`, `cmd/fishymetrics/main.go` |
| `PoolProofs` (of `Pool` and `Collector`), `ScrapeProofs`, `CallsProofs`, `DiscoveryProofs`, `TasksProofs`, `HandlersProofs`, `NuovaProofs`, `VaultTokenProofs` | theorems | - |
| `MCCollector`, `MCScrape`, `MCCalls`, `MCDiscovery`, `MCTasks`, `MCHandlers`, `MCNuova`, `MCVaultToken` | instances for TLC | - |

### State and actions

*Pool.*  `runner`, `worker` and `held` are the program counters and the local
variable of the goroutines; `wg`, `closed` and `next` are the WaitGroup, the
channel and the loop of `Run`.  A rendezvous on the unbuffered channel is one
step (`Handover`).  Everything else that another goroutine can observe is a
step of its own.  `MoonshotPool` is the same code.

*Collector.*  When `Run` has returned (`BeginScan`), the loop takes the tasks
in order.  `TaskErr` is the early return for a task's error, which may be
rejected credentials.  `Handle` is one handler, whose error replaces that of the
handler before it in `err`; `Handled` lowers `state` if the last one failed.
`failed` keeps what the code does not: which handlers failed.

*Fetch.*  A credential is a number that grows with each rotation; 0 is the
static configuration, `Foreign` the credential of another device.  A call is
cut where the code takes the cache's lock (`Build`, `DeleteCached`,
`SetRefreshed`, `Rebuild`), asks the vault (`Refresh`) or waits for the BMC
(`Respond`, `Retry404`, `Redo`).  The BMC accepts one credential and may answer
404, 401, another status or not at all.  A rotation changes BMC and vault in
two steps, in either order, so that the vault may lag or lead by one.  The
vault path depends on the alias of the URL.  `sources` says which of vault and
script the process was started with; it is a variable, so that one run can look
at several kinds of process, and no step changes it.  The retries inside go-retryablehttp
are one outcome, `failed`.

*Scrape.*  `spc` is the place in the handler.  A full scrape publishes its
aliases, a partial one does not.  Script or vault provide credentials.
`New` looks at the ignored list (full scrapes only); `ChassisAnswered` is the
first BMC call, after which rejected credentials put the host on the list and
leave the exporter without a pool; `DiscoverAnswered` is all other discovery
calls in one, which `Tasks` takes apart.  `Collect` looks at the list again.
`RunTask` and `TaskAnswered` run the tasks in order with one worker, as `Pool`
allows with concurrency 1 (`RunsInOrder`); `Scan` evaluates them.  Hosts and
targets are not told apart: the code keys the cache by the `target` parameter
and the list by its host name, which are equal for targets without scheme and
port.  `Restart` loses everything in memory.

*Calls.*  One worker runs the tasks one after the other.  `resp` is the status
of the last response, `conn` whether an unread body keeps the transport's only
connection, `cut` whether the timer of that request has closed it
(`Timer`).  A request (`Answered`, `NotAnswered`) needs a free connection; the
attempts of the retrying client, which drains what it does not return, are one
step.  `Retry404` leaves the response before it open, `Refresh` closes it for
`Fetch` and not for the moonshot.  `Return` stands for the deferred
`EmptyAndCloseBody` of all responses.  `Failed` has the moonshot's use of a nil
response, which ends the process.  `Export`, `Drain` and `Report` are the
moonshot's channel of results.  A status of 500 and above never arrives: the
retrying client makes an error of it.

*SystemEndpoints and DriveEndpoints.*  A URL is a path and whether it ends in a
slash.  A chassis is what its body says of each of the twelve places that the
function walks; a link can be absent, a list or object whose members the
unmarshaller appends, or a list of strings that replaces.  `chas` is the one
variable that takes all bodies, so that a field a body lacks keeps what it
held (`Decode`).  Each turn of each loop is a step, in the order of the code.
For drives each call to the BMC is a step and may fail.

*Tasks.*  A BMC is the number of resources behind each link.  `stage` goes
through the groups of calls; any of them may fail (`StageFails`), and for DIMMs,
processors and the firmware inventory the partial exporter goes on
(`CollectionFails`).  `made` keeps the task list of the full scrape for the
partial one that follows.  Tasks are the names of what they ask for; their
order is the order of the list.  `InventoryLimit` is the 75 of the code, smaller
in the run.

*Handlers.*  A body is a sequence of members with the fields the handlers look
at; `series` maps labels to values.  `state` is the variable that all loops of
a handler share, `fw` the one that all components of an inventory are
unmarshalled into.  Each handler is an operator that says what a member sets.

*Nuova.*  A scrape goes from `checkRaidController` to login, query and deferred
logout.  `open` and `created` belong to the device, whose sessions are limited
and may expire.  A request or its answer may be lost and is then sent again, up
to the client's attempts, so that one login can leave several sessions behind.

*VaultToken.*  `rpc` is the goroutine of `RenewToken`, which runs the token
manager itself; `waiting` counts sleeping `wait` goroutines; `mpc` is the
shutdown goroutine; each channel is the number of messages in it.  `token` is
what the client's token is worth to the vault.  The deferred calls of
`manageTokenLifecycle` are steps in their order: revoke, then `wg.Done`.  When
`wg` is zero `main` returns and no step is possible.

Definitions marked as mutants are wrong on purpose.  No specification uses
them; each replaces one definition to show that the property it is paired
with in `PROJECT.json` can fail.

## 3. What is checked

| Run | Instance | Shows |
|---|---|---|
| `pool` | 2 workers, 0..4 tasks, 1..2 handlers | the loop reads only stored results; order; `up` explained in both directions; what a failed scrape exports; no leak; `up` is always reported; refinement of `PoolSpec` |
| `scrape_one` | 1 scraper, 2 rotations, 404 retry on, partial scrapes, 2 tasks | requests end; the cache converges after the last rotation |
| `scrape_shared` | 2 scrapers of 1 target, full and partial scrapes, operator, crash and restart; a vault or a script | "invalid" only after a refresh; with a script every request carries what it gave, and the cache converges to what it gives now |
| `calls` | 3 tasks, redfish and moonshot, with and without vault and 404 retry | who waits for the connection and why; what a body and the moonshot's `up` stand for; every scrape ends |
| `discovery` | 0..2 chassis with links in 1 or 2 of 12 slots in every form; 0..2 controllers; 2 paths, one of them excluded, with and without slash | nothing twice, nothing made up, nothing lost, each with the exceptions the code has |
| `tasks` | two servers with one or two facts changed, 10 requests, both exclude patterns on and off, any call failing | a task for each resource asked for, or none for DIMMs or processors that a partial scrape could not read; partial and full scrape agree; drives are not missed |
| `metrics` | bodies of 2 or 3 members of each kind over 2 labels; scrapes of 1 to 3 bodies | alarms are shown; OK has a reason; complete firmware components are shown with their own name and version |
| `nuova` | 2 overlapping scrapes, a limit of 2 sessions, 4 sessions in all, 3 attempts | no session forgotten; no foreign logout; scrapes end |
| `token` | tokens renewable or not, a server that may fail | `main` does not return with a live token; one login attempt at a time; login is retried; a signal stops the renewal |

The other runs expect a violation.  Each of their properties is what a comment, a
document or the change log of the repository says; the counterexample is what
the code does.

| Run | Property | Counterexample, shortly |
|---|---|---|
| `nil_pool` | `NeverCrashes` | the host is ignored when the exporter is made, removed by the operator, and `Collect` runs a nil pool |
| `token_regained` | `TokenRegained` | after the token's last renewal nothing logs in again |
| `shutdown` | `ShutdownCompletes` | a login that succeeds just after the shutdown has asked `IsLoggedIn` starts a watcher that is not told to stop |

Further statements that the code does not keep have a configuration each, to be
run by hand (`tlc -config MCExcluded.cfg MCDiscovery`):

| Configuration | Module | Property | Counterexample, shortly |
|---|---|---|---|
| `MCRetryOverwritten` | `MCScrape` | `RetryUsesRefreshed` (util.go:90) | two scrapes of one target: one clears the cache between the other's refresh and its retry, which then goes out with the static user |
| `MCForeignSecret` | `MCScrape` | `CacheHoldsOwnSecret` (docs/url-extra-params.md:26) | the aliases of a URL are global: a refresh reads the vault path of the request that came last |
| `MCExcluded` | `MCDiscovery` | `ExcludedLeftOut` (README.md:50) | a drive that matches the exclude pattern is scraped because a controller links it |
| `MCHandlerMasked` | `MCCollector` | `UpMeansSuccessful` (metrics.go:39) | `up` is 1 although a handler failed that was not its task's last |
| `MCMoonshotPanic` | `MCCalls` | `NeverPanics` (CHANGELOG.md:174) | the moonshot's retry after a 401 gets no answer and uses the nil response |
| `MCMoonshotRejected` | `MCCalls` | `RejectedIgnored` (moonshot/exporter.go:254) | no call of the moonshot's `fetch` reports rejected credentials, so the host is never ignored |
| `MCMoonshotUp` | `MCCalls` | `UpMeansAnswered` (moonshot/metrics.go:39) | the moonshot's retry after a 401 takes the body of any answer |
| `MCLateLogin` | `MCVaultToken` | `ShutdownCompletes` | the cause found by `shutdown`, alone: renewable tokens only, and a server that does not fail |
| `MCNotRenewable` | `MCVaultToken` | `ShutdownCompletes` | a token that is not renewable leaves the WaitGroup one too high |
| `MCServeBlocked` | `MCVaultToken` | `ShutdownCompletes` | a server that fails while a second signal fills the channel blocks on its send, even where every token's lifetime ends (`MaxTTLSpec`) |

None of these properties is a theorem, with or without a condition: what keeps
them from holding is allowed by the code.  `CredentialsConverge` is checked with
one scraper, that is, for scrapes of a target that follow one another.  Of two
that overlap each may clear, with a 401 to the static user, what the other has
just refreshed: the race of `MCRetryOverwritten`, which can go on for ever.

### What the code does that a reader may not expect

Besides these, some properties hold only in the form they are stated in, with
the exceptions the code has.  They characterise these exceptions and would not
notice them getting worse within their limits:

* A 401 in a discovery call after the chassis fails the request with status
  500; the host is not put on the ignored list, unlike for the chassis call and
  the tasks.
* A request of the 404 loop, and the moonshot's retry after a 401, wait for a
  connection that their own call holds with an unread body, until the first
  request's timer cuts it (`WaitsOnlyOnItself`).
* After a retry with new credentials a 404 or 403 counts as a body for `Fetch`
  too (`BodyIsAnswer`).
* Only the first chassis with power or thermal links nested in `Links` or
  `links` has them collected (`NoneLost`).  Drives that a controller links, or
  shows without a last slash, may be listed twice (`TwiceOnlyIfUnslashed`).
* A full scrape takes virtual drives and a firmware inventory's members only
  where an exclude pattern is configured (`PartialAsFull`), and has a manager
  task even if every manager was rejected by name.
* A partial scrape reports `up` = 1 without DIMMs or processors that could not
  be listed (`WholeOrNothing`), and so for firmware (`PartialAsFull`).
* A component of a firmware inventory without a name or version is shown with
  those of one before it, even of one that was left out for a wrong type
  (`FirmwareOwnVersion`).
* All sensors of a moonshot's switch share one label, so that the last one
  decides (`AlarmsShown` allows exactly that: a later member with the same
  labels).

### Bounds

`MaxTasks`, `MaxHandlers`, `MaxCred`, `Concurrency`, `Tasks`, `MaxSessions`,
`InventoryLimit` and the sets of inputs are the bounds.  Four tasks and two
workers give every relation of "sent", "running", "done" between two workers
with a task to spare; two handlers are the least with a last one.  One
rotation (`MaxCred` = 2, as the first credential is 1) makes a cached credential
stale; `scrape_one` has two, of which the second can overtake a refresh after
the first, because convergence is about the last.  Two
scrapers are enough for the races, each of which is between one access pair and
one other request; with a script the second may overwrite what the first
has stored or see the host ignored by it.  `scrape_shared` has one task, as the second only repeats the
first, and the 404 loop is left to `scrape_one`, since it shares nothing between
scrapers.  In `calls` a task can be after one and before another, and the 404
loop has its real limit.  In `discovery` two chassis are the least that can
share or mask something, two links in different spellings the least that can
repeat; the paired slots are those whose lists are the same or whose one decides
about the other.  In `metrics` three members let one stand between two others.
In `nuova` four sessions let each of two logins be lost once.  `VaultToken` is
finite by itself.

### Deadlock

Deadlock is checked for the scrapes and for `nuova`.  It is not for the others,
which end: a scrape's goroutines, its calls, the discovery, the making of an
exporter, the bodies of a scrape, the process.  There liveness properties
(`UpReported`, `WorkersExit`, `CallsEnd`, `ShutdownStopsRenewal`) say what must
have happened before, or the property is about the end (`NoneLost`, `AllListed`,
`AlarmsShown`).

### Fairness

* `Pool`, `Collector`: weak fairness of `Run`, of every worker and of the loop:
  the Go scheduler is preemptive; a task's function ends because its HTTP calls
  have a timeout.
* `Scrape`: weak fairness of every scraper.  BMC, vault and script calls all
  have timeouts, so a waiting scraper always gets on, if only with an error.
  New requests keep coming, as Prometheus scrapes periodically.
* `FairSpec` (for `CredentialsConverge` and `ScriptConverges`): in addition a BMC
  asked again and again at some time answers 401 to wrong credentials, the vault
  at some time has the secret, the script at some time returns one, and a
  rotation begun is carried through.  Without these the cache may stay stale for
  good, and rightly so.
* `Calls`: weak fairness of the goroutine and of the timer (`HTTPClient.Timeout`
  is 30 seconds and covers reading the body).
* `Nuova`: weak fairness of every scrape; every request is answered or times
  out.
* `VaultToken`: weak fairness of every goroutine, and strong fairness of the
  stop case, since Go's `select` chooses at random among ready cases.
  No run that is expected to pass assumes more: that a token's watcher ends
  (`MaxTTLSpec`) is true of tokens with a maximum TTL only, and helps
  `token_regained` and `MCServeBlocked` to their point.

## 4. What is proved

All theorems hold for every value of the constants under the assumptions
declared in the modules: positive concurrency, natural bounds, `Unset` not a
result, `TargetOf` a function from scrapers to targets, flags Boolean, another
device's credential and `NoCred` different from the target's own, trees,
controllers, devices and bodies of their types, finitely many scrapers of a nuova
device and a session limit that is not below their number.

Type correctness is proved for every module and is not spent on TLC's runs; so are a few lemmas that read as properties
(`ReturnedMeansAllRan`, `WgCountsUnaccounted`, `ResultWrittenOnce`,
`WgCoversLive`, `LimitOnlyByLost`).

*Pool.*  The inductive invariant `IInv` adds to the types: who may hold which
task in which phase, that held tasks lie before `next` and are pairwise
different, that a task without result is still to be sent or held, and that
`wg` is the number of unaccounted tasks.  From it follow
`PoolReturnedMeansAllRan`, `PoolWgCountsUnaccounted` and, as an action
property, `PoolResultWrittenOnce`.  `PoolRunsInOrder` counts the tasks before
one that has run: the unfinished ones are held by other workers, one each.
`PoolRefinesPoolSpec` shows that each step maps to a step of `PoolSpec` or a
stutter, and `CollectorRefinesPoolSpec` that this is so in the composition that
the run checks.  None of the properties is inductive: `ReturnedMeansAllRan` needs the
count, and the count needs that no two workers hold one task.

*Collector.*  `CInv` says of the tasks before `task` that they are `ok` and
handled, of those after it that nothing was exported, and what `err` and
`state` remember.  That the pool does not move under the loop comes from
`PoolReturnedMeansAllRan` and `PoolResultWrittenOnce`; it gives
`CollectorScanReadsResults`, `CollectorUpExplained` and
`CollectorPartialSeries` for any number of tasks, workers and handlers.

*Scrape.*  `Inv` adds to the types that a call is under way only where the
exporter waits for one, and that from the refresh on a call holds a
credential.  It gives `ScrapeTypeOK` and `ScrapeInvalidOnlyAfterRefresh` for
any number of scrapers, operators and restarts.  `ScrapeScriptCredentialUsed`
has an invariant of its own, `ScriptInv`, where there is a script and no vault:
nothing clears the cache then but a restart, which ends all scrapes, and so from
the moment a scrape has stored the script's result until it ends there is an
entry for its target, be it its own or that of a scrape which came after.

*Calls.*  `Inv` joins the checked properties by three facts: what a call is
about and what it may read (`CallOK`), what the tasks have returned
(`OutcomeOK`), and that the moonshot's loops have a result for each task before
the one they are at (`ScrapeOK`).  The three safety properties of the run
follow, for any number of tasks and retries.  `BodyIsAnswer`, for one, needs
that a body is read only of a good answer or of the answer to a repeated
request, and that no other has the phase `auth`.

*Discovery.*  `EInv` adds that what `chas` holds was offered by a chassis read
so far, which is not obvious because a later chassis keeps the links of an
earlier one; `DInv` that calls and members still to come are the controller's.
`DiscoveryNoDuplicates`, `DiscoveryOnlyOffered` and
`DiscoveryTwiceOnlyIfUnslashed` hold for any trees.  That nothing is lost needs more, since a walk can lose a resource at any
point before its end.  `PlaceOK` says that the links of the slots behind the
walk are listed, as are those before the one at hand, that `chas` holds all that
the chassis at hand offers, and that whatever is listed comes from a slot the
walk has reached; the last is why nested links are passed over only after others
of their kind.  `WayOK` says of every drive of a controller that it is listed or
in a collection still to come.  At the end there is no place left but the list,
which is `DiscoveryNoneLost` and `DiscoveryAllListed`.

*Tasks.*  `TInv` adds what the gaps of a full and of a partial scrape can be at
each stage.  `TasksWholeOrNothing`, `TasksPartialAsFull` and
`TasksDrivesNotMissed` count tasks.  Their invariant `CInv` has the lists that a
stage has found (`Known`), how often each task is in the list made so far, as a
function of the device and of the request (`Tally`), and the same of the list
that the full scrape left in `made` (`MadeOK`), so that two walks are compared
through the numbers both have to reach.  The lemmas below it are about `Count`
of a concatenation and of a repeated task.

*Handlers.*  What the properties say at the end of a scrape, `HInv` says at every
step of the members whose turn is over: an alarm is shown, or a later member
that has passed has the same labels (`AlarmsSoFar`).  It adds that `state` is
BAD when a body begins, without which a DIMM without Status could be OK, that
what `fw` holds is the name and the version of components of the same body that
have been passed (`FwKnown`), and that complete components have been shown
(`VersionsShown`).  The lemma `Handled` says once for all other handlers what
they may set, `FirmwareStep` is about the inventory alone, and
`ShadowedOrPreferred` says that the code's chain of alternatives reads the list
that the property means.  `HandlersAlarmsShown`, `HandlersOkHasReason` and
`HandlersFirmwareOwnVersion` hold for bodies and lists of any length.

*Nuova.*  `Inv` adds that a scrape holds a session the device has created and
that no two hold the same; `NuovaSessionsAccounted` and `NuovaOnlyOwnLogout` follow,
and `NuovaLimitOnlyByLost` by counting.

*VaultToken.*  `TokenTypeOK`, `TokenWgCoversLive`, `TokenOneLoginAttempt` and
`TokenRevokedBeforeExit`; the last follows from the second, as a valid token
means that its manager, which the WaitGroup counts, is still at work.

Only model-checked: all liveness (`WorkersExit`, `UpReported`, `ScrapeEnds`,
`CredentialsConverge`, `ScriptConverges`, `CallsEnd`, `PluginEnds`,
`LoginRetried`, `ShutdownStopsRenewal`) and the liveness part of the refinement,
since fairness and `ENABLED` are out of the prover's reach.  Every safety
property that a run expects to hold is also a theorem, without further
conditions.

## 5. What is not modelled

* `TestConn`, which reads the list three times, and the data race on the map of
  ignored devices, whose only outcome besides the modelled one is that the
  process ends.
* Metrics' readings, labels and names; the JSON structures of `oem/` beyond the
  unmarshallers that decide something; flags, configuration, logging, pages and
  request metrics: data and output.
* The capping of the script's output; TLS settings and proxies.
* The moonshot's `NewExporter` and `Collect` ask the list as the redfish
  exporter's do; `Scrape` models the latter.
* Requests refused for their parameters touch no state.  The client's
  cancellation of a request is no event of its own: `Fetch` does not pass the
  request's context on, and to script and vault it is one of their failures.
* Two inputs on which the code panics are left out of the inputs: an empty URL,
  for which `appendSlash` indexes an empty string, and members of a firmware
  inventory that are not lists of objects, whose type assertion fails.

## 6. Plan

1. `IgnoredList`: `TestConn` and removal, with begin and end of every access to
   the map.
2. Composition: `Collector` on the task lists of `Tasks`, so that the bodies a
   task's failure hides are known by component.
3. Proofs: that a scrape of `Scrape` with the tasks of `Tasks` runs `Collector`,
   step by step; the races of overlapping scrapes with the weakest condition on
   who overlaps.
