# A formal model of Grafana's alerting and of its frontend's data flow

TLA+ specifications, TLC configurations and TLAPS proofs for stateful parts of
the Grafana in this repository: unified alerting in the backend, and in the
frontend the request queue, the queries of panels and dashboards, live data and
the opening of a dashboard. `PROJECT.json` lists the components, the runs, the
mutants, the source lines every definition stands for, the findings and the
hazards; this document explains them. Paths below are relative to `src/`, those
of unified alerting to `src/grafana/pkg/services/ngalert/` and those of the
frontend to `src/grafana/public/app/`.

## 1. Inventory

The repository is a collection for operating a logging and messaging platform:

| part | where | what it keeps | here |
|---|---|---|---|
| Grafana backend | `grafana/pkg` | database, caches, goroutines | unified alerting is modelled, see 1.1 |
| Grafana frontend | `grafana/public`, `grafana/packages` | redux store, rxjs streams, promises | its data flow is modelled, see 1.2 |
| k8s-sidecar | `k8s-sidecar/src` | files mirrored from ConfigMaps and Secrets | planned |
| CMAK | Kafka manager, vendored | actors over ZooKeeper | candidate |
| charts, manifests, training material | many directories | declarative | nothing to model |
| images and scripts | Kafka, ZooKeeper, Elastic, Logstash, SFTP | linear scripts around servers | nothing to model |

Unified alerting is the part of the backend with the most logic of its own:
long-running goroutines, channels that drop messages, a cache beside a table, an
external service that is told about changes only once. In the frontend one thread
runs, but everything that loads data is a set of overlapping promises, timers and
subscriptions over shared state, which a user interrupts at any moment.

### 1.1 Unified alerting

    ruler API ── transaction ──> alert_rule table <── transaction ── provisioning
        │ UpdateAlertRule /             │ GetAlertRulesKeysForScheduling,
        │ DeleteAlertRule               │ GetAlertRulesForScheduling
        v                               v
    alertRuleInfo registry <──── tick loop (schedulePeriodic)
        │ update(version)               │ AfterFunc: eval(evaluation)
        └────────────> ruleRoutine, one goroutine per alertRuleInfo
                          │ ProcessEvalResults, ResetStateByRuleUID
                          v
                   state manager: cache <── Warm ── alert_instance table
                          │                              ^ saveAlertStates
                          v                              │
                   compat: postable alerts ──> AlertsRouter ──> Alertmanagers

| component | source | state | operations | what makes it correct |
|---|---|---|---|---|
| alert instance | `state/state.go` | state, reason, StartsAt, EndsAt, LastSentAt, Resolved | one transition per result | For is observed; EndsAt outlives the next evaluation; a resolution is announced |
| state manager | `state/manager.go`, `state/cache.go` | cache of instances | Warm, ProcessEvalResults, ResetStateByRuleUID, Put | the cache and the table agree; no instance is lost or kept too long |
| alert_instance table | `store/instance_database.go` | one row per label set | upsert one by one, delete | a restart finds what the cache held |
| scheduler | `schedule/schedule.go`, `registry.go`, `fetcher.go` | two registries, channels, routines | tick, UpdateAlertRule, DeleteAlertRule | every rule is evaluated, a deleted one is forgotten, states never mix versions, no goroutine leaks |
| conversion | `schedule/compat.go` | none | states to alerts | the Alertmanager believes what the cache says |
| rule store | `store/alert_rule.go` | rules and their versions | insert, update, delete | versions tell changes apart |
| alerts router | `sender/router.go` | senders, configuration | sync, Send | planned |
| multi-organisation Alertmanager | `notifier/multiorg_alertmanager.go` | one Alertmanager per organisation | sync, remove | planned |

Also in the backend and worth a module: the server lock
(`grafana/pkg/infra/serverlock`, planned), token rotation
(`services/auth`), the remote cache (`infra/remotecache`), data keys
(`services/secrets/manager`) and live run streams (`services/live/runstream`).

### 1.2 The frontend's data flow

    DashboardPage ── initDashboard ──> fetch ──> variables ──> services ──> model
                            │              │          │
                            │              │          └─ processVariable per variable
                            v              v
              DashboardQueryRunner    BackendSrv.fetch ──> FetchQueue ──> FetchQueueWorker
                 │ annotations             ^    ^               │            │ ResponseQueue
                 v                         │    └── responses ──┘<───────────┘
    PanelChrome <── PanelQueryRunner ── runRequest ── data source ── live streams
                                                           │
                  panels <── LiveDataStream <── CentrifugeLiveChannel <── websocket

| component | source | state | operations | what makes it correct |
|---|---|---|---|---|
| request queue | `core/services/` | entries and their status, streams in flight | fetch, cancel, retry after a login | slots are neither lost nor exceeded, nothing waits for no reason, every call ends |
| panel queries | `features/query/state/PanelQueryRunner.ts`, `runRequest.ts` | one subscription, last result, replayed result | run, cancel, resend, clear, destroy | what is shown is of the latest run and whole; the spinner is honest |
| dashboard queries | `features/query/state/DashboardQueryRunner/` | workers, last result | run, publish | late annotations do not keep panels waiting |
| live streams | `features/live/` | channels, streams, frame buffers, what is held back | subscribe, publish, connection changes, shutdown | differences add up to the frame; nothing stays open unused |
| dashboard opening | `features/dashboard/state/`, `features/variables/state/` | phase, model, transaction and variables by key | open, leave, fetch, process variables, cancel | one transaction; the model in the store has its variables; loading ends |
| rest | Explore, alerting pages, playlists, time service, data sources, editors | mostly of one component | | not modelled |

### 1.3 What is hard here

* **Interleaving.** `DeleteAlertRule` is called by API requests and by the tick
  loop; each takes the rule out of two maps with two locks and then cancels a
  context, while the tick loop may be creating the next routine of the same key.
  Routines of one key overlap and share the cache entry and the rows.
* **Channels that drop.** `alertRuleInfo.eval` first takes away the message of
  another sender, then blocks. Messages can be lost, overtaken, and blocked.
* **Contexts.** A routine whose rule is deleted finishes its evaluation with a
  cancelled context: its writes to the cache succeed, those to the table fail.
* **A cache beside a table.** Rows are upserted one by one, failures are logged
  and ignored, a state that is neither firing nor normal comes back as an Error.
* **Awaits.** After every `await` the world may have moved on: another run was
  subscribed, another dashboard opened, the panel closed, the channel disconnected.
* **Observers inside observers.** Removing an entry of the request queue publishes an
  update that starts another request, which cancels a third, whose consumer removes
  a fourth, before the first call returns.
* **Differences.** A live frame is sent whole or as a difference, held back, merged,
  and put together again by each panel with a length of its own.
* **Delivery by time.** A firing alert is resent once per `ResendDelay` and expires
  by itself; a resolution is posted once.

The hazards of the modelled parts, with their lines and the properties aimed at
them, are in `PROJECT.json` under `hazards`; those without a property say why.
Section 6 names hazards of parts that have no model.

## 2. Modules

| module | models | depends on |
|---|---|---|
| `AlertState` | one alert instance: transition, `NeedsSending`, row, warmed state. Pure operators | |
| `StateManager` | the cache, the table and the Alertmanager for one rule and its series | `AlertState` |
| `MCStateManager`, `StateManager_proofs` | rule options for TLC; theorems | `StateManager`, TLAPS |
| `RuleScheduler` | rule table, tick loop, registries, channels, routines, API calls | |
| `MCRuleScheduler`, `RuleScheduler_proofs` | symmetry for TLC; theorems | `RuleScheduler`, TLAPS |
| `FetchQueue` | `BackendSrv.fetch`, `FetchQueue`, `FetchQueueWorker`, `ResponseQueue`: the calls made inside one event, and the events | |
| `MCFetchQueue`, `MCSlotLost`, `FetchQueue_proofs` | calls, consumers and request ids for TLC, two instances; theorems | `FetchQueue`, TLAPS |
| `PanelQuery` | `PanelQueryRunner`, `runRequest`, the dashboard's queries as one panel sees them, the view | |
| `MCPanelQuery`, `PanelQuery_proofs` | a constraint for TLC; theorems | `PanelQuery`, TLAPS |
| `LiveFrames` | abstract: what a live stream promises each subscriber | |
| `LiveStream` | websocket, channels, streams, buffering; implements `LiveFrames` | `LiveFrames` |
| `MCLiveStream`, `LiveStream_proofs` | the lengths of the panels for TLC; theorems | `LiveStream`, TLAPS |
| `DashboardInit` | the page, `initDashboard` and the variables | |
| `MCDashboardInit`, `DashboardInit_proofs` | dependencies of the variables for TLC; theorems | `DashboardInit`, TLAPS |

`StateManager` looks inside the evaluations of *one* rule by one routine;
`RuleScheduler` looks at *who* evaluates which version of a rule and when, and
reduces all states one definition produced to one element of a set. Together they
cover `schedule/` and `state/`; the composition of both is planned (section 8).
In the frontend a request of `PanelQuery` or of a variable is a call of
`FetchQueue`; the modules meet at what the queue promises, that every call ends
and that it can be cancelled, which is what their fairness and their `Cancel`
actions assume.

Operators named `Slip...` are deliberate mistakes. Each has the parameters of the
definition it stands before, and nothing uses it. Put in the place of that
definition it makes one of the properties fail: that is how we know that the
property can fail at all (`mutants` in `PROJECT.json`).

### 2.1 StateManager

| variable | code |
|---|---|
| `rule` | the options of the `AlertRule` in the evaluation: For, NoDataState, ExecErrState |
| `dirty`, `started` | `currentRuleVersion` of `ruleRoutine` against the version that arrives |
| `now` | `scheduledAt` of the last evaluation |
| `cache` | `cache.states[org][uid].states`, by `CacheID`; a record of the fields that decide |
| `db` | `alert_instance`, by labels hash |
| `am` | the `EndsAt` the Alertmanager last received, by alert identity (labels and alertname) |
| `pc`, `processed`, `todo`, `missing` | local variables between `ProcessEvalResults` and `Send` |
| `upsets` | bounds failures, restarts, late evaluations and edits |
| `lost`, `hist` | history for the properties; no action reads them |

A label set is a series and whether a query error has added `ref_id` and
`datasource_uid` to its labels. `cache.getOrCreate` computes the cache ID from
the labels *before* that, the row and the alert get those *after* it; keeping the
pair apart lets the model do as the code does.

| action | code |
|---|---|
| `Evaluate` | `ProcessEvalResults` on the cache: `setNextState` for every result, `staleResultsHandler`, `DeleteAlertInstances` |
| `SaveRow`, `SaveFails` | `SaveAlertInstances`, one upsert each; the first failure ends it |
| `Send` | `FromAlertStateToPostableAlerts` with `Put`, then `Send` |
| `UpdateRule`, `ClearState` | a new version reaches the routine; `clearState` |
| `Restart` | the process dies, `Warm` reads the table; an internal Alertmanager forgets, an external one does not |
| `OutOfTime` | the bound on time; it lets the check for deadlock stay on |

Some details are deliberate. A rule whose routine has not evaluated it yet has
`currentRuleVersion` 0: an evaluation of another version then clears nothing,
an update by the API does (`UpdateRule`). A warmed state has no `LastSentAt`, so
it is sent at once if it fires. A `Pending` or `NoData` row is warmed as `Error`.

### 2.2 RuleScheduler

| variable | code |
|---|---|
| `ruleDB`, `gen` | `alert_rule`: the definition under each key. A definition is the generation of the key (which of the rules that had this UID) and a version |
| `rows`, `cache` | whose states are in `alert_instance` and in the cache |
| `firing` | whose alerts fire at the Alertmanager and have not been abandoned |
| `warmed` | those of the cache that `Warm` loaded and nobody has evaluated since |
| `schedulable`, `registry` | `schedulableAlertRules`, `alertRuleInfoRegistry` |
| `routine` | every `alertRuleInfo` with its context (`stopped`), its two channels, and the program counter and local variables of its `ruleRoutine` |
| `timers`, `polled`; `updates`, `updating` | `eval` and `update` calls before their first and between their two selects |
| `deleting`, `stopping` | `DeleteAlertRule` calls of the API by their next step |
| `tick` | program counter and local variables of `schedulePeriodic` |
| `overlapped` | history: rules that got a routine while another one lived |

An unbuffered channel is the sequence of the senders blocked in it. A sender of
an evaluation is `TimerFires` (first select: takes the head away) and `OfferEval`
(second select: appends itself, unless the context is done); `update` is
`BeginUpdate` and `OfferUpdate` likewise. A blocked sender that sees the context
done is `GiveUp`. The routine takes the head in `ReceiveEval` or `ReceiveUpdate`.

The tick loop is `FetchKeys` (`needsUpdate`), `FetchRules`, `SetRules`,
`ListRules`, `ScheduleRule` per rule in any order, `StartTimers`, `SweepRule` and
`SweepStop` per rule to delete, `EndTick`. The steps of the routine are:

    idle ─ReceiveEval→ evaluating ─FinishEval→ processing ─ProcessResults→ saving
         ←SendAlerts─ sending ←PutSent─ putting ←SaveStates─┘
    idle ─ReceiveUpdate/ReceiveEval/ReceiveDone→ clearing ─ClearRows→ stopAlerts ─→ next

An end is sent only for what `FromAlertStateToPostableAlerts` and `FromAlertsStateToStoppedAlert` see: states that are
Alerting, NoData or Error at that moment, under the labels they have at that moment
(`schedule/compat.go:155`). An alert whose state has gone on to NoData, Error, Pending or other labels, or whose state was
dropped for want of results in one of those, is *abandoned*: no end is ever sent for it, and it stays at the Alertmanager until it
expires. `ProcessResults` may abandon any of the alerts it touches, `firing` holds those that are not,
and `StopAlerts` ends those of the removed states. What becomes of an abandoned alert is the subject of `StateManager`
(`GhostsExpire`).

`Crash` is the death of the process and the start of the next one with `Warm`. A
shutdown in order leaves nothing behind that a crash does not, so it has no action.

Abstractions: `keyMap` and `all` take their locks one after the other, here
`ListRules` reads both at once, a delay of either being a step of another actor
before it; `InsertAlertRules`, `UpdateAlertRules` and `DeleteAlertRulesByUID` are
transactions and one step each; `retryIfError` makes
one attempt, because the function it is given always returns nil; a rule whose interval is no multiple of the
base interval is rejected by validation, so that branch has no action; the data
race of `needsUpdate`, which reads the map without its lock, is not modelled.

### 2.3 FetchQueue

| variable | code |
|---|---|
| `keys`, `status` | `FetchQueue.state`, an object whose keys have an order |
| `inner`, `buffer` | the entries `concatMap` of `FetchQueueWorker` still emits, and the `noOfInProgress` of the updates it holds back |
| `listening` | calls whose observer is subscribed to `responses` |
| `started`, `phase` | the streams of `internalFetch` and where their HTTP request is: first attempt, login, second attempt |
| `outcome` | what the observer was told |
| `calls` | the function calls that are still to be made in the current event, a stack |
| `cancelled` | history |

Events (`Request`, `Unsubscribe`, `ResolveCanceler`, `CancelAllInFlightRequests`,
`Answer`, `TokenRevoked`, `Login`, `LoggedIn`) begin when `calls` is empty and put calls
there; `Add`, `SetInProgress`, `NextUpdate`, `Fetch`, `Subscribe`, `Cancel` and
`SetDone` are those calls, each of which may put further ones in front. This is how
one synchronous cascade of rxjs observers is kept in the order the code has.
A consumer is a `forkJoin`: an error of one of its calls unsubscribes from all (`LetGo`), and
the calls it subscribes to after that are let go of at once (`Failed`). The filters over the
queue and over the subscribed streams are `Selected`, a recursive function, because the proofs
are about what it returns. One order is simplified: when `fetchQueue.add` itself leads to a call being let go of, the teardown of
that call runs after `add` has returned, and `SetDone` a little earlier. Until then the code still counts the call as in progress,
so that it lets go no more than the model does, and the teardown publishes an update with the same entries in the end.

### 2.4 PanelQuery

| variable | code |
|---|---|
| `runs`, `pc`, `source` | calls of `run`, each before its `getDataSource`, with its query under way, or over |
| `timer`, `packets`, `failed` | `timer(200)` of `runRequest`; the keys of `state.packets`, and whether one has an error |
| `raw` | the last `PanelData` `combineLatest` has of the subscribed run |
| `sub`, `open` | `PanelQueryRunner.subscription` |
| `lastResult`, `subject`, `destroyed` | the fields of the runner; the subject replays its value, and completes |
| `view`, `viewing` | `PanelChrome`'s `state.data`, and whether it subscribes to the present subject |
| `dash`, `dashTimer`, `results` | runs of `DashboardQueryRunner`, their 200 ms timers, and what it replays |
| `resent` | history: a cancelled result was sent again as loading |

`Refresh` is `run` up to its `await`; `DataSourceReady` the rest with `pipeToSubject`;
`LoadingTimer`, `Response`, `QueryError` are what `runRequest` emits, and `QueryCompletes` the end of a query that
has said all it had to say, or nothing at all: the built-in Grafana data source answers a query without targets with `of()`
(`plugins/datasource/grafana/datasource.ts:146`). The timer of such a query waits on, for `takeUntil` is not told of a
completion (`runRequest.ts:169`); `CancelQuery`,
`ResendLastResult`, `ClearLastResult`, `Destroy` are the methods of those names;
`Remount` is `PanelChrome`'s mount; `DashResult` and `DashTimer` publish the dashboard's
data. A run of the dashboard does not end the earlier ones, as in the code. A
result is reduced to the run that asked for it, the run its series come from, the
response keys they cover and the run its annotations come from: exactly what tells
a mixture of two runs from a whole one.

`IsNext` says that promises for one data source are settled in order: the plugin is
loaded once, and the later `getDataSource` finds the same promise. It is used for
`NeverGoesBack`; over *different* data sources an earlier run can win, and does.

### 2.5 LiveStream and LiveFrames

| variable | code |
|---|---|
| `connected`, `blocked` | the websocket; `connectionBlocker`, resolved by the first connection |
| `ready` | `liveTimer.ok`, the readiness all panels share |
| `chan`, `open` | every `CentrifugeLiveChannel` ever made; `CentrifugeService.open` |
| `live`, `current` | every `LiveDataStream` ever made, with its frame buffer, replayed message and timer; `liveDataStreamByChannelId` |
| `user` | per panel: its stream, what `bufferIfNot` holds back, the frame it has put together |
| `rows`, `messages` | the server, and the bound on what happens |

`Publish`, `Subscribed`, `SubscriptionError`, `Unsubscribed`, `Disconnect` and `Connect` are events of
centrifuge; `InitChannel` and `RefuseChannel` the rest of `initChannel` after its `await`;
`Subscribe`/`Unsubscribe` are `getDataStream` and its teardown; `CloseTimer` (250 ms) and
`ShutdownTimer` (5 s) the timers; `SetReady` the readiness. One address is modelled.
Rows are numbers, so that a lost, repeated or reordered one is seen.

*Shared values.* The values of a message are one set of arrays for all who are sent it. A panel that replaces makes them
those of its own frame and splices the first rows off if they are too many for it
(`StreamingDataFrame.ts:381`, `:559`). Whoever is told after it, holds the message back, or took the
arrays over before, is left with the rows that remain. In `user`, `fields` says whether the frame has fields at all, and
whether its arrays are its own or shared; `ahead` who subscribed earlier and is told first; `gap`, a history
variable, that rows were missing from what the panel was sent. `Takes`, `Keeps`, `Spliced`, `Cut` and `Bereft` are that
splicing. A first frame of a stream that has had neither schema nor rows has no fields, and a frame without
fields drops values until a whole frame comes (`fields = "none"`).
Two simplifications remain: the values of `last` in a stream are kept unspliced, because nothing reads them but
the subscriber that is told at once or, having subscribed later, gets a whole frame instead; and the message a channel keeps in
`lastMessageWithSchema` is no alias of them.

`LiveFrames` knows nothing of channels, packets, buffers and readiness: each stream has
a log of rows, and a subscriber's view is a window of it. A step may show a subscriber
everything since it was last shown something, no matter in how many messages. `lacks` names its two exceptions, both the
code's: rows cut short by a replacing subscriber of the same stream that keeps fewer (`CutShort`, `MayLack`), after which the view
still shows the newest row and never more than its length, and a first frame without fields. Both end with the next whole frame.
`ImplementsFrames` is the refinement: `log` is the history of rows pushed into a stream,
`view` and `seen` are those of the panel.

### 2.6 DashboardInit

| variable | code |
|---|---|
| `visits`, `uid`, `pc` | calls of `initDashboard`, and the await each is at; "cancelled" is a fetch whose cancellation the loader has yet to catch |
| `missing` | visits that go on with a dashboard 'Not found' |
| `page`, `phase`, `model` | `DashboardPage` mounted; `state.dashboard.initPhase` and `getModel()` |
| `lastKey`, `transaction`, `variables` | `state.templating`: the last key, and per key the transaction and the states of the variables |
| `job` | every `processVariable`: waiting for dependencies, free to go on, querying, over |
| `runner` | the global `DashboardQueryRunner` |
| `mixed` | history: dashboards of which two visits shared the variables |

`Open` and `Leave` are the page; `Fetched`, `NotFound` and `InitFails` the end of `fetchDashboard` and
what follows synchronously up to the variables; `ProcessVariable`, `Answer` the
variables; `Complete` what follows `initVariablesTransaction`. `Cancel` is
`cancelVariables`, which also cancels every request in flight, dashboards' included.

What a fetch that fails or is cancelled comes to depends on the route. `DashboardLoaderSrv.loadDashboard` catches whatever
its request throws for a dashboard by UID (`DashboardLoaderSrv.ts:67`) and returns a dashboard 'Not found'; for the other
routes the error reaches `initDashboard`, which ignores a cancellation and shows 'Dashboard init
failed' for the rest. `Caught` are the dashboards of the first kind. Their visits go on (`NotFound`, or `Aborted` and then
`CatchCancelled`, both with `GoOn`, as `Fetched`): they begin a transaction under the UID of the URL, cancel the variables of the last one, make
a runner, and may complete in the place of the visit that cancelled them. `InitFails` is the error of the second kind,
and of a model that cannot be made. The model 'Not found' has no variables and no UID of its own, so that closing it cancels requests and
leaves the transaction of its key (`Closed`).
The continuations of promises run before the next event: an event requires `Settled`.

## 3. Runs

The passing runs of alerting keep the check for deadlock on: nothing there may
stop. Those of the frontend turn it off: once the bounded visits, calls or messages are used
up and everything has been answered, nothing happens until the user acts again.

| run | question |
|---|---|
| `StateAlerts` | Does the Alertmanager believe what the cache says, through late evaluations, failures, edits and restarts? Is For observed? |
| `StateRows` | Does a restart between two evaluations find exactly the cached states, even after a death between two rows? |
| `SchedulerOverlap` | When routines of one rule overlap, are its states gone and its alerts ended, and is every running routine known to somebody who can stop it? |
| `SchedulerLiveness` | Are states of two versions ever mixed, whatever order messages arrive in? Is every rule evaluated, a deleted one forgotten, the latest version in charge? |
| `FetchQueue` | Are slots exceeded, calls forgotten, in the cascades of one event and over events? |
| `PanelQuery` | Is what a panel shows whole, of its latest run, and its spinner true, whatever overlaps? |
| `LiveStream` | Do panels see each row once and in order, and is all closed that nobody uses? |
| `DashboardInit` | Does the dashboard in the store have its variables, and does every visit come to an end, when fetches fail and are cancelled? |
| `SchedulerRecreated`, `LoginRetry`, `SlotLost`, `DashboardStale` | the findings of section 4 |

**Properties.**

* `FiringReachesAM`: while a series fires its alert stays valid beyond the time of the
  next evaluation, however late earlier ones were. It relates `NeedsSending`, `LastSentAt`
  and `setEndsAt`. A series that flaps within `ResendDelay` is posted late, by at
  most that and the lag of the posting, which the property states.
* `ResolvedIsAnnounced`: a Normal series has no open alert unless it was abandoned,
  that is, it passed through NoData or Error or the process died.
* `GhostsExpire`: what is abandoned ends by itself within `Validity`.
* `FiringAfterFor`: an Alerting result makes a series fire only after an unbroken run
  of firing results of length For. It holds for *all* preceding histories; errors
  are another matter (section 4).
* `RestartLosesNothing`: without a failed database call the warmed state equals the
  cached one up to `translateInstanceState`. A series relabelled by a query error is
  excepted, since the row under its old labels is never removed.
* `DeletedRuleHasNoState`: once a rule and its routines are gone its cache is empty,
  except for what `Warm` loaded for a rule deleted before its first tick: no
  routine exists that could clear that.
* `DeletedRuleEndsItsAlerts`: likewise every alert that had not been abandoned before (section 2.2) has been sent its end. The
  exceptions are real: a rule created again while its old routine still ran (`overlapped`) may keep an alert,
  because the old routine's alert is sent after the states were cleared by the
  new one; and a crash between the cache and the posting loses the end. An alert that was abandoned before outlives the rule
  until it expires.
* `NoLeakedRoutine`: a routine that is not stopped is registered, or somebody is
  about to stop it.
* `StateMatchesVersion`: the states of the only routine of a rule, while it waits, are
  those of the version it evaluated last.
* `RuleIsEvaluated`, `DeletedRuleIsForgotten`, `LatestVersionTakesOver`: progress.
* `SlotsAreHeld`: an entry in progress has an observer whose teardown will remove it.
  `ResponseQueue` puts an entry back that left the queue while `concatMap` emitted, and if
  its observer is gone the slot is lost for good. `SlotLost` shows it; section 5.5 has the condition under which it cannot happen.
* `AtMostMaxParallel`: the worker compares today's entries with a count of the past. Like `SlotsAreHeld` this is true
  as long as `SharersAreSingle` is, and not otherwise (sections 4 and 5.5). The calls of
  the run satisfy it, as the assumption `SingleSharers` of `MCFetchQueue` checks.
* `OneInFlight`: of the requests with one id, only the latest is under way.
* `NothingWaitsNeedlessly`: between events a data query waits only for a slot.
* `EveryCallEnds`, with the queued ones and those that wait for a login.
* `QueryIsOwned`: a query under way is the subscribed one, so somebody can cancel it.
* `NothingIsMissing`: a final result holds every packet the run got and the annotations
  published last, whichever came later.
* `SpinnerIsHonest`, `SpinnerStops`: a spinner turns only while a query is under way, and
  stops. The exceptions are the code's. `resent`: `cancelQuery` sends the last
  result as Done and keeps it as Loading, so a later `resendLastResult` revives the spinner. `SaidNothing`: after a query that
  has ended without a packet the timer shows a spinner that only cancelling, another run or closing stops.
* `NeverGoesBack`: a panel goes back to an earlier run only if that run's data source was
  another one.
* `LastRunIsShown`: the last run is shown unless cancelled or without anything to show, and does not wait for late annotations.
* `ImplementsFrames`: the refinement of section 2.5, with the two exceptions named there.
* `ReadyIsCurrent`: while the page keeps up, no panel is behind its stream.
* `CurrentIsAlive`, `UnusedChannelIsClosed`: nobody is given a stream that has ended, and
  a channel without panels is closed.
* `OneTransaction`: only the last key's variables load; others would be neither read nor cancelled.
* `DashboardHasVariables`: the model in the store has a completed transaction and no variable
  missing or loading, whatever the visits around it do, those with 'Not found' included. Excepted are a model 'Not found', which has no
  variables, and a dashboard two of whose visits share its variables
  (`mixed`): the earlier one really completes the transaction of the later.
* `VariablesEnd`: no visit waits for ever for a variable that was removed or failed.
* `LoadingEnds`: the page does not stay at loading. That is less clear than it seems, because a visit that is not
  wanted does not complete, and because the wanted one can be cancelled by one that goes on with 'Not found'. Of all that go on the last to
  start its variables completes, which need not be the visit the user made last.
* `PreviousIsNotContinued`: while a dashboard is shown and stays, no visit of another replaces the runner of its queries. `DashboardStale`
  shows that one does.

**Bounds.** `Interval` is 1 and `ResendDelay` 2, so that the delay is longer than the
interval as in Grafana (30 s, and 10 s by default), and staleness after two intervals
and a For of two intervals fall on different evaluations. `MaxTime` 6 gives five evaluations: enough for
Pending, Alerting, a missed evaluation and Normal. `MaxSkip` 2 skips a tick, which is
when a live series looks stale; `MaxLag` 1 lets the posting take as long as an
interval. `MaxUpsets` 2 combines any two disturbances (a failed read at a
restart counts twice). `SomeConfigs` has every value of every option, and For with
ExecErrState Alerting, the one combination the code treats specially; `StateRows`
takes two series instead, because rows are saved one by one.

`Infos` bounds the routines alive at once: two of one rule is what overlapping
means, and `SchedulerOverlap` has two, the other runs of the scheduler one. `MaxEdits` 3 allows create, delete, create, and what the tick loop then finds;
`MaxVersion` 2 an update, where versions are asked about; `MaxGen` 1 tells a recreated rule from its predecessor; `MaxInFlight` 2
allows two senders to race, where versions and progress are asked for (`SchedulerOverlap` has one
sender beside its two routines); `MaxCrashes` 1 with `DbMayFail` mixes a restart with
failing calls; `AlwaysDue` FALSE lets rules with longer intervals skip ticks.
`MaxInFlight` delays the tick loop instead of dropping a message, and `Free`
delays the creation of a routine; both only remove behaviours that need more
goroutines.

`FetchQueue`: `MaxParallel` 2 (5 in Grafana) with four data queries, two of them in a `forkJoin`
with a request id that can be cancelled, the others on their own; three consumers share a request id, so that starting
one call cancels another while others wait; an API request that is refused and its
`loginPing`. What a larger instance would add is proved (section 5.5). `SlotLost` has three slots and seven data queries of four consumers,
the smallest instance we found for its trace. Every call is made at most once. `PanelQuery`: `MaxRuns` 2 overlapping runs, two data sources, two
response keys; two of each are what mixing means. `LiveStream`: two panels, one keeping
two rows and one replacing with one row; three rows in up to three messages (bound of
everything that has a message, a refusal and a lost connection too), so that a buffer overflows and a batch of
several is held back; two streams and channels, one after the other. No packet is longer
than the buffer (see section 4). `DashboardInit`: three visits to two dashboards, so that
two of one dashboard can overlap with one of another; the loader catches the errors of one of the two and not those of the other (`Caught`); a chain of two variables and a
constant.

**Symmetry.** Rules and alertRuleInfos are told apart by identity alone, and the runs
that declare them symmetric check invariants only. `FirstSource` in `MCPanelQuery` lets the first
run of a panel use one fixed data source; the two are interchangeable, so this removes renamings only, of behaviours too.

**Fairness** (`FairSpec`, used by `SchedulerLiveness` only). Weak fairness for the tick
loop, the senders and API calls that have begun: each is a goroutine that is never
blocked for good. Strong fairness for a routine: Go hands a message directly to a
goroutine parked in `select`, so a later `eval` cannot take a message away from a
routine that keeps waiting, and a receiver is not passed over for ever; in the model, where blocked senders are a sequence that
`TimerFires` shortens, this is strong fairness. Nobody is required to edit a
rule, and the process is not required to die or live. Without strong fairness
`RuleIsEvaluated` fails, which is a true statement about a routine that never gets
back to its `select` in time.

In the frontend: continuations and observers run on (`Proceed`), timers fire, and requests
are answered, fail or are cancelled, which the browser guarantees. `FetchQueue` asks only
that, as long as requests are open, some of them are answered, and does not say which, and `DashboardInit` the same of fetches and of the queries of variables. A query of `PanelQuery`
may also end without a word.
Nobody is required to open, leave, refresh or cancel anything, the connection is not
required to come back, and a panel's loading timer need not fire.

## 4. Findings

Each is a run that TLC finds violated.

1. `SchedulerRecreated`: `needsUpdate` compares keys and versions, and a new rule has
   version 1. A rule deleted and created again under its UID between two ticks goes on
   with its old definition.
2. `LoginRetry`: `toFailureStream` retries a refused request by resubscribing to the failure
   branch of the response alone. When the second attempt succeeds, its answer passes neither branch,
   the stream ends empty, and `throwIfEmpty` reports it as aborted, though nobody cancelled it.
3. `SlotLost`: a slot of the request queue is lost for good. `concatMap` hands out all entries of an update, whatever
   becomes of them meanwhile (`core/services/FetchQueueWorker.ts:51`). If the first cancels a request in flight that has
   its `requestId`, and the consumer of that request lets go of the second, the second is put back in progress after
   it was set done (`ResponseQueue.ts:30`), against the purpose of the comment at `backend_srv.ts:117`. It takes
   counts that are out of date, so that one update lets two requests go, and three slots (Grafana has five): with
   the consumers `<<m0, m1>>`, `<<f>>`, `<<e1, e2, e3>>`, `<<z>>`, one request id for `m0` and `f` and another
   for `e1` and `e2`, all of them data queries, `e3` remains in progress and nobody listens. No `forkJoin` needs to
   repeat an id: with four slots, `<<m0, m1, m2, m3>>`, `<<f, e3>>`, `<<g>>`, `<<e1>>`, `<<e2>>`, the ids shared by `m0` and `g` and by `f` and
   `e2`, and `f` and `g` API requests, it happens too.
4. `DashboardStale`: a visit whose variables were superseded makes and runs its
   `DashboardQueryRunner` before it sees that it is not wanted (`initDashboard.ts:194`, against the comment at `:198`). In the run, visit 1 awaits
   the variables of A; visit 2 opens B, which cancels them, and is shown with its runner; then a late query of A ends, and visit 1
   replaces the runner of B while B stays shown.

**Deviations without a run.** The models contain these too. Where one of them touches a property, the property
names it as an exception or a condition.

* the routine of a deleted rule may save rows after the deletion and then clears with a
  cancelled context, so the rows stay (`schedule/schedule.go:432`); `Warm` skips them;
* two `eval` calls may both pass the non-blocking read (`schedule/registry.go:94`);
* a restart makes a Pending state an Error, which the next error turns into Alerting before
  For has passed (`state/manager.go:362` against `state/state.go:173`);
* NoData mapped to Normal resolves an alert with an end three intervals in the future
  (`state/state.go:191` against the comment in `setEndsAt`);
* a second run of `DashboardQueryRunner` does not cancel the first
  (`features/query/state/DashboardQueryRunner/DashboardQueryRunner.ts:75` against its test);
* a packet longer than the frame's buffer: `getValuesFromLastPacket` slices from a negative
  index (`features/live/data/StreamingDataFrame.ts:416`, `Math.max` with one argument), and panels that
  append lose the rows before it. `MaxPacket` above `DefaultLength` shows it;
* a channel disconnected while `initChannel` awaits the connection is subscribed afterwards
  (`features/live/centrifuge/service.ts:155`);
* a query that completes without a packet leaves its 200 ms timer behind, which shows a spinner with nothing under
  way (`features/query/state/runRequest.ts:169`, with `plugins/datasource/grafana/datasource.ts:146`); the exception `SaidNothing`;
* a new subscriber of a live channel is sent the whole last message with a schema, rows included
  (`features/live/centrifuge/channel.ts:148`), although the comment at `:144` says to "send just schema instead of schema+data to avoid having data
  gaps". The gap is there: a panel subscribes, gets a message with schema and row 1 and then row 2 without schema, leaves, its stream shuts down, and
  within the quarter of a second that the channel lives on another panel subscribes; its frame holds row 1, and the next difference row 3. `NewStream` does so, and
  counts the rows it is given as the log of the new stream, so that `ImplementsFrames` is about what a *stream* has had and not about this gap;
* a panel that replaces splices rows off arrays that other panels of the channel share
  (`features/live/data/StreamingDataFrame.ts:381`, `:559`), and those lose them; the exceptions `CutShort` and `MayLack`;
* a panel whose first frame was made of a stream without schema and rows has no fields, and drops values until the next whole frame
  (`features/live/data/StreamingDataFrame.ts:360`); the exception `fields`;
* `initDashboard` says "Ignore cancelled errors" and returns (`initDashboard.ts:102`), but for a dashboard by UID the loader has swallowed the cancellation
  (`DashboardLoaderSrv.ts:67`): the cancelled visit goes on with 'Not found', cancels the variables of the wanted dashboard, and
  may be shown instead of it. `LoadingEnds` therefore does not say which dashboard is shown;
* closing a dashboard 'Not found' leaves the transaction and the variables of its key behind (`Closed`), because its model has no UID;
* an alert that was abandoned outlives the deletion of its rule until it expires (`schedule/compat.go:155`; section 2.2);
* a run of a panel's queries that is awaiting its data source is stopped neither by `cancelQuery` nor by `destroy`
  (`PanelQueryRunner.ts:303`), and subscribes afterwards;
* more data requests than the limit may be in progress for a moment, with two slots already
  (`core/services/FetchQueueWorker.ts:28`, against `FetchQueueWorker.test.ts:65`, by which no data request
  passes at the limit). Four data requests of one `forkJoin`, the first of which has the `requestId`
  of an API request, and three more that wait: when the API request starts, it cancels the first, the `forkJoin` lets go of
  all four, and each removal is an update of its own, published in the middle of the one the worker is busy with. It
  processes them later, one after another, each with the count of requests in progress of the time it was published and with the entries of now,
  and so starts three. TLC finds `AtMostMaxParallel` violated for that instance; the condition `SharersAreSingle`.

In `SlotLost` and in the last of these a request cancels by its id one that belongs to a `forkJoin` of several. Who could do
this is a data source that combines requests with ids of their own (`panelsQuery` in
`plugins/datasource/prometheus/datasource.tsx` and the mixed data source) while somebody else uses one of the ids. A panel that is
refreshed does not, for `pipeToSubject` unsubscribes from the former query first.

## 5. Proofs

Every theorem is of the form `Spec => []P`, `Spec => [][A]_vars` or, for the refinement,
`Spec => ImplementsFrames` (two of the request queue are `Spec /\ []H => []P`), and holds for every value of the constants that satisfies the
named ASSUMEs of the modules. These say that bounds and durations are numbers, that intervals and lengths
are positive, that the values that stand for an absence (`None`, `NoRule`, `NoDef`,
`NoInfo`) are none of the values they stand beside, that there is a response key, and that
dependencies of variables are acyclic; for the request queue, that every call of `fetch` is made by
one consumer, once, or is the `loginPing` of one call (`CallAssumption`: every call makes an id of its own). Four
theorems have a hypothesis of their own, which is discussed with them.

| module | theorem | property |
|---|---|---|
| `RuleScheduler_proofs` | `TypeCorrect` | `TypeOK` |
| | `NoRoutineLeaks` | `NoLeakedRoutine` |
| | `DeletedRuleLosesState` | `DeletedRuleHasNoState` |
| | `StatesMatchVersion` | `StateMatchesVersion` |
| | `DeletedRuleIsResolved` | `DeletedRuleEndsItsAlerts` |
| `StateManager_proofs` | `TypeCorrect` | `TypeOK` |
| | `ForIsObserved` | `FiringAfterFor`, an action property |
| | `GhostsDoExpire` | `GhostsExpire` |
| | `RestartKeepsStates` | `RestartLosesNothing` |
| | `ResolutionIsPosted` | `ResolvedIsAnnounced` |
| | `FiringIsPosted` | `FiringReachesAM`, if `LagIsShort` |
| `PanelQuery_proofs` | `TypeCorrect` | `TypeOK` |
| | `QueriesAreOwned` | `QueryIsOwned` |
| | `SpinnersAreHonest` | `SpinnerIsHonest` |
| | `ResultsAreWhole` | `NothingIsMissing` |
| | `RunsDoNotGoBack` | `NeverGoesBack`, an action property |
| `LiveStream_proofs` | `TypeCorrect` | `TypeOK` |
| | `NothingIsHeldBack` | `ReadyIsCurrent` |
| | `GivenStreamLives` | `CurrentIsAlive` |
| | `FramesArePromised` | `ImplementsFrames`, the refinement, if `PacketsFit` |
| `FetchQueue_proofs` | `TypeCorrect` | `TypeOK` |
| | `NoneWaitsNeedlessly` | `NothingWaitsNeedlessly` |
| | `LatestAlone` | `OneInFlight` |
| | `SlotsHeld` | `SlotsAreHeld` (violated in general, see `SlotLost`), as long as `SharersAreSingle` |
| | `WithinSlots` | `AtMostMaxParallel`, as long as `SharersAreSingle` |
| `DashboardInit_proofs` | `TypeCorrect` | `TypeOK` |
| | `OneTransactionAtATime` | `OneTransaction` |
| | `ShownDashboardHasVariables` | `DashboardHasVariables` |

The `InvHolds` of each module (`Invariance` in `FetchQueue_proofs`) is the inductive invariant that the others start from.
Invariants that were found for a proof were first checked by TLC on the runs of the module.

### 5.1 RuleScheduler

*Types.* `TypeOK` is not inductive: `ScheduleRule` puts `tick.rules[r]` into `ready`
and `ProcessResults` puts `msg` into the cache, so both must be definitions. `IInv`
adds `TickHasRules` (a rule still to be scheduled is in the snapshot) and
`RoutinesComplete` (a routine has a key, a message when it works on one, and knows
where it goes on after it has cleared). There is one lemma per group of actions
(`ApiInv`, `SenderInv`, `TickInv`, `RoutineInv`, `CrashInv`).

*No leak.* `NoLeakedRoutine` is inductive relative to `IInv`. Most actions only leave a
routine as it was or stop it (`KeepsOn`, lemmas `RoutineKeepsOn`, `SenderKeepsOn`);
what is left are the steps that move an alertRuleInfo between registry, `stopping`
and `tick.stop`, or create one.

*Deleted rules.* The invariant is strengthened to: a state in the cache that `Warm` has
not loaded belongs to a key with a live routine, and `Busy` routines, those that are
on their way to write to the cache, are live. A routine leaves only through
`ReceiveDone`, which empties the cache, and then passes only through steps that do
not write to it; any other routine of the key is live and must leave by the same door.

*Versions.* `StateMatchesVersion` speaks of a routine that waits and is the only one of its
rule. `VersionsOK` says where states come from in all other situations: what a routine works on is of
the version it will call its current one, a routine about to exit has none, and every state that `Warm`
has not loaded has a maker, a live routine of the rule whose current version is that of the state.
With one routine the maker can only be that one. A message in a channel may be of any version,
and `eval` may have thrown any of them away: the argument needs nothing of the channels but that a
routine compares before it works (`ReceiveEval`), and clears before it changes its version.

*Alerts of deleted rules.* The exceptions of the property are what makes it provable: without a crash nothing
is warmed, and a rule that is not in `overlapped` has at most one live routine at any time. `AlertsOK` has
that routine account for the alerts (`Accounted`): what fires at the Alertmanager is in the cache, or among
what it has just taken out of the cache (`gone`) and will post as ended; what it is about to post is in the
cache. A step that abandons alerts only takes some out of `firing`; `StopAlerts` takes out exactly `gone`, which is why both must be accounted for
by name. When no routine is left, what fires is in the cache, which the invariant of `DeletedRuleLosesState` shows to be empty.

### 5.2 StateManager

`Inv` holds types, what is empty between evaluations (`IdleOK`) and that only a warmed state has
the key of an error's labels (`KeysOK`). On top of it each property has an invariant of its own;
the lemmas at the front of the module say once, for all of them, what one transition may do to the clocks
of an instance, and what each action does to the state of one series (`EvaluateStep`, `SendShape`, `ClearShape`, ...).

* `PendingOK`, for `FiringAfterFor`: a pending instance has been firing since before its
  `StartsAt`, so that For, which `resultAlerting` counts from there, is an unbroken run of results.
* `GhostOK`, for `GhostsExpire`: not only what was posted, also what is cached or stored ends within
  `Validity` of the last time the series was abnormal, or is over. The row matters, because `Warm` takes its end
  from there and may post it again.
* `OpenOK`, for `ResolvedIsAnnounced`: an open alert is abandoned, of a series that fires, of one whose
  resolution is among what is being processed, or of one that `staleResultsHandler` has just taken out.
* `RowsOK`, for `RestartLosesNothing`: as long as no call has failed an instance and its row agree unless
  the instance is still to be saved, and what is to be saved is in the cache.
* `SentOK`, for `FiringReachesAM`: what fires is known to the Alertmanager since it was last sent
  (`IsKnown`), or was sent before it began to fire (`WasSentBefore`), when it was under another
  state; in the second case the resend delay runs out as the property allows.

`FiringIsPosted` assumes `LagIsShort`, `Interval + ResendDelay + MaxLag <= Validity`: an instance
that is not resent now was sent less than a resend delay ago and must last until after
the next evaluation, and its end was computed before a posting that lagged. `Validity` is three times the longer of
interval and resend delay (`setEndsAt`), so this says that posting takes no longer than the
longer of the two. The code does not enforce that, and nothing else would make the property true;
the runs satisfy it (1 + 2 + 1 and 6). The proof also showed that an evaluation that is late
does no harm to what has been posted: `HistAfter` had restarted its clock there, and no longer does.

### 5.3 LiveStream

`IInv` has a part for counters, channels, streams and panels. What is hard is
about one panel and its stream, so the work is done in lemmas about
one record of each (`HeardPanel` for a message, `ReadyPanel` for readiness, `JoinedPanel` for a
panel that arrives, `KeptStream` for a stream that is resized, ends or starts its timer), and
the lemma of an action only says who is in which of these situations.

* `BufferOK`: the buffer of a stream is the end of all rows it has had, its length is at
  least the default one, and the last message, if it is a difference, is the end of those rows too.
* `Held`, the heart, and in it `Owed`: the frame of an appending panel followed by the rows it has not seen, trimmed
  to the panel's length, is the stream's buffer trimmed to that length; and unless a schema change
  or an error is among the messages held back, in which case the whole frame will be sent, those messages together
  are the rows it has not seen. Both halves are needed at `SetReady`, where `bufferIfNot`
  sends either a frame or one difference. Once rows have been spliced off (`gap`), what remains true is that the messages and the
  frame end with the newest row (`Recent`), and that holds until a whole frame repairs the rest. A frame without
  fields owes nothing.
* *Splicing.* `HeldCut` says what a panel holds after the takers of a message have cut it, `SplicedPanel` what happens to the frame of one that had taken the
  arrays before, and `EarlierTakers` and `MoreTakers` that only takers of the same stream which keep fewer rows can do
  either; that is `CutShort` of the abstract specification.
* `CurrentIsAlive` needs only the part on streams, `ReadyIsCurrent` only `Attends`: a panel that is ready holds nothing back.

`FramesArePromised` is the refinement of `LiveFrames`: `InitPromise`, then per step the stream
part (`GrowPromise`: a log only grows, or nobody is on the stream) and the panel part (`PanelPromise`: a panel
leaves, stays, joins with the window, or is shown everything missing; `CutShortPromise` and `MayLackPromise` for what may be lacking). It assumes `PacketsFit`,
`MaxPacket <= DefaultLength`: no message of the server has more rows than a stream keeps by default.
Without it the promise is broken (section 4): the difference is sliced from a negative index. The sequence lemmas at the
front of the module (`TrimConcat`, `EndOfEnd`, `UpToUnique`, ...) are what the definitions of the code return.

### 5.4 PanelQuery and DashboardInit

*Spinners.* That a spinner turns only while a query is under way says nothing of where
the spinner came from: the view has it from the subject, the subject from the last
result, that from the raw data of the subscribed run or from the result before. `Inv`
follows it back: `RawOK` (raw data that load belong to the query under way, or to one that ended without a word and is still subscribed), `TimerOK`
(a timer is that of a query, or of such a one), `LastOK` (a last result that loads belongs to the query if a run
is subscribed), `SubjectOK`, `ViewOK` (a view that is subscribed shows the state of its
subject), and `FreshOK` (a run that has not begun is nowhere). `QueryIsOwned` is
part of it: without it the end of one query would leave the spinner of another.

*Whole results.* A final result may have been built several emissions ago, and a view that
is loading skips some. `ShownInv`, inductive on top of `Inv`, says why none is left
incomplete: the raw data of the subscribed run hold exactly its packets (`RawOfSub`; a timer that
would empty them waits only for the first, `PacketsOK`), everything shown is of a run that
has begun to query (`Seen`), so that the next run to be subscribed has shown nothing yet, and nothing
is shown before there are annotations to merge; then every emission leaves the last result, the
subject and the view either whole or loading (`Whole`, lemma `EmitIsWhole`).

*Runs in order.* `NeverGoesBack` compares the view before and after a step, but what is sent may come
from the last result or the subject. `BackInv` orders all of them (`Precedes`): for one data source, the subject is never
behind the view, the last result never behind either, and the subscribed run never behind anything that is shown.
`InOrder` is why a newly subscribed run does not go back: a promise that is still awaited has not been overtaken by a
later one for the same source (`IsNext`), so a run that was shown is either earlier or of another source. Each step that shows anything is one of six
forms (`ShownMoves`), and `MovesAreNotBack` and `MovesKeepOrder` are about those.

*Variables of the dashboard.* A visit marks its dashboard as completed without looking
at the variables. `Inv` says why it may: as long as the last key is its own, it has not gone on with 'Not found', and it shares the
variables with no other visit (`IsAlone`), the transaction under its key is fetching,
none of its variables was removed, and every one it has processed is there (`AwaitedOK`). Who else could
touch them is a visit that awaits the variables of the same dashboard, found or not, or whose model is in the
store (`Live`), and two of those are recorded (`SharedOK`). A visit 'Not found' is never alone itself, but it may be the one that
takes the variables from another: `GoOnInv` is about all three ways of going on at once, and `AbortedLeaves` says
that the cancellation of fetches touches no visit that awaits variables. `OneTransaction` is needed to know that what
another visit cancels is never these variables but those of the last key.

### 5.5 FetchQueue

*What the operators return.* `Selected`, `Do`, `RemoveFirst` and `ToStart` are about sequences of any length, and the
invariants about the *sets* of their elements. `SelectedProperties` (the elements of `s` in `T`, each as often as
in `s`) is an induction over the length of `s`. The induction theorems of the library cannot be
used, since they take a predicate as a parameter; `SetInduction` is one whose parameter is a set, derived from `WFMin` and the order of
finite sets by inclusion. `StartedByUpdate` then says what an update lets go, `RemovedFirst` and `Concatenated` what
removing and joining do.

*The stack of an event.* An event is a cascade, and an action sees only the call on top. `Shape` describes the whole stack: below
are calls that add requests or let go of them; if the worker is at work, there is one loop above those, above it perhaps a request that
is being started (`Fetching`), and above that the calls with which it lets go of others (`LettingGo`), a cancellation of every older
request with its id among them. `Places` and `OnTop` say what this means for the call on top,
and `CallStep` and its kin that each call leaves one of the shapes.

*The inductive invariant* `Inv` is `TypeOK`, `Shape` and three more. `KeysOK`: the keys of the queue are the entries, without repetition.
`Life`: a call joins the queue once, is handed out once and subscribed once, and what waits is neither handed out nor started; this needs
`CallAssumption`. `UpToDate` is the reason for `NothingWaitsNeedlessly`: whatever waits needlessly, either an update with the *present* count is the
last one held back, or none is and the entries being handed out are those that the present state allows. Between events, without a loop, only
its first two cases are left. `LatestAlone` follows from `LettingGo`: when the request itself
is subscribed, nothing is left above it, so every older one has been cancelled.

*Slots.* `SlotsAreHeld` and `AtMostMaxParallel` need to know how old the counts are. `QInv` says so, on top of `Inv`. `Held`: every entry, the
queued ones too, has an observer, and what is about to be handed out still waits. `Quota` distinguishes the four shapes: an update hands out
one request at most (`Emitting`), and the updates held back (`Backlog`) are none, one with the present count, or one that is
too large by one followed by the present one, so none that promises a slot that is not there. This is inductive only if the start of a
request lets go of one other at most, which is `SharersAreSingle`: a request that is underway while another with its id listens
has a consumer of its own. The theorems have the form `Spec /\ []SharersAreSingle => []P`. The condition is used in one
place, lemma `FetchKeepsSlots`, and cannot be dropped: without it `SlotsAreHeld` is violated by the run `SlotLost`, and section 4 has an instance for the other. It is a condition on who
uses the queue, not something the queue sees to, and it is about requests that are subscribed at the same time: a panel that unsubscribes from its
queries before it runs them again, as `PanelQueryRunner` does, may give them the same ids and combine them as it likes.

### 5.6 Model-checked only

All liveness, which is out of reach of the prover: `RuleIsEvaluated`, `DeletedRuleIsForgotten`,
`LatestVersionTakesOver`, `EveryCallEnds`, `SpinnerStops`, `LastRunIsShown`, `UnusedChannelIsClosed`,
`VariablesEnd`, `LoadingEnds`. Every other property of a passing run is a theorem. The four findings are
properties that do not hold, one of them (`SlotsAreHeld`) with a theorem about the condition under which it does.

## 6. Not modelled

Reads of the cache by the API; screenshots, annotations, the state history and
metrics; folders, rule groups and listings of the rule store; the expression
engine and data sources (an evaluation is any result for any series); the
Alertmanager library, of which only the last `EndsAt` of each alert is kept; Go
data races (`needsUpdate`, states handed out by pointer, `IntervalSeconds` raised in a
shared rule). Results whose labels collide in one cache ID are not produced.

Of the frontend: the alerts and toasts of `BackendSrv`, and requests that bypass the
queue; transformations, field configuration, shared queries and the contents of frames; the
workers of `DashboardQueryRunner` one by one; field filters, time limits and several addresses
of live streams, and presence; dashboards of public links and snapshots (whose errors are caught likewise) and the home dashboard's redirect; changes of variables by the user
or by a time range, the internals of a variable's query (`VariableQueryRunner`), circular dependencies, and the URL.
React's rendering is reduced to mounting and receiving data.

Hazards of parts without a model: `sendAlertsTo` read without its lock and again under it
(`sender/router.go:266`), a sender that stays without a configuration (`sender/router.go:171`), a
nil Alertmanager stored for an organisation (`notifier/multiorg_alertmanager.go:189`), a
server lock taken over from a holder that still executes (`grafana/pkg/infra/serverlock/serverlock.go:189`),
and in the sidecar a resource version recorded before the work is done, deletions missed
while a watch restarts, and a reload lost by an assignment (`k8s-sidecar/src/resources.py:241`, `:222`, `:112`).

## 7. Running the checks

    tlc -config StateAlerts.cfg MCStateManager.tla
    tlc -config SchedulerOverlap.cfg MCRuleScheduler.tla
    tlc -config FetchQueue.cfg MCFetchQueue.tla
    tlc -config SlotLost.cfg MCSlotLost.tla
    tlc -config DashboardInit.cfg MCDashboardInit.tla
    tlapm RuleScheduler_proofs.tla
    tlapm StateManager_proofs.tla
    tlapm PanelQuery_proofs.tla
    tlapm LiveStream_proofs.tla
    tlapm DashboardInit_proofs.tla
    tlapm FetchQueue_proofs.tla

## 8. Plan

| order | work | properties and theorems |
|---|---|---|
| 1 (done) | `AlertState`, `StateManager`, `RuleScheduler` and first proofs | this document |
| 2 (done) | `FetchQueue`, `PanelQuery`, `LiveStream` with `LiveFrames`, `DashboardInit`; proofs of the second and the last | this document |
| 3 (done) | proofs of `StateManager`, of the rest of the safety of `RuleScheduler`, of `NeverGoesBack`, and of `LiveStream` with its refinement of `LiveFrames` | section 5 |
| 4 (done) | proofs about `FetchQueue`: types, `OneInFlight`, `NothingWaitsNeedlessly`, and the condition under which `SlotsAreHeld` and `AtMostMaxParallel` hold | section 5.5 |
| 5 | `VariableQueryRunner` with changes by the user beside a transaction; Explore's queries (`features/explore/state/query.ts`); `TimeSrv` and `PlaylistSrv` | the latest choice is shown; a refresh never runs for a closed page |
| 6 | `Sidecar`: list and watch loops of `k8s-sidecar/src/resources.py` | files converge to resources |
| 7 | `ServerLock`; `AlertsRouter` with the multi-organisation Alertmanager | mutual exclusion and when it is lost; alerts reach exactly the chosen Alertmanagers |
| 8 | a composition of `StateManager` and `RuleScheduler` with colliding cache IDs; an abstract alert life cycle | refinement |
