# TLA+ specifications of the threat-hunting platform

The platform (`api/`, `detection/`, `alert_manager/`, ... a FastAPI server on
SQLite) watches Windows endpoints through Wazuh, scores their events with
XGBoost detectors, raises alerts, can act on the endpoints and can train its
models with other organisations: an operator or the mobile app sends a command,
a PowerShell script started every minute on the endpoint
(`scripts/agent_command_handler.ps1`) fetches it, carries it out and reports.
This directory models, checks and proves the parts in which several actors or
several steps can get in each other's way.

## The system, part by part

| part | state | operations | what is hard | module |
|---|---|---|---|---|
| Fleet command queue (`api/command_queue.py`, `api/routes/fleet.py`, `agent.py`, `shared/commands.py`) | SQLite tables agents, commands, command_results | enrol, rotate, send, broadcast, poll, result | lost, late and duplicate requests; rotation while old processes live; two clocks | `FleetCommands` |
| Endpoint poll loop (`scripts/agent_command_handler.ps1`) | registry, one process per minute | poll, run a batch, report | killed between any two steps; clock error | `FleetCommands` |
| Endpoint isolation (same script) | firewall, adapters, registry, deadman task | isolate, unisolate, self-heal, panic, retry | many side effects with no transaction; two scheduled tasks; a host that cuts itself off | `Isolation` |
| Handler update (`api/handler_store.py`, `api/routes/admin.py`, same script) | versions with a status; live script, backup and registry on the endpoint | upload, scan, promote, delete, push, retry, fetch, swap, roll back | manifest and content fetched apart; a script that replaces itself file by file | `HandlerUpdate` |
| Models (`detection/model_store.py`, `registry.py`, `api/routes/models.py`, `training/scheduler.py`) | version directories with a status, a `latest` link, the model in memory | save, promote, roll back, discard, delete, retrain, reload | several files changed one after the other; event loop against two threads; restarts | `ModelLifecycle` |
| Events, alerts, notifications (`shared/events.py`, `alert_manager/`, `observability/notifications.py`) | alert store, correlation buffer in memory, notification rows | dedup, persist, notify, publish, correlate | tasks interleave at every await; caps and windows checked before and written after | `AlertPipeline` |
| Ingestion (`ingestion/`, `_detection_loop` in `api/main.py`, `api/routes/diagnostics.py`) | sliding window, circuit breaker, dead letters | poll, add, evict, flush, replay | periods that do not divide; outages; refused events | `Ingestion` |
| Federated participation (`federated/`, `api/routes/fl_local.py`) | keys, configuration, consent, contributions, removal state | enrol, opt in, contribute, rotate, leave, purge | a coordinator over the network, lost answers, deaths between commits | `FederatedMember` |
| Enrolment tokens (`api/enrollment_tokens.py`) | tokens and their uses | create, validate, consume, revoke | two statements in autocommit mode, cap | |
| Authentication and pairing (`shared/security.py`, `api/routes/auth.py`, `observability/paired_devices.py`) | users, keys, used pairing tokens in memory | mint, exchange, unpair | single use across restarts | |
| Audit trail (`observability/audit.py`) | hash-chained file | log, verify | hash in memory against a commit that failed | |
| Mobile outbox (`mobile/android/.../core/sync`) | Room rows with attempts and due times | enqueue, flush, retry | backoff against WorkManager; requests sent twice | |
| Triage and quarantine (`api/routes/alerts.py`, `training/scheduler.py`) | status of one alert | acknowledge, verdict, quarantine | | |

The server runs in one process on one event loop. A route handler without an
`await` therefore runs to completion and no other handler sees it half done. Where
the modelled question is what a death leaves behind (a promotion of a model, a
purge, a contribution) each file or commit is an action. `Broadcast`, `ServePoll`,
`RecordResult` and `Scan` commit more than once and are one action each: that the
server dies between their commits is not modelled. Handlers interleave only at
their awaits (alerts, notifications, the detection loop), and with the threads
that retraining uses.

How the parts interact: an endpoint's update commands travel through the
command queue (`HandlerUpdate` sees of `FleetCommands` a queue handed over whole
whose answer may be lost); the detection loop hands a snapshot to the detectors,
which hand detections to the alert chain (`Ingestion` ends where `AlertPipeline`
begins); the federation's poller stages and promotes versions in the model
store, which is why `ModelLifecycle` contains `sync_global` and `promote_due`,
and contributes what the store calls latest (`FederatedMember`). The abstract
specifications `CommandLifecycle`, `ModelRelease` and `FederationConsent` say
what each promises without saying how.

Every part, modelled or not, is listed in `PROJECT.json` with its sources;
what is hard to test in each is listed there as a hazard at its line.

## Modules

| module | what it models |
|---|---|
| `CommandLifecycle` | The promise of the channel for one command: issued once, handed over at most once, handled at most once, and recorded as it went. No queue, secrets, clock or network. |
| `FleetCommands`, `FleetCommandsProofs` | The command queue, its routes, the network and the endpoints' poll iteration; implements `CommandLifecycle`. |
| `Isolation`, `IsolationProofs` | What the endpoint script does to its host to isolate it and to recover it. |
| `HandlerUpdate`, `HandlerUpdateProofs` | The store of handler versions, the operator's routes and the updater in the endpoint's script. |
| `ModelRelease` | The promise of the model store: each version goes through its stages, is active only if approved, and only approved versions are pointed at and served. |
| `ModelLifecycle`, `ModelLifecycleProofs` | One detector's versions on disk, the link, the model in memory, and everybody who changes them; implements `ModelRelease`. |
| `AlertPipeline`, `AlertPipelineProofs` | Concurrent alert chains from a detection to notifications, the Wazuh log and the kill-chain bundle. |
| `Ingestion`, `IngestionProofs` | The detection loop with connector, breaker, preprocessor, window, dead letters and replay. |
| `FederationConsent` | The promise of the federation's member side: outside, member, consenting; models leave only under a consent. |
| `FederatedMember`, `FederatedMemberProofs` | An organisation's membership, keys, contributions and departure; implements `FederationConsent`. |
| `MC...` | Values for TLC. |

Operators whose comment begins with "Mutant" are not used by the
specifications: each is a definition as a plausible mistake would have it, and
serves to check that a property notices the mistake.

### FleetCommands

`row`, `cmds` and `result` are the three tables. A secret is the number of the
enrolment that made it and a signature is the number of the secret it was made
with, so a check of a signature is a comparison; `Authentic` is that comparison
together with the timestamp window of `parse_and_verify_auth_header`. `polls`,
`posts` and `answer` are requests and the one answer an open connection can
carry. `agent[a]` holds the registry's secret, the clock error, and the
process: which secret it loaded (`procKey`), the commands it still has to take
(`batch`), and the result it has not posted yet (`report`).

One action per handler: `EnrollAgent`, `RotateSecret`, `SendCommand`,
`Broadcast`, `ServePoll`, `RefusePoll`, `RecordResult`; on the endpoint
`StartPoll`, `ReceiveCommands`, `ReceiveRefusal`, `SkipExpired`, `RunCommand`,
`SendResult`, `FinishPoll`. The environment loses requests and results, kills
or times out the process at any point (`StopProcess`: the request it sent stays
in the network and is served like any other, its answer goes nowhere), and
changes the clock between two iterations. `trace` is history: under which
enrolment a command was issued, how often it ran, with what outcome.

Assumptions: at most one poll process per endpoint (the task's default is to
ignore a start while an instance runs; deploying again over a running handler
could start a second one, which is not modelled); the clock of an endpoint is
not stepped while an iteration runs; a secret is installed after the enrolment
that made it. The ties of `ORDER BY sequence` are cut in any way. A heartbeat's
route can write a profile as well (`api/routes/agent.py:256-264`), but the script
sends none with it. `ProfileEarned` says where a profile comes from, not which of
two results that arrive out of order wins: the last one does.

### Isolation

State: the firewall's default outbound action `outb` and whether it is enabled,
the two groups of rules the script creates, the virtual adapter, and what is in
the registry: saved defaults, list of disabled adapters, level, retry count.
`deadman` is the scheduled task: none, armed, spent (it has fired; the task is
one-shot) or failed (the scheduler refused it and the result said so).

The script runs as two processes: `poll`, every minute, and `panic`, started by
the deadman task or by an administrator. `proc[p].pc` is the next side effect,
one action each, in the order of the script. The three firewall profiles are
one, the RFC 1918 rules of level standard belong to the group "level" although
the script creates them just before the default is changed, and toasts, logs
and the panic marker are left out. `_IsolationVerifyTeardown` is one step. When
the lifeline is gone after the adapters were disabled, they are enabled first
(`ReenableAdapters`) and the teardown follows, which does so again.

`Faults` names the misfortunes a run admits. A host whose default action is
Block before isolation is left out: on it the probe of 1.1.1.1 need not tell
anything (see the hazards).

### HandlerUpdate

`store` is the `handler_versions` table by label; a script is its content, so a
sha256 is the content itself. `files` are the live script and its `.bak`, `reg`
the registry (version, sha256, previous, bad version). `agent.pc` is the next
step of the running poll: every `Move-Item` and `Remove-Item` of
`_HandlerFetchAndApply` and `Invoke-RollbackHandler` is an action of its own
(`DropBackup`, `RotateLive`, `PlaceNew`, ..., `TakeLive`, `PutBackup`,
`KeepTaken`), the registry's writes are one (`Register`, `SwapLabels`), and
`Kill` may strike between any two. `Contents` are scripts the store's validation
accepts, `Sound` those that pass the endpoint's self-test. Every route of the
operator (`Upload`, `Scan`, `Promote`, `Delete`, `Push`, `Retry`,
`PushRollback`) is an action and acts between any two steps of the endpoint, so
a label may be deleted and given to another script between manifest and content.
`crumbs` and `torn` are history: whether the registry was last written by a
verified update, and whether a process was killed while it moved files.

### ModelLifecycle

`status` and `meta` are the manifests, `latest` the link, `served` the model in
memory. Three activities interleave: the event loop (`loop`: requests and the
federation's poller, one at a time), the thread of a retrain request (`worker`),
and the scheduler's executor thread (`trainer`). A promotion is a step per
manifest (`LoopArchive`, `LoopActivate`), one to remove the link (`LoopUnlink`),
one to make it (`LoopLink`, which raises if another activity made it) and one to
reload (`LoopReload`); `WorkerSave` ... `WorkerReload` do the same beside it, and
`Restart` loads what the link names. `Refused` are versions whose files
`_load_verified` refuses. `approved` is history: what an operator (or a retrain
an operator asked for) put into service; `disturbed` marks a switch that another
switch overlapped or a restart cut short, and the two properties about the link
except exactly those.

### AlertPipeline

A chain is a task that emits on the bus and waits for all handlers: the
detection loop, and beside it a dead letter's replay and the end-to-end test
(`api/routes/diagnostics.py`). A step is the code between two awaits that give
way: `OnDetectionMade` (dedup, persist, emit), `Dispatch` and `SendDone`
(notifications of one user up to the awaited sends), `PublishFails`,
`PublishSingle` and `PublishBundle` (what follows the emit; `publish` itself
never gives way). `alerts` and `notices` are tables and survive `Restart`;
`recent` and `correlatedUntil` are memory and do not. A row's time is that of
the newest event, which lies up to `Lag` before the alert; `Patience` bounds how
long an alert's awaits take. A unit of time is the correlation window.

What may fail: the audit entry after the emit, which nothing guards, or the
publication (`PublishFails`: either ends the chain before the correlation hears of
the alert); the enrichment or the write of a bundle (`Correlate`'s other branch);
the bundle's publication and its audit entry (`PublishBundle`: without the entry
the code does not get to marking the entity quiet); the tables of the
notifications (the dispatch ends). A write that fails leaves nothing. `lapsed` is
history: the alerts whose bundle failed. An SMS that was sent and whose status
could not be written is not counted by the code, nor by `SmsBounded`.

### Ingestion

Time is relative: each event has an age, the last flush and the last failure lie
so many units back, up to a horizon after which nothing depends on them; a slot
takes another event when nothing remembers the first, so that the state space is
finite although the loop never ends. `loop` is the place of `_detection_loop`
(poll, flush, detect, sleep), `breaker` the connector's circuit breaker with its
half-open state, `buffer` the window, `batch` the snapshot in the detectors'
hands, `letters` the dead letters of each event. `valid` is what the
preprocessor accepts as configured; `Fix` corrects it. A file of the queue is named
by its millisecond and replaces one of the same name, so of the events refused
together any but the last may lose theirs, and the first may replace the file
`newest`, written just before (`Enqueue`). `accepted`, `flushed`, `refused` and
`lost` are history; `lost` are the events without a file because it was replaced
or could not be written. An answer that cannot be read, or a letter that cannot be
written, ends the cycle without a flush (`FetchGarbled`) and, like a restart,
removes what the window owes from the account. A write that fails leaves nothing.

### FederatedMember

`key`, `config`, `optedIn`, `mode`, `removal` and `history` are the tables of
`local_state.py`. Every route and every tick of the poller runs in the event
loop without giving it up, even during its requests, so `job` is at most one of
them, at a place between two commits or around a request; `Death` may strike at
any place. `org`, `open`, `wire`, `taken`, `have` are the coordinator and the
network, which are external: modelled from what this side sends and expects. The
history is unbounded: `Ids` are the rows in view, and a row that is not being
worked on may leave the view for a new one.

## Runs

| run | bounds | shows |
|---|---|---|
| `fleet` | one endpoint, 2 commands in a batch of 2, 2 enrolments, 4 instants, window 1, clocks 1 or 2 behind, two profiles (symmetric) | `AtMostOnce`, no command later than its expiry plus the window (`StalenessBounded`), a retired secret gets nothing issued after it (`RetiredSecretPowerless`), `ProfileEarned`, refinement of `CommandLifecycle` |
| `fleet_live` | 2 commands in batches of 1, fair | commands of an enrolment start in order; a pending command leaves the queue unless it expires or the endpoint cannot authenticate |
| `isolation` | both processes one at a time, faults net, tamper, apply, arm; 3 retries | the properties below |
| `isolation_interrupted` | a process may die anywhere | violation of `Undoable` |
| `isolation_race` | the two tasks overlap | violation of `SafetyNet` |
| `handler` | 1 endpoint, an operator's label and a scanned one, 3 scripts of which one fails its self-test, 3 uploads, 1 command, 1 kill | see below |
| `models` | 3 versions (the second refused by the loader), 1 global model, 2 scores, 1 restart | see below |
| `models_rejected` | 3 versions, 1 global model | violation of `RejectedStaysOut` |
| `alerts` | 2 chains, 2 detectors, 1 host, 1 user, 4 alerts, 4 instants, 1 restart, SMS cap 1, 1 end-to-end test, a notice window of 3 | see below |
| `ingest` | 2 events, poll 1, window 2, grace 2, a cycle of up to 1, breaker 2/1; a letter stands for one or more; outages, restarts and failures without bound | see below |
| `ingest_shipped` | the shipped 120 s / 300 s / 30 s as 4 / 10 / 1 | violation of `NothingMissed` |
| `federation` | 2 contributions in view, 1 round that opens and closes, 2 key pairs, 1 death | see below |

What the properties say, by run:

- `isolation`. `NeverStranded`: no step of the script leaves the host blocked
  without its lifeline; only tampering can. `Undoable`: what was changed is at
  every moment on record to be undone. `CleanWhenClear`: when nothing is
  recorded and no script runs, the host is as before. `SafetyNet`: a host left
  isolated has its deadman armed, unless the scheduler refused it or the retries
  are used up. `DeadmanLifts`: an armed isolation ends, with the same exceptions.
- `handler`. `KeepsWorking`: between updates the live script and its backup have
  passed the self-test, unless a process was killed while it moved them.
  `ReportTrue`: the version reported is one the store held with the very script
  that runs. `LiveKept`: once there is a live version there is always exactly
  one. `Converges`: an endpoint comes back to a sound live version after every
  failure, push of another version and rollback.
- `models`. `ServedApproved`: only versions an operator put into service, or
  global ones whose soak is over, are pointed at or scored with. `LinkActive`:
  the link names an active version, so a deletion cannot take it. `ServesLatest`:
  the model in memory is the one the link names, which the federation relies on.
  `ImplementsRelease`: the stages of `ModelRelease`. `SoakDecided`: a soaked
  global model does not stay staged.
- `alerts`. `OneAlertPerWindow`, `OneBundlePerWindow`, `OneNoticePerWindow`: one
  alert per detector and entity, one bundle per entity, one notification per user
  and subject in their windows, however the chains interleave and across
  restarts. `KillChainBundled`: when two detectors have published on an entity
  within the window, a bundle of that entity is there by the time of the second
  and is at most a window old, or enriching or storing one failed at that moment
  (which loses it: see below). `BundleEarned`: a bundle names two detectors, and of
  each an alert on its entity that was published at most a window earlier.
  `SmsBounded`: concurrent dispatches exceed the daily cap by at most one message
  for each other chain.
- `ingest`. `NothingMissed`: what the window accepted reaches the detectors
  before it is evicted. `RefusedKept`: a refused event has a dead letter until it
  has been handed over, unless the letter was replaced within its millisecond or
  could not be written; an event refused again gets one again. `Flushes`, `Recovers`: accepted events are handed over,
  and the breaker closes when the indexer is back.
- `federation`. `ToldTrue`: what the organisation is told about contributions and
  its removal is true. `ImplementsConsent`: nothing is sent without a consent of
  the present membership. `Participates`: an admitted automatic member gets a
  model into a round that stays open.

Why the bounds are enough. Endpoints do not interact: an action touches one
agent except a broadcast, which adds a command to each of a set; the theorems
cover any set. A clock 2 behind lies outside the window of 1, a clock 1 behind
inside it. Two enrolments give an old and a new secret. In `Isolation` nothing
is bounded but the retries, which have the script's own cap. Three uploads give
a live version, its replacement and a label used again; one kill is enough
because what it leaves is what the next poll starts from. Three versions give a
predecessor, the version at work and one saved meanwhile. Two chains are all the
concurrent emitters that matter to a window of one entity, and four alerts are
two singles, a bundle and one more. With a second user the run is too long to
repeat; the theorems about notifications hold for any number. One letter of an event
stands for several: counting more makes the count larger and no other difference,
and the theorem holds for any `MaxEntries`. Two events and a poll interval of one unit give an event
accepted just before and one just after a flush. Two contributions in view give
one at work and one whose upload is still under way; with two rounds and one
contribution the same properties hold. Symmetry is used in `fleet` (profiles)
and `alerts` (chains, detectors), with no liveness property, and nothing tells
the values apart. Deadlock is not checked in `models` and `alerts`, which end
when their versions or instants are used up, nor in `handler`, where a kill
between two moves leaves no script to start.

Fairness. Fleet: the scheduler starts the script again and again (weak), a
running script moves or is timed out (weak), the server answers a request that
reaches it (weak), and a poll sent for ever is not lost every time (strong).
Isolation: a running script moves (weak); a poll has a finite batch of commands,
so it ends (strong: it may answer several commands in between); an armed task
fires in the end although polls run again and again (strong: the model lets one
process run at a time, the task scheduler does not make it wait for ever).
Handler: a poll starts every minute and runs on (weak); a manifest and a content
asked for ever are not lost every time (strong). Models: the event loop runs
what it started (weak) and comes back to the poller's timer among the requests,
as asyncio serves ready callbacks in order (strong). Ingestion: the clock and
the loop run (weak). Federation: the route or tick under way goes on (weak), the
poller's tick is served among the routes (strong), and an upload of a round that
is tried for ever gets out and gets through (strong, per round).

## What disagrees with the code's own words

Shown by a run that expects the violation:

- `_IsolationSaveProfileDefaults` calls itself idempotent and overwrites: after
  an ISOLATE that died between blocking and recording, the next one stores
  Block as the original (`isolation_interrupted`).
- The deadman is to restore the host if nothing has by the deadline; two tasks
  with no lock between them can leave an isolation without one
  (`isolation_race`).
- A global model is promoted after its soak "unless the admin promoted/rejected
  them first" (`federated/participation.py:12-14`); a discarded one is staged
  again by the next tick and promoted later (`models_rejected`).
- "Flush once per analytic window so feature extractors see the full window's
  events" (`api/main.py:527-528`): with polls every 120 s the flush period is
  360 s, above the 330 s of retention (`ingest_shipped`).

Met while modelling, without a run of their own:

- `expire_old_commands` is to be called periodically and is never called.
- The verification of a recovery looks for disabled adapters in a list the step
  before has emptied, whether or not it succeeded; with the misfortune "restore"
  `CleanWhenClear` does not hold, which is why the theorem assumes it away.
- Repeats are suppressed "within 30 minutes" (`docs/requirements.md:71`); the
  window is counted from the newest event behind the earlier alert, so it is
  shorter by that event's age, and nothing is deduplicated when a dead letter
  older than the window is replayed. `WindowsAssumption` says how old events may be.
- "Once we've fired a correlated alert for this source_entity within the window,
  don't re-fire" (`alert_manager/subscriber.py`): the mark is set after the awaits
  of the bundle. What keeps two chains from bundling twice is that each of the two
  detectors is deduplicated for longer than the window. A third detector ("just
  add config", `config/detectors.yml:30`) that publishes during those awaits finds
  the first two published and the mark not yet set, and a second bundle is stored:
  with three detectors TLC violates `OneBundlePerWindow`. Two are registered.
- `deduplication_window_minutes` (`config/platform.yml:19`) is read by nothing: the
  window is the 30 minutes that `api/main.py:184` falls back to, since
  `PlatformConfig` has no field of the name it asks for.
- The end-to-end test's alert is "unique so dedup never suppresses"
  (`api/routes/diagnostics.py:235`); the notification's deduplication looks at
  entity and detectors, so a second test in the window pages nobody.
- An alert whose publication failed, or that a restart overtook, is never
  published, and deduplication keeps it from being raised again. "Publish failure
  is non-fatal" (`alert_manager/subscriber.py:155`), but the audit entry before it is
  not guarded: when it cannot be written the alert is neither published nor heard
  by the correlation.
- A kill chain whose bundle cannot be enriched or stored (`subscriber.py:205-221`)
  is never announced: both detectors' alerts are in, their next ones are suppressed
  for longer than the window. Without `lapsed`, TLC violates `KillChainBundled`.
- Dead letters are to keep refused events for inspection; `dlq_<ms>.json`
  (`ingestion/dead_letter.py:30-32`) names a file by the millisecond, so two events
  refused in one batch can share one and the second replaces the first. Without
  `lost`, TLC violates `RefusedKept`. An event is only safe again when a later
  poll still returns it.
- A handler retry is "idempotent" (`api/routes/admin.py:876-878`); installing the
  installed version again replaces `.bak` and the previous version, so a later
  rollback leads back to the same script.
- "Atomic replace" in the script is two moves; a rollback after a failed update
  swaps the labels although `.bak` is the current version; a rollback lasts until
  the next poll's self-update.
- `rollback` leaves two versions active; the regression check then compares with
  the newest active one, not with the one `latest` names. A retrain's thread that
  overlaps a promotion can leave the link on an archived version, which `delete`
  may then remove.
- A detector without a model at start stays out of the subscriber's list until
  the next restart.
- A replay that is refused again is said to leave the entry in place; it also
  writes another. A replay removes the entry even if no detector is loaded.
- "Opt in to participate in the next round" (`api/routes/fl_local.py:380`): an
  organisation that enrols over an existing configuration keeps its consent.
- A contribution recorded as failed may be one the coordinator has, and a death
  leaves its row pending for ever; a death between the two commits of a purge
  leaves a removal "requested" that no route can finish.

## Proofs

`FleetCommandsProofs` proves, for any agents, profiles, batch limit, window,
clock errors and bounds (`BoundsAssumption`, evaluated by every fleet run):

- `TypeCorrect`: the types are an invariant.
- `InvCorrect`: `Inv` is an invariant. `AtMostOnce` is not inductive: that a
  command has not run yet must follow from its being in a process's hands, that
  from its having been delivered, and that no second answer is on its way. `Inv`
  says these things: `Connection` (one open connection, answers only to a
  waiting process, commands only in a running one), `Custody` (what is in an
  answer or in hand is delivered and untouched), `Truthful` (reports and posts
  say what happened), `Fresh` (who was given commands has a clock the server
  accepted), `Epochs` (no process holds commands of a later enrolment than its
  secret). There is one lemma per group of actions, and `Untouched` serves the
  agents an action leaves alone.
- `AtMostOnceCorrect`, `StalenessCorrect`, `RetiredSecretCorrect`,
  `ProfileCorrect` follow from it, the action properties because only
  `RunCommand` runs a command.
- `LifecycleRefined`: `FleetCommands` implements `CommandLifecycle` under the
  mapping of its instance `Lifecycle`.
- `IssueOrderKept` (`IssueOrder`), for any batch limit, any delay and however
  often a process is killed. Nothing in the code says it: the poll sorts what it
  hands over, the endpoint takes a batch in order, and a batch that is lost takes
  its commands with it. `Ordered` says of an earlier and a later command of one
  enrolment that the later one has the greater number, that it is handed over
  alone only if the earlier one has expired (an expired command is never handed
  over, and time does not go back), and that once it was taken the earlier one is
  in no answer and in no hand. `Sequenced` ties the counter to the enrolment,
  because a new enrolment starts it again.

`IsolationProofs` proves, for any number of retries and any misfortunes
(`FaultsAssumption`):

- `TypeCorrect`: the types are an invariant, with no further assumption.
- Under `Orderly` (the two tasks do not overlap, the cmdlets of the teardown
  work), and for `Spec`, in which no process dies: `IInvCorrect`, and from it
  `RecoveryPossible` (`Undoable`), `NothingLeftBehind` (`CleanWhenClear`),
  `DeadmanWaits` (`SafetyNet`) and `LifelineKept` (`NeverStranded`). Each of
  the three things assumed is needed: `isolation_race` and
  `isolation_interrupted` show what happens without two of them, the misfortune
  "restore" what happens without the third.

None of those invariants is inductive: what a step may do depends on where the
script is. `IInv` says it point by point: `Control` (which job may be where),
`Recorded` (what the registry says of the level meanwhile) and `Progress` (how
far firewall, adapter and registry have got), besides `OneRuns`, which makes
the other process's part vacuous. `Moves` says what a move does to the two
processes, `Assemble` what a step has to show of the one that runs; `IInvWork`
has one step per action of the script and `IInvStep` the rest.

`HandlerUpdateProofs` proves, for any labels, scripts and numbers of uploads,
commands and kills (`HandlerAssumption`):

- `TypeCorrect`; `Working` (`KeepsWorking`) and `Reported` (`ReportTrue`), both
  from `IInv`: `SoundScripts` says at each place of an update and a rollback
  which of live script, backup and script set aside have passed the self-test,
  `KnownToStore` that what an update is about is a pair the store has held,
  `CrumbsTrue` that the registry tells of the script that runs or is about to.
  The properties speak of the places between updates only and are not inductive.
- `OneLiveKept` (`LiveKept`) from `OneLive`: no two labels are live. A promotion
  retires the one and raises the other in a transaction, and a live label is not
  deleted; the count follows from `AtMostOneElement`.

`FederatedMemberProofs` proves, for any contributions, rounds, key pairs and
deaths (`MemberAssumption`):

- `TypeCorrect`; `Told` (`ToldTrue`), whose strengthening adds what the job under
  way is about to write; `Refinement`: every step is a step of
  `FederationConsent` or a stutter under the mapping of its instance `Consents`.

`ModelLifecycleProofs` proves, for any versions, scores, global models and
restarts (`BoundsAssumption`):

- `TypeCorrect`; `OnlyApprovedServed` (`ServedApproved`), from `Inv`: numbers not
  given out yet carry nothing (`Fresh`), a promotion under way is of a chosen
  version that is there (`Promoting`), a retrain's thread works on a version that
  was asked for (`Retraining`), and `latest` and `served` are chosen (`Pointed`).
  The property is not inductive because link and memory are written long after
  the decision, by whoever is in between. `Refinement`: every step is a step of
  `ModelRelease` or a stutter under the mapping of its instance `Release`.
- `LinkNamesActive` (`LinkActive`) and `LatestIsServed` (`ServesLatest`), from
  `Calm`: unless a switch was disturbed, the loop and the retrain thread take
  turns (`TakingTurns`), each finds the link as it left it and points at what is
  still active (`LoopOnCourse`, `WorkerOnCourse`), and between switches the link
  names an active version that is loaded (`LinkNamed`, `LinkLoaded`). The two
  properties hold for want of an interleaving, not by a lock: what a switch decided
  is written several steps later, and the invariant has to carry the decision.

`AlertPipelineProofs` proves, for any chains, detectors, entities, users and
windows (`WindowsAssumption`):

- `TypeCorrect` (from `Typed`), whose strengthening says that a chain that is not
  idle carries an alert; `OneAlert` (`OneAlertPerWindow`) from `Dated`: a stored
  alert's events are not after it and at most `Lag` before it, so a new alert that
  `is_duplicate` lets pass lies outside the window of every earlier one.
- All the others rest on `Bookkeeping`: a chain at work has its alert in the books
  (`Carrying`), no two chains have the same one (`Shared`), and numbers not given
  out yet are blank (`Filed`).
- `OneBundle` (`OneBundlePerWindow`), for at most two detectors
  (`Cardinality(Detectors) <= 2`, a hypothesis of the theorem and true of the
  platform, which registers two), for any number of chains and across restarts.
  `correlatedUntil` cannot carry the proof: it is written after the awaits and
  lost with the process. `HeardOut` says that what the correlation remembers was
  published, `BundleOut` that behind every bundle are two published alerts of
  different detectors at most a window old; with two detectors two bundles have
  an alert of each in common or two alerts of one detector too close together,
  and `Deduplicated` forbids the latter.
- `KillChainIsBundled` (`KillChainBundled`, with its exception): `Remembered`
  (while the process lives every alert published within the window is remembered),
  `Announced` (an entity is only quiet because of a bundle it has had), `Chained`.
- `BundlesAreEarned` (`BundleEarned`), for any number of detectors, from `HeardOut`
  and `BundleOut`.
- `NoticesApart` (`OneNoticePerWindow`): between the look at the table and the
  write there is no await, so `Noted` (what a user was told is in the books, and
  not of the future) suffices however many chains notify.
- `SmsWithinBound` (`SmsBounded`): the cap is looked at before the send and counted
  after it. `Capped` counts what was sent together with what is in the air
  (`InTheAir`), which a chain can only join while the sum without it is below the
  cap.

`IngestionProofs` proves, for any events, intervals and breaker
(`IngestionAssumption`):

- `TypeCorrect`; `RefusedStay` (`RefusedKept`, with its exception), from
  `LettersHold`: the event being replayed has a file that is not the newest one, so
  that no letter of this millisecond replaces it, and the newest file is there.
  `EnqueueKeeps` is the lemma about letters written together.
- `NothingIsMissed` (`NothingMissed`) for every configuration in which
  `Grace + 1 >= Window + MaxWork`, that is, retention must exceed the window by
  almost another window and the longest cycle: an event may be as old as the
  window when it is accepted, waits up to a window for a flush whose time comes
  between two polls, and is evicted by age at the next poll. `Rhythm` and `Ages`
  bound an owed event's age by the place of the loop and the time since the last
  flush; `Snapshot` says that while the detectors work nothing is owed. The run
  `ingest` meets the condition exactly; the shipped intervals do not meet it.

`WindowsAssumption` asks for a chain, an entity, finitely many chains and
detectors, and a deduplication window that, less the age an event may have,
exceeds twice the correlation window and the awaits of an alert (30 minutes
against 5, as shipped).

Only model-checked: the liveness properties under fairness
(`PendingDelivered`, `DeadmanLifts`, `Converges`, `SoakDecided`, `Flushes`,
`Recovers`, `Participates`), which need ENABLED and are out of the prover's
reach; and what `Isolation` does when processes die, overlap or fail to tear
down. Every other property a passing run checks is a theorem. Nothing here uses
recursive operators.

## Not modelled

- Enrolment tokens, the mobile outbox, pairing and the audit trail: small
  protocols of their own, whose hazards are listed; see the plan.
- Triage, verdicts and quarantine: status changes of single rows.
- Feature extraction, scoring, training, thresholds, drift and explanation:
  numerics. What is trained enters the model as a score.
- The cryptography of the command channel and of the federation: a signature is
  the key it was made with, and forging one is not considered.
- The coordinator (another program), dashboards, deployment scripts, notebooks.
- Within the modelled parts: heartbeat and last-seen times; the wording and the
  other channels of notifications; a death of the server between the commits of the
  actions named above or in the middle of writing a model's manifest, which the code
  writes in place; rows a failed commit leaves in the connection's open transaction
  and a later one writes; more events than one answer holds; two handler processes on one
  endpoint; a `latest` read in the middle of a hot reload.

## Plan

1. Core (`FleetCommands`, `Isolation`) and extension (`HandlerUpdate`,
   `ModelLifecycle`, `AlertPipeline`, `Ingestion`, `FederatedMember`): done.
2. Proofs of the safety and action properties of all runs: done.
3. `EnrollmentTokens` (cap, same agent again, crash between the statements) and
   `MobileOutbox` (rows, backoff, worker runs).
