# RunBuoy in TLA+

RunBuoy follows long-running commands: `runbuoy run` starts a command under a
Worker process in tmux, the Worker records what happens in a local SQLite
outbox, uploads it to a server, and the server shows it on an iPhone as a Live
Activity or a notification. This directory holds models of those protocols, the
TLC configurations that check them on small instances, and TLAPS proofs of what
holds for every instance.

Contents: 1 the system and its hazards; 2 the modules; 3 the runs; 4 what the
runs disagree with; 5 bounds; 6 fairness; 7 proofs; 8 what is left out; 9 plan.

## 1. The system

| Component | State | Operations | Talks to |
|---|---|---|---|
| Local store (`cli/.../persistence/store.py`) | `runs`, `events` with delivered flag and backoff, `machine_metadata_outbox` | create_run, append_event, pending_events, mark_delivered/failed, prune | Workers, CLI |
| Drainers (`networking/client.py`, `worker/runtime.py` upload loop, `runbuoy sync`) | the `flock` lease on the outbox | flush_pending, drain_pending | store, server |
| Launch (`cli/app.py`, `worker/runtime.py`, `socket_server.py`, `signals.py`, `executors/tmux.py`) | Run row, handoff file, Unix socket, result file, process group | run, ack, cancel, wait, escalate | CLI and Worker |
| Ingestion (`server/app/api.py`, `services.py`) | `runs`, `run_events` | PUT run, POST events:batch | drainers, push outbox |
| Push outbox (`services.py`, `outbox.py`, `worker/main.py`) | `push_outbox`, `live_activity_bindings`, device tokens | schedule_run_pushes, process_one | APNs |
| Pairing (`api.py`, `pairing/flow.py`, `cli/app.py`) | `pairing_sessions`, `machines`, `machine_credentials`, the CLI's credential store | create, claim, exchange, resume, unpair | CLI, phone |
| Lifecycle (`lifecycle.py`, `auth.py`) | `devices`, `machine_device_subscriptions`, `webhooks`, `workspace_deletion_challenges` | bootstrap, stop receiving, revoke, reset, delete Workspace | phone, machine, pushes |
| Sync (`sync.py`, `api.py`) | `workspaces.revision`, cursors | bump, snapshot, pages of history | phone |
| Limits (`abuse.py`, `api.py`, `services.py`) | `quota_locks`, `rate_limit_buckets` | lock and count, charge, clean up | ingestion, webhooks |
| Phone (`apps/ios/RunBuoyApp`) | activities, tokens, cache, identity | register tokens, activity sync, refresh, load more, reset | server |
| Retention (`server/app/retention.py`) | all of the above | periodic deletion and expiry | |

The hard behaviours are not inside these parts but between them:

* the outbox is shared by all Workers and drained under a lease, requests time
  out while the server still works on them, only a failed batch backs off;
* the server applies a batch in one transaction on a locked row, while PUTs,
  retention and other batches run;
* CLI, Worker, socket thread, signal escalation and target share flags, two
  files and a row, and any of them may die;
* push rows are read without a lock by HTTP handlers and held locked by a
  worker for as long as APNs needs; the phone registers tokens meanwhile;
* a credential is checked when a request begins and not again when it commits,
  while the machine is revoked, paired again, or its Workspace deleted;
* the store of the app is changed by a refresh, a "load more", a reset and a
  restored cache, each suspended between what it read and what it writes;
* limits count rows that other open transactions are about to add.

`PROJECT.json` lists each hazard at its line with the properties that would
catch it. What makes the parts correct:

* delivery: nothing is ticked off that the server lacks; the projection is a
  function of the ordered events; a final status is final; events drain;
* launch: no target without acknowledgement, no LOST Run with a process, no
  orphan, row and result file agree, a granted cancel works;
* pushes: one activity per Run, its end arrives, a failure is silent only by quota,
  nothing is sent twice while no worker dies, retries come to an end;
* pairing: one credential per session, for the Workspace that claimed it; what
  was revoked stays refused; what was deleted stays empty;
* sync: a copy the server calls unmodified is the server's data, a history
  loaded in pages has no gap, the app converges;
* limits: never more active Runs than allowed, the day's bucket is exact.

## 2. The modules

| Module | Stands for |
|---|---|
| `RunEvents` | statuses, event kinds and the transition table, shared by all |
| `RunProjection` | abstract: what the server's view of a Run promises |
| `EventDelivery` | outbox, drainers, network, ingestion, retention of events |
| `WorkerHandoff` | one Run from `runbuoy run` to its result file |
| `LiveActivityPush` | handlers, push workers and one phone |
| `MachinePairing` | one machine, CLI processes, phones: credentials and their end |
| `DeviceSync` | revision and snapshots of a Workspace, the store and cache of the app |
| `RequestQuotas` | open transactions against the limits of Runs and notifications |
| `EventDeliveryProofs` | types of `EventDelivery`, step by step |
| `EventSafetyProofs` | what was ticked off or pruned (extends `EventDeliveryProofs`) |
| `EventRefinementProofs` | the refinement, refusals, attention (extends `EventSafetyProofs`) |
| `WorkerHandoffProofs`, `LiveActivityPushProofs`, `MachinePairingProofs`, `DeviceSyncProofs`, `RequestQuotasProofs` | theorems about the module they extend |
| `MCEventDelivery`, `MCMachinePairing`, `MCRequestQuotas` | constants and symmetry of the instances |

### EventDelivery

`log[r]` is the event table of a Run; event `n` of `r` is named by its position,
so requests carry sequence numbers only. `delivered`, `cooling` and `remoteInit`
are columns of the SQLite tables. A drainer moves through the calls of
`flush_pending`: `StartDrain` takes the lease, `Fetch` a batch (`pending_events` order:
time of creation, then Run), `NextGroup` starts a Run's PUT or POST,
`PutAnswered`, `PostAnswered` and `RequestFailed` are the three ways its answer is
used, `FinishBatch` the loop of `drain_pending`. A request is served by the
server in steps: `RegisterRun`/`UpdateRun` for PUT, `BeginBatch`, one step per event
(`SkipDuplicate`, `IngestEvent`, `RefuseBatch`) and `CommitBatch` for POST, with the
uncommitted row in `tx[r]` because the handler holds the row lock. `Lose` drops a
request or its answer; `GiveUpEarly`/`GiveUpWaiting` are timeouts after which the
request goes on alone (`late`). `srv[r].stored` are the rows in `run_events`,
`accepted` is history: every seq that was ever inserted.

`RunProjection` knows neither queue nor transactions. `EventDelivery` implements it
with `applied` as the accepted events and `shown` as the server's status
(`ImplementsProjection`).

### WorkerHandoff

`cli` and `worker` are the program counters of `run()` and `Worker.run`; each
position is a place between two externally visible effects. `sock` distinguishes an
open socket from one whose single thread has died (`sendall` to a client that has
gone raises out of `_serve`), as happens when the CLI or an interrupted
`runbuoy cancel` (`UserGivesUp`) hangs up first: a CLI that comes after it is not
answered, gives the Run up, and the Worker finds it LOST. `inbox` keeps a request after
its client hung up, because the bytes stay readable. `Emit` is `append_event`, which
refuses a Run that has ended: that is how CLI and Worker notice each other's verdicts. Between the start of
the target and `run.started` are two places, because they fail differently: if the
process group cannot be recorded (`RegisterGroup`, the place `register`) the Worker
ends and the target goes on; if the event is refused (`EmitStarted`) the target is
killed first. `group` says that the first of them is passed, and `GivenUpStops` what
the second one owes.

### LiveActivityPush

One device. A handler is two steps: `BeginIngest`, `BeginRegister` or `BeginSync` does
its reads, `CommitStart`, `CommitEvent` or `CommitCall` its writes, with what was read
in `ingest` and `call`. A push worker is `Send` (row locked, provider called) and
`Settle` (answer recorded). Everything in between is a race. The locks are those of
PostgreSQL under READ COMMITTED:

* a worker holds its row `FOR UPDATE` (`Held`), so a handler that writes it waits,
  then overwrites whatever it has become (`Coalesced`, `Withdrawn`);
* the event handler holds its Run `FOR UPDATE`; a row that refers to the Run
  (binding or outbox row) cannot be inserted meanwhile (`RunIsFree`);
* `Deadlock`: the worker that sent a START needs the Run for the placeholder binding
  while the handler needs the START's row. One of the two is aborted.

`activity`, `phoneGen` and `told` are the phone. Token values are generations.
A placeholder binding (`pending:<row id>`) is the field `place` of the row it was
made for. `hits` counts how often APNs accepted a row; the code does not know it.

`Races` names the overlaps and faults an instance allows, so that a property can
be checked where the code guarantees it and shown to fail by exactly one race:

| race | meaning |
|---|---|
| `sending` | handlers run while a worker waits for APNs |
| `registering` | the event handler and a call of the phone overlap |
| `early` | a START is due before `run.started` arrives |
| `expiry`, `refusal` | a payload or placeholder outlives its time; APNs refuses for a reason that is not the token |
| `deadlock`, `crash` | PostgreSQL aborts a worker; a worker dies before it commits |
| `quota` | the Workspace has used up its notifications of the day |

With `quota` the notification of a Run that ended may be refused: the savepoint is
rolled back, the event is committed without it (`Notify`), and `refused`, which is
history, names the Run. The counting behind the refusal is `RequestQuotas`.

### MachinePairing

One machine ID, used by several CLI processes that share a credential store
(`cred`, `pend`), and devices with a Workspace each. A request that adds rows is
two or three steps, because its credential is checked when it begins and the
ORM session keeps the rows it has read: `BeginClaim`, `LockClaim`, `CommitClaim`;
`BeginHook`, `CreateHook`; `BeginUpload`, `ReadSubscriptions`, `CommitUpload`. Between them
the machine may be revoked (`Revoke`, `RevokeSelf`), the device reset (`Reset`) or the
Workspace deleted (`DeleteWorkspace`). What a handler locks `FOR UPDATE` is
`SessionLocked` and `WorkspaceHeld`; the foreign keys that make a late commit fail
are its guards. Requests that only take away are one step.

`proc[c]` follows `pair_machine`, `resume_pairing` and `device_unpair`: the pending
session is stored before the QR code is shown and forgotten after the credential is
stored, and `Quit` may come anywhere between. `dead` is history: which credentials
and webhooks existed when the machine was revoked. `TokenAccepted` is `authenticate`,
`HookAccepted` is `_webhook_auth`, which does not look at the machine.

### DeviceSync

The server part is a revision and what it stands for; `Bumped` is
`bump_workspace_revision` in the transaction of a change. `mem` is what the app holds
and shows, `cache` its file. `refresh` and `load` are the two tasks of `RunBuoyStore`,
each with the answer it waits for or has got, so that either may apply its answer to
what the other has changed. A snapshot replaces everything that is shown (`Applied`,
through `Merged`, which never takes an older state of a Run), a page of history keeps
the terminal Runs and drops the active ones (`EndPage`), clearing and resetting drop
all. `Reset` and `Bootstrap` change the identity under a suspended refresh, `Kill` and
`Launch` end the process; `RestoreCache` shows what was read from the file at launch,
also when a refresh was quicker.

`older` is the cursor of history, `more` is `has_more`; `of` and `crossed` say whose
data a copy holds and whether a "load more" has overlapped a snapshot. Both are
history, no action looks at them. The time a Run ended is the machine's, so the
newest event need not be that of the Run that ended last.

### RequestQuotas

A caller is one open transaction. The active Runs are counted under a lock row that
is inserted on first use (`InsertLock`), locked (`SelectLock`) and deleted by the
clean-up when it is old (`CleanLock`); a transaction that finds the row gone fails.
The bucket of the day is read and held (`Charge`) and written at the commit
(`Insert`), together with the notification. A terminal event does the same inside a
savepoint, and ends the Run also without its notification (`FinishWithout`).
`Rollback` may end any transaction.

## 3. The runs

| Run | Shows |
|---|---|
| `delivery` | 2 drainers, lost calls, late POSTs, crashes, aborted transactions, the server deleting event rows: ticked off means accepted, pruned means uploaded, resent batches are recognised while their rows exist, attention is that of the newest event, and all together implements `RunProjection` |
| `drain` | 2 Runs in one batch, late PUTs, `prune --include-unsynced`: a Run that was not overtaken drains beside one that is stuck |
| `terminal_reaches` | violation, section 4 |
| `handoff` | CLI, Worker and `runbuoy cancel` may die, also between request and answer, the spawn may fail, answers are in time: no LOST Run with a target, no orphan, row and result file agree, a killed target is not FAILED, a granted cancel stops the target, `runbuoy run` answers |
| `handoff_harsh` | all failures, time limits and storage too: success means started, target means acknowledged, the handoff ends, a target on record whose start cannot be announced is stopped, also if its Worker then ends in order |
| `push_live` | handlers and workers one at a time, refusals and lost tokens: one START, notification or activity and not both, the end is not lost, every queued push is decided, and the activity of an ended Run goes away unless APNs refuses |
| `push_overlap` | handlers, calls of the phone and 2 workers overlap, rows and placeholders expire, deadlocks, a worker dies, the daily quota is used up: a row is accepted once plus once per dead worker, a failed Run is silent only if the quota refused its notification, no START after the end |
| `push_sending` | violation, section 4 |
| `pairing` | 2 phones, 2 CLI processes, 2 sessions, a webhook: revoked stays refused after pairing again, one credential per session for one owner, a deleted Workspace stays empty, who stopped receiving gets nothing new |
| `sync` | refreshes, older pages, lost answers, kills, restarts from the cache, clearing, a second identity: "not modified" is true, history has no gap, the app converges |
| `sync_history` | violation, section 4 |
| `quotas` | 3 open transactions, 3 Runs, 2 keys, limits of 2: the limits hold, a Run is made once, the bucket counts what there is |

## 4. Where the code and its documents disagree

Three runs look for a violation of a documented promise and find it; the sentence
is quoted in `PROJECT.json`.

| Run | What happens |
|---|---|
| `terminal_reaches` | A POST is lost; its events back off; a younger event of the Run goes out first and is accepted; the older ones are refused as out of order for ever. If the terminal event is among them, the end never reaches the server, although `architecture.md:70,77` says events stay until acknowledged and drain after recovery. |
| `push_sending` | An END is written into a row that a worker is just sending as an UPDATE; the row becomes `sent` and the END is gone (`server.md:487,504`). |
| `sync_history` | Loading older history drops the active Runs from the screen and the cache, and the following syncs answer "not modified": "All clear" is shown with a Run active (`ios.md:105`). |

More come up when the constants of a passing run are changed as follows; the
property named then fails.

| Run, change | Property | What happens |
|---|---|---|
| `delivery`, `LateKinds = {"put", "post"}` | `AttentionFollowsEvents` | A PUT the client timed out on is handled after later events and resets attention to NONE (`api.py:781`). |
| `handoff`, `Failures` with `"slow"` | `LostNeverStarted` | The acknowledgement is read by the Worker after the CLI's 3 seconds: LOST is recorded and the target starts (`cli.md:133`). |
| `handoff_harsh` | `CancelEndsTarget` | A Run is LOST after a late acknowledgement, its Worker stops watching and exits before the escalation to SIGTERM: the target that ignored SIGINT goes on. |
| `push_live`, `Races = {"registering"}` | `EndNotLost` | Registration reads the Run before the terminal event commits, the event reads the bindings before the registration commits: nobody queues the END (`server.md:571`). |
| `push_live`, `Races = {"early"}`, two activities | `EndNotLost`, `OneStart` | With the immediate policy or a slow upload, `run.starting` and `run.started` each send a START; the two activities share one END. |
| `push_live`, `Races = {"sending", "deadlock"}`, `MaxCrashes = 1` | `NotBoth` | Deadlock of worker and event handler; if the worker is aborted, its START counts as unsent and a notification comes beside the activity (`server.md:481`). |

Four weaknesses are in the models without a property that would hold: a storage failure
between the start of the target and the record of its process group leaves the target
running (`StoreFails` in `register`, `runtime.py:314`); a webhook
requested before a revocation is created after it and accepted (`CreateHook`); the
answer of an exchange may be lost with the only copy of the credential (`Quit`); a
sync answer that arrives after the identity was removed puts the old data back
(`EndRefresh`). The properties beside them say where they stop: targets on record,
what existed at the revocation, how many credentials a session yields, copies of the
present identity.

## 5. Bounds, and why they suffice

* `MaxEvents = 4`: created, starting, one more status or attention, and the end; three
  are enough for an event to be overtaken. `BatchSize = 2` splits a log, `3` or `4`
  sends it at once and mixes Runs.
* Two drainers are enough for a stale batch and a fresh one; `LeaseFree` is the only
  place where they meet. `MaxFaults = 2` lets a fault hit a retry, `MaxLate = 1` lets a
  request overtake the retry that replaced it.
* Two Runs only where Runs meet, in a batch (`drain`). Elsewhere Runs share nothing but
  the lease, and the device limit, which `push_overlap` reaches with one Run and
  `MaxPerDevice = 1`.
* `WorkerHandoff` has no bound but `MaxCancels = 2`: a cancel and a second one after it.
* `MaxRows = 2` stops new progress events and syncs, never a START, an END or what
  follows from them. `MaxAttempts = 2` has a retry and a last attempt. `MaxGen = 2` has
  an old and a new token (1 where tokens are not the question). `MaxCrashes = 1`: two
  resent STARTs add nothing to one.
* `push_overlap` leaves refusal to `push_live`, and progress events to `push_sending` (an
  update is also queued by a registration or a sync): each of them takes it from one
  million states to several.
* `Races`, `Failures` and `LateKinds` say what may go wrong; a property is checked under
  all it survives, and sections 3 and 4 name what it does not.
* `pairing`: two sessions are one pairing and the next; two devices are two owners, two
  CLI processes two exchanges. `Guests` take part only where a second one matters: a
  phone that claims and revokes, a process that resumes. `MaxRequests = 2` has a request
  in flight and a claim that joins it: other pairs change different rows. No other
  counter is bounded; sessions are used up.
* `sync`: `Window = PageSize = 1` makes every second Run history, `PageTries = 2` lets a
  "load more" go on after an empty page. `MaxRevision = 5` lets two Runs start and end
  and one more change follow; `sync_history` needs a third Run and 7. `Identities = 2` is
  a reset and a new device, `MaxFaults = 1` one lost answer, kill or clearing beside it.
* `quotas`: three transactions are a holder of the lock, one that waits and the clean-up's
  victim; three Runs are one more than `MaxActive = 2`, and with two keys there are more
  notifications to ask for than `MaxPerDay = 2`.
* `CHECK_DEADLOCK FALSE` everywhere: a bounded history ends.

## 6. Fairness

* Delivery: a drainer polls every `upload_interval` as long as its Worker lives,
  backoffs run out (at most 60 s), and the server answers a request that met no fault.
  No fairness for commands, `sync`, `prune`, retention or faults.
* Launch: processes and threads that are alive go on; the Worker's time limit
  (`SF_vars(WorkerTimesOut)`, its loop passes the check again and again) is noticed;
  SIGKILL ends a process. No fairness for users, failures or the target's own end.
* Pushes: handlers and workers finish what they began, the worker loop takes what is
  due and the app retries a registration (`scheduleRetry`). Strong fairness for
  `Dispatch` and `Register` because the model, not the code, makes them wait for each
  other in an instance without `sending`. ActivityKit is assumed to issue a token and
  to apply an END it received. Nothing is assumed about answers: APNs may be
  unavailable for ever, and `OutboxDrains` holds because attempts are limited.
* Sync: the app refreshes every 10 to 300 s while it runs and is opened again, a request
  is answered unless a fault hits it (faults are bounded), and one with a credential of
  the past fails. No fairness for users, the server's changes or "load more".
* `MachinePairing` and `RequestQuotas` state no liveness: what is asked for once may be
  refused or rolled back, and only a person asks again.

## 7. Proofs

Every invariant and action property that a passing run checks is also a theorem,
for all values of the constants: any number of Runs, processes, workers,
activities, requests, any bounds and faults, but for the hypotheses named in the
table. All assumptions are the `ASSUME`s of the modules: constants are sets and
numbers of the expected kind; the Runs that are counted and the sets that are
turned into sequences of rows (`RunsAreFinite`, `SetsAreFinite`) are finite; a name
for nothing names nothing (`NoneIsNoName`, `NobodyDrains`); a webhook is not a
credential. TLC evaluates them in the runs.

| Theorem | States | If |
|---|---|---|
| `EventDeliveryProofs!TypeCorrect` | `[]TypeOK` | |
| `EventSafetyProofs!DeliveredIsAccepted` | `[]DeliveredWasAccepted` | |
| `EventSafetyProofs!PrunedIsUploaded` | `[]PrunedWasUploaded` | `PruneModes` without `TRUE` |
| `EventRefinementProofs!RefinesProjection` | `ImplementsProjection` | |
| `EventRefinementProofs!ServerShowsTheEnd` | `[]EndIsLocal`: the end the server shows is the one the machine recorded | |
| `EventRefinementProofs!FinalIsFinal` | `FinalStays`: nothing changes a Run that is shown as ended | |
| `EventRefinementProofs!DuplicatesAreAccepted` | `[]DuplicatesAccepted` | |
| `EventRefinementProofs!RefusalMeansOvertaken` | `[]RefusedWasOvertaken`: a refused batch holds an event the server has passed | |
| `EventRefinementProofs!AttentionIsFollowed` | `[]AttentionFollowsEvents` | no late PUT |
| `WorkerHandoffProofs!TypeCorrect` | `[]TypeOK` | |
| `WorkerHandoffProofs!AckBeforeTarget` | `[]TargetNeedsAck` | |
| `WorkerHandoffProofs!SuccessIsReal` | `[]SuccessMeansStarted` | |
| `WorkerHandoffProofs!LostHasNoTarget` | `[]LostNeverStarted` | `Calm` |
| `WorkerHandoffProofs!ExitLeavesRecord` | `[]ExitIsRecorded` | `Calm` |
| `WorkerHandoffProofs!ExitLeavesNoOrphan` | `[]NoOrphan` | `Calm` |
| `WorkerHandoffProofs!KilledIsCancelled` | `[]KilledIsNotFailed` | `Calm` |
| `LiveActivityPushProofs!TypeCorrect` | `[]TypeOK` | |
| `LiveActivityPushProofs!RowsAreSentOnce` | `[]SentOnce` | |
| `LiveActivityPushProofs!StartsComeBeforeTheEnd` | `NoLateStart` | |
| `LiveActivityPushProofs!FailureIsShown` | `[]NeverSilent` | |
| `LiveActivityPushProofs!FailureIsNotified` | the same without the excuse of the quota: a START was accepted or the notification is there | no `"quota"` in `Races` |
| `LiveActivityPushProofs!NotificationStandsAlone` | `[]NotBoth` | `NoDeaths` |
| `LiveActivityPushProofs!OneStartAndTheLost` | `[]OneStartPerDeath`: one START of a Run, and one more for each death | `NotEarly` |
| `LiveActivityPushProofs!OneActivityPerRun` | `[]OneStart` | `NoDeaths`, `NotEarly` |
| `LiveActivityPushProofs!EndIsTold` | `[]EndNotLost` | `Apart`, `NoDeaths`, `NotEarly` |
| `MachinePairingProofs!PairingTypes` | `[]TypeOK` | |
| `MachinePairingProofs!RevokedIsRefused` | `[]RevokedStaysRefused` | |
| `MachinePairingProofs!OneCredentialOneOwner` | `[]OneOwner` | |
| `MachinePairingProofs!DeletionIsComplete` | `[]DeletedLeavesNothing` | |
| `MachinePairingProofs!StoppedGetsNothing` | `[]StoppedIsSilent` | |
| `DeviceSyncProofs!TypeCorrect` | `[]TypeOK` | |
| `DeviceSyncProofs!CursorIsCurrent` | `[]CursorMeansCurrent` | |
| `DeviceSyncProofs!HistoryIsComplete` | `[]HistoryHasNoGap` | |
| `RequestQuotasProofs!QuotaTypes` | `[]TypeOK` | |
| `RequestQuotasProofs!ActiveRunsAreBounded` | `[]ActiveBounded` | |
| `RequestQuotasProofs!AdmittedRunsAreNew` | `[]AdmittedIsNew` | |
| `RequestQuotasProofs!BucketIsExact` | `[]BucketCountsNotes` | |

### Hypotheses

Each hypothesis excludes faults or overlaps under which the code does not keep the
property; TLC finds the property violated as soon as one of them is allowed, so
none can be dropped.

| Hypothesis | Excludes | Without it |
|---|---|---|
| no `TRUE` in `PruneModes` | `history prune --include-unsynced` | events are removed that were never uploaded, as asked for |
| no `"put"` in `LateKinds` | a PUT handled after the client gave up | attention is reset (section 4) |
| `Calm` | `slow`: the deadlines of launch and handoff pass early; `store`: the disk fails | each of the four properties fails under `slow` alone and under `store` alone |
| `NoDeaths` | a push worker dies or is aborted after APNs answered | its START counts as unsent: it is sent again (`OneStart`), a notification comes beside it (`NotBoth`), a second activity shares the END of the first (`EndNotLost`) |
| no `"quota"` in `Races` | a full daily quota of notifications | a failed Run may have nothing to show (`test_notification_quota_does_not_block_terminal_projection`) |
| `NotEarly` | a START that is sent before `run.started` arrives | two STARTs (section 4) |
| `Apart` | `sending`, `registering`: handler, call of the phone and worker overlap | the END is overwritten by a sent row, or nobody queues it (section 4) |

Refusals by APNs, tokens that change or become invalid, payloads and placeholders
that expire, and the device limit are not excluded anywhere.

### Arguments

Events. `DeliveredWasAccepted` is not inductive: an event is ticked off by a step
that looks only at an answer. `DeliveryInv` adds what the answer stands for: an open
transaction has accepted all it is through with and forgets nothing of the row it
started from (`BatchApplied`); a stored row was accepted (`StoredIsAccepted`, which
retention keeps); a POST answered ok is in the table (`AnsweredIsAccepted`). The last
needs that nobody else waits for the same call, which the type invariant carries as
`CallIsRequest` and `ServedIsWaiting`. Steps that touch neither table nor transaction
are dealt with at once (`Quiet`). `PruneInv` adds that what was selected for pruning
has ended and is all ticked off, and that an ended log does not grow
(`StaysComplete`), so the time between selection and deletion does no harm.

`HistoryInv` relates the three copies of a Run. The log is a legal history that ends
in the local status (`MachineInv`); batches, late requests, transactions and rows
hold events of the log only (`InLog`); a row shows the status of an accepted event
(`RowsShow`); an open transaction has gone on from its row along the log, to newer
events only, and shows what the newest of them says (`BatchMovesOn`, `BatchInOrder`).
The row it started from cannot change meanwhile: that is the row lock. With this the
commit is `Apply` of its fresh events or a stutter (`CommitApplies`), appending is
`Happen`, and nothing else changes what is shown. `EndIsLocal` and `FinalStays` follow.

`RefusalInv` shows that a refusal has one cause. A server that knows the Run
(`KnownRuns`) and a legal log leave only order: the refused batch holds an event that
is not newer than the last one and not stored. `DuplicatesAccepted` follows, and
`terminal_reaches` (section 4) shows this cause to be real. `AttentionInv` adds that
one process drains (`OneDrains`) and that a PUT is sent before anything of the Run
reaches the server (`PutFirst`), so it has no attention to reset.

Launch. `HandoffInv` orders the Worker: places before the target have none, places
after `spawn` have heard the acknowledgement, and `started` implies a target. It holds
for any `Failures`. `CalmInv` says what else holds while nobody is late and the disk
works: which requests can be in the socket's queue and who waits for them
(`RequestOrder`, `SocketOrder`), that the CLI gives up only on a Worker that can no
longer start, because it is gone or its socket thread is and the acknowledgement can
never come (`CliOrder`, `Unheard`), that row and result file change together (`EndOrder`), and
how far a target can be at each place of the Worker (`TargetOrder`).

Pushes. `SendInv` counts what nobody knows: `Forgotten(i)` are the times APNs accepted
row `i` that neither the row nor a worker records, and `Lost`, all of them together,
is not larger than the number of deaths. Two workers never hold one row (`HeldApart`).
`StartsKnown` says that an open event has read all pending STARTs of its Run, and that
an ended Run has none; `StartsComeBeforeTheEnd` follows, since a handler that
withdraws a row waits for the worker that holds it. `NotSilent` says that the end of
a failed Run has seen a START accepted, has queued the notification or was refused it
(`NotifyCases`); `CalmStarts`,
while nobody dies, that what a row says of its STARTs is true. `FewStarts`: a Run in
an early status has its only START row still pending and untouched, so the next start
event finds and reuses it; and of what APNs accepted, all but one is in `Lost`.

`EndInv` is about the END. With everybody taking turns (`Serial`), what an open
transaction has read still holds (`ReadsHold`); bindings and rows are about
activities that have appeared (`AboutActivities`) of which a Run has one (`OneEach`,
from `OneStart`); a worker that sends an END knows what it is (`EndsKnown`). Then
every activity that the server can reach is told or has its row: the terminal event
finds the binding, or the registration finds the Run ended, and an END is only taken
back when its target is gone. The proof follows the rows through
`_coalesce_outbox` one by one (`EventRowsExactly`, `CallRowsExactly`).

Pairing. `PairingInv` says why a new exchange cannot revive a dead credential: a
session that is held for its exchange is open, claimed, unused and held once
(`LockedUnused`), a credential exists only after the exchange of its session
(`IssuedByExchange`), and what was there at a revocation has a row that says so
(`DeadHasEnded`). An owner follows from `ClaimedByOwner`: a claim of an open session is
for the Workspace the machine belongs to, and deletion of that Workspace takes the
open sessions with it. `WorkspaceInv` says to whom subscriptions, credentials and
what an upload has read belong: always to the Workspace of the machine, which is not
deleted. A request that began before the deletion finds its rows gone.

Sync. `SyncInv` is one statement about every copy the app may yet show: the store,
the file, what was read from it at launch, and the answers the two tasks hold. A copy
is not ahead of the server; if its cursor is the present revision, it has the server's
machines and newest Runs, and lacks nothing above its history cursor unless a page
crossed a snapshot. A Run that changes moves the revision past all copies.

Limits. `RunInv` says that the lock row has one holder and is there while it is held
(`LockIsExclusive`), so that what the holder has counted is still so
(`CountIsCurrent`); a Run that ends meanwhile was active and makes room
(`FinishIsExclusive`). `NoteInv` does the same for the bucket (`ChargeIsExclusive`),
which is where its bound comes from.

TLC finds the parts of these invariants to hold on the instances of section 3 when a
module that extends the proofs is checked with them as invariants (parts that
mention sets like `SUBSET Nat` cannot be evaluated; for `EndInv`, two activities, with
refusals and expiry).

### Only model-checked

* Liveness: `InOrderRunsDrain`, `CancelEndsTarget`, `CliAnswers`, `HandoffResolves`,
  `GivenUpStops`, `OutboxDrains`, `EndArrives`, `Converges`. Fairness and `ENABLED` are out
  of reach of the proof system.
* The violations of section 4. A counterexample is a behaviour, not a theorem.

## 8. What is left out

* Payload contents, wording, rate limiting and throttling of pushes, priorities (any
  pending row may be next), and preferences other than the policy of a Run. An HTTP
  refusal by a rate limit is a fault of the request; rate buckets are committed on their
  own and count each caller alone.
* The 100 batches a `drain_pending` may take in a row: the model's loop has no limit. A
  batch longer than `max_events_per_batch` (server and CLI have the same default).
* The machine rename PATCH in front of `flush_pending`, and a name changed while it is
  under way.
* Timestamps: backoff order is a sequence, time limits are steps that may happen.
* SQLite as the server database (tests only): its single writer excludes the
  overlaps of `push_overlap`, `pairing` and `quotas`.
* The device limit under two workers: both may count before either has added its
  binding (`outbox.py:73`). `Suppress` is modelled, the limit is no property. A token
  cleared for an answer about an older one (`outbox.py:181`) is in the model, too.
* `MachinePairing`: Live Activity bindings, audit rows, machine metadata, the limits on
  sessions, machines and webhooks. A credential deleted by an unpair that overlaps a
  pairing is in the model; nothing promises otherwise. A phone that was reset leaves its
  machine to a Workspace nobody can use, and another phone cannot claim it.
* `DeviceSync`: messages (paged like Runs), the history of one machine, servers without
  `/sync`, detail views, how the load state is shown.
* The sequence numbers and event IDs of a webhook's own events (`api.py:1402`).
* Retention of notifications, log tails, push attempts, sent rows and audit rows, and
  of Runs that still have pending rows.
* The activity coordinator's tasks: an activity sync that reports late
  (`api.py:384`), or that makes a binding active again without clearing `invalidated_at`.
* Components with status `not_modelled` in `PROJECT.json`, each with its reason.

## 9. Plan

In this order; each comes with its runs.

1. `ActivityTokens`: the coordinator's retries and fingerprints with reports in flight,
   composed with `LiveActivityPush`.
2. `MachineRename`: the metadata outbox in front of the events. `WebhookEvents`:
   idempotency keys, sequence numbers and event IDs of a webhook.
3. Rate buckets, and retention of Runs with pending rows.
4. Progress framing as pure operators against a reference definition.
5. Proofs for those modules, with the invariants they share with the existing ones.
   For the existing ones, what still holds without a hypothesis: `EndNotLost` for an
   activity whose registration does not overlap the terminal event, `NotBoth` up to the
   number of deaths, row and result file under `store`.
