# Verification of TikTools: competitions, gifts, the LIVE pipeline and points

TikTools connects to a TikTok LIVE room, turns what happens there into events,
and lets a streamer run automations, plugins, rankings, points and
*competitions* on them. The parts of the program that must not be wrong are the
ones a viewer wins or loses by: how an event gets from the connection to the
ordered worker, what becomes of a vote and of a gift, who decides a competition
and how often the winner's action runs, and whether the points a viewer was given are still
there after a restart. This directory specifies those parts in TLA+, checks
them with TLC on small instances and proves their main safety properties with
TLAPS for every instance.

## 1. Inventory

State, operations and interactions of the program's parts. `core` is
`src/crates/tiktools-core/src`.

| Part | State | Operations | Meets | Hard because | Correct when |
| --- | --- | --- | --- | --- | --- |
| **Competitions** (`tiktools-competitions`, `core/control/competitions.rs`, `core/services/competitions.rs`, `core/db/sqlite/competitions.rs`) | SQLite: lifecycle, assignments, receipts, checkpoint, owner, result. Memory: definitions, command index, one mutation lock | create, delete, start, pause, resume, cancel, finish, select winner, deadline tick, route a vote or a like, boot, checkpoint | rankings (projection), ingress (events), outbox (result row) | several processes on one file, lost and repeated events, crash between commit and projection, late checkpoint | no result over a loss; ranking equals ledger; one final result; replay is inert; no late vote |
| **Winner-action outbox** (`core/services/competition_actions.rs`) | outbox rows; worker position and `action_inflight` in memory | recover, poll, claim, prepare, dispatch, record, mark uncertain, resolve, abort | automation runtime, operator, shutdown | blocking calls outlive the aborted worker; a second host recovers while the first runs | an action runs at most once and its status agrees with that |
| **LIVE ingress** (`core/live_events/ingress.rs`, `pump.rs`, `handlers.rs`) | broadcast receiver, bounded queue, ordered worker, effects channel, counters, session context | admit, shed, dispatch, persist, drain, cancel, abandon | connection, competitions, points, plugins, shutdown | cancellation at every await; four deadlines; accounting across a panic and an abort; two generations that move independently | every accepted event is counted once; an update-safe stop lost nothing; no event is credited to another creator |
| **Connection** (`tiktools-tiktok/src/lifecycle.rs`, `client.rs`) | owned task, its stop token, generation, snapshot | connect, replace, disconnect, retry, panic | ingress, control operations, monitor | the owner frees its lock while the task runs; teardown limit; dropped callers | one live task; an honest snapshot |
| **Creator monitor and LIVE control** (`core/live_monitor.rs`, `core/control/live.rs`) | operation mutex, task slot, token, status | connect, pick, disconnect, monitor start and stop, shutdown, lookup loop | connection, shutdown | three locks, a supervisor that itself calls the owner | no supervisor beside an operation that retires it; every operation returns |
| **Points writer** (`core/services/points.rs`) | cache of rows, pending markers, durable queue, watermarks | award, adjust, reset, lookup, apply a batch, fall back, close, join | ingress, control, automations, shutdown | eviction and reload race with the queue; retries; limits | a balance is the sum of what was asked, or the loss is reported |
| **Rankings** (`tiktools-aggregation`, `core/services/aggregations.rs`, `core/control/rankings.rs`) | scores, integrity, paused flag; checkpoint rows | assignments, committed scores, gap marks, reset, pause, checkpoint claim, write, restore | competitions, ingress | capacity, overflow, windows, stale checkpoints | equals the contributions, or says it is degraded |
| **AppCore** (`core/lib.rs`) | shutdown flags, the writers | boot, shutdown ladder | everything | order and limits of the ladder | nothing durable is written by a host that was replaced |
| **Gifts** (`core/live_events/dedup.rs`, `totals.rs`, `handlers.rs`, `core/db/sqlite/gift_accounting.rs`) | replay window, running totals of combos in memory; combo marks, prices and receipts in SQLite | admit, expire, route to a competition | ingress, rankings, competitions | running totals repeated, skipped, reordered, unpriced; the memory forgets, the ledger does not | each gift counts once, or the ranking says it is incomplete; diamonds are never credited for the past |
| **LIVE likes, session record, publication** (`core/live_events/totals.rs`, `session.rs`, `publish.rs`) | like totals of a session | count, publish | ingress | totals that arrive as deltas or as sums | totals match the stream |
| **Automation runtime** | queue, cooldowns | execute an action, run a workflow | outbox, plugins, events | cancellation, time limits | limits hold |
| **Plugin supervisor, processors, loader** | per-plugin queues, workers, circuit state | deliver, poll, restart | events, automation | slow or failing plugins | a plugin never blocks the host |
| **Plugin installer, packages, registry** | installed tree, receipts, locks, jobs | install, update, remove | loader, control | crash during a swap | the tree is the old or the new one |
| **Control API, transports, CLI, typed client** | the ownership guard | dispatch | everything | who may be a host | one IPC host at a time |
| **Cloud, updater, desktop, frontend** | tokens, sync state, windows | sync, publish, update, present | control API | I/O | see PROJECT.json |

`PROJECT.json` lists each part with its sources and status, and under
`hazards` what in this code a test would hardly reach, with the property that
watches it or the reason why none does.

## 2. Modules

| Module | What it is |
| --- | --- |
| `CompetitionLifecycle` | `LifecycleState::transition`: guards and resulting records, as operators |
| `Competition` | the competition, its ranking and its hosts: the detailed specification |
| `CompetitionInvariant`, `CompetitionProofs`, `RankingProofs` | the inductive strengthening of its safety properties, and the theorems |
| `GiftLedger`, `GiftProofs` | one sender's gifts: deduplication, running totals, the ordinary rankings, the competition's ledger |
| `WinnerAction` | the abstract contract of a winner's action |
| `CompetitionOutbox`, `OutboxProofs` | the outbox, the worker of each host, the operator; refines `WinnerAction` |
| `LiveTransport` | what the connection and the pipeline share: the snapshot (a watch channel) and the broadcast channel with its lag |
| `LiveIngress`, `LiveProofs` | pump, bounded queue, ordered worker, effects, `stop_live_ingress`, behind a transport that may send anything |
| `LiveConnection`, `ConnectionProofs` | `ConnectionOwner`, its one connection task, the callers of connect and disconnect |
| `LivePipeline` | the composition of `LiveConnection` and `LiveIngress` |
| `LiveMonitor`, `MonitorProofs` | the control operations and the creator monitor on top of `LiveConnection` |
| `PointsWriter`, `PointsProofs` | `PointsService`: cache, callers, durable queue, writer thread, shutdown |
| `MCCompetition`, `MCGifts`, `MCPipeline` | small instances for TLC; the other specifications take their constants from the `.cfg` directly |

Operators marked *mutant* stand beside the definition they disturb; nothing
uses them. They show that the properties can tell the difference.

### Competition

*Durable state* is what an SQLite transaction sees, and a transaction is one
step: `state` (competition_state), `assigned` (competition_participants),
`receipt` (competition_contributions and competition_scored_contributions),
`checkpoint` and `owner` (competition_integrity_checkpoints and _owners),
`result`. One generation is enough, because no transition leads from a closed
competition back to a start; a new run needs a deletion and a new creation,
which `Delete` and `Create` model.

*Volatile state* belongs to a host, one run of the program: `phase` (boot,
serving, the steps of `AppCore::shutdown`, the late checkpoint writer, gone),
`work` (the operation in progress under `CompetitionService::mutations`),
`held` (the event the ordered ingress worker has taken, with the reception
time it read before it began to wait for the lock), the ranking (`engine`,
`degraded`, `rankingPaused`), `known` (the definition is loaded) and
`complete` (no event was cancelled or abandoned).

Where the code holds the mutation lock over several database calls
(vote: commit, then project; finish: transition, select, store), the model has
one step per call and `work` keeps the lock, so that crashes, takeovers, lag
and other hosts come in between. What does not take the lock does not wait for
it in the model either (`Lag`, `Receive`, the shutdown ladder, `Crash`).

| Code | Actions |
| --- | --- |
| `AggregationService::restore`, `begin_competition_recovery` | `BootRead`, `BootClaim`, `BootTotals`, `BootFailed` |
| `route_live_competition_command`, `..._score`, and their transactions | `Receive`, `RouteVote`, `RouteLike`, `RouteIgnored`, `RouteDuplicate`, `RouteClosed`, `RouteFailed`, `RouteInvalid`, `ApplyVote`, `ApplyLike`, `ApplyFailed` |
| the pump's `Lagged` arm | `Lag` |
| `competition_create/_delete/_transition/_finish/_select_winner`, `competition_timer_tick` | `Create`, `Delete`, `Start`, `Pause`, `Resume`, `Cancel`, `Finish`, `SelectWinner`, `ExpireDue`, `Retry` |
| `finalize_command_poll`, `store_competition_result_once` | `Select`, `SelectRefused`, `StoreResult`, `StoreRefused` |
| `ranking_reset`, `ranking_pause` | `RankingReset`, `RankingPause`, `RankingResume` |
| `stop_live_ingress`, `checkpoint_shutdown`, exit | `BeginDrain`, `DrainTimeout`, `Abandon`, `CheckpointRead`, `CheckpointSave`, `CheckpointTimeout`, `LateSave`, `Exit` |
| the end of the process at any moment | `Crash` |

`ExclusiveHosts` says how many hosts may be alive: the IPC host and the
desktop take the control-host guard, a host served over standard input and
output does not, so both values are real. The guard is free as soon as
`shutdown()` has returned, while a checkpoint writer that outlived its limit
may still be running; `phase = "leaving"` is that writer.

Four variables are not in the program. `lost` records that an event the
competition would have counted is gone; `abandoned` the same for events the
shutdown ladder gave up while its host is still alive; `ran` how long the
competition has been active; `creates` only bounds the model. No guard reads
the first three.

### GiftLedger

A streak of one gift (a *combo*) arrives as messages that carry a running total.
`Admit` is `prepare_live_event` on one of them, and the action that follows is
its routing; between the two anything else may happen.

| Code | Actions and operators |
| --- | --- |
| `LiveDedup::check_duplicate`, capacity and TTL | `Duplicate`, `Remembered`, `IdentityExpires` |
| `LiveTotals::observe`: high-water mark, increment, diamonds, the full table, `RETENTION` | `Previous`, `Increment`, `Diamonds`, `Observed`, `Untracked`, `ComboExpires` |
| gift arms of `prepare_live_event`: ambiguous identity, history, late price, gap marks | `Accounted`, `Creditable`, `CountRanking`, `DiamondsRanking` |
| `route_live_competition_gift`, `mark_invalid_competition_routes` | `RouteInvalid`, `RouteFailed` |
| `route_competition_gift`: lifecycle, receipt, price and start of the combo, option, score | `RouteClosed`, `RouteDuplicate`, `RouteRefused`, `RouteCounted` |
| `advance_combo` | `Advanced`, `Delta` |
| `AggregationService::restore`, `competition_scored_totals` | `Restart`, `Crash`, `Boots`, `Scored` |
| transitions of the competition; a vote of the sender | `Start`, `Pause`, `Resume`, `Deadline`, `Finish`, `Cancel`, `Decide`, `Choose` |

History: `shown` is the highest total admitted of each combo, `worth` what those
gifts were worth, `forgotten` the combos `LiveTotals` no longer knows and
`recounted` the gifts counted again for that reason; `arrived` and `owed` are the
gifts that reached the running competition and those it should score, `early` what
a combo had shown before the start.

### CompetitionOutbox

A row per result with an action. The worker's position is `worker[h].step`;
every database call is a step; aborting the worker turns the two calls that
may be in flight on a blocking thread into `lateClaim` and `lateRecord`, which
may still commit after the host stopped. `effects` counts how often
`execute_action` was begun for an item. A run that succeeds is `Return(h,
TRUE)`; an error and the time limit are `Return(h, FALSE)`.

`WinnerAction` says the same without hosts: a commit gives out at most one
permit, a permit is used at most once, the recorded outcome agrees with
whether it was, and nothing puts an action back. The refinement maps
`status` and `effects` to themselves and `permits` to the items a worker
holds between its claim and its dispatch.

### LiveTransport, LiveConnection, LiveIngress, LivePipeline

The code between two awaits is one step; every await is a place where a
deadline, an abort, a panic or another task may come in.

| Code | Actions |
| --- | --- |
| `ConnectionOwner::connect`, `disconnect` | `Request` (lock taken, token cancelled, or nothing to retire), `Launch`/`Detach` inside `Retired`, `Answered`, `Tell` (`disconnect_native` publishes after the lock is free) |
| `retire` and TEARDOWN_DEADLINE | `Retired`, `RetiredPanicked`, `RetireTimeout` |
| a caller's future dropped | `CallDropped` |
| the connection task: handshake, retry context, frames, end, `TaskExit` | `Opens`, `Announces`, `OpenFails`, `Retries`, `Frame`, `TransportEnds`, `StopSeen`, `TaskPanics` |
| `start_live_event_pump`: the flags, the subscription and the tasks, the two handles | `StartPump`, `SpawnTasks`, `KeepPump`, `KeepWorker` |
| the arms of the pump task | `PumpReceive`, `PumpLagged`, `PumpRefuses`, `PumpEnds` |
| `admit_stamped_event`, `admit_full`: room, shedding, waiting for room, the deadline, no worker | `PumpAdmits`, `PumpWaits`, `PumpSheds`, `PumpGivesUp`, `PumpFindsNoWorker` |
| `run_ingress_dispatch` and the handlers | `TakeStale`, `TakeData`, `FinishData`, `TakeNotice`, `TakeConnected`, `OpensContext`, `PublishesConnected`, `TakeDisconnected`, `PublishesDisconnected`, `DispatchEnds`, `DispatchCancelled` |
| the persistence loop and its drop guards | `PersistTakes`, `PersistFinishes`, `PersistEnds`, `PersistCancelled` |
| a handler panics | `WorkerPanics` |
| `stop_live_ingress` | `CloseAdmission`, `PumpJoined`, `PumpDeadline`, `WorkerJoined`, `DrainDeadline`, `StopDeadline`, `EndSession` |

`LiveIngress` alone is closed by `AnyEvent` and `AnyConnection`: a transport
that sends events of any generation so far in any order and moves its snapshot
whenever it likes. What is true there does not depend on how the connection
behaves. `LivePipeline` replaces them by `LiveConnection`, step for step: the two
share only the snapshot and the channel of `LiveTransport`, so the composition
interleaves their actions and leaves the other's variables alone.

The start is not one step, because it runs outside the operation mutex
(`control/live.rs:139-157`, `212-213`) and beside `stop_live_ingress`: between the
check of the flags and the two stores of the handles the ladder may come and find
nothing to wait for. `orphaned` is history and says that it did. For the same
reason a second `live_connect`, which finds the pump being started, may connect
before it has subscribed; `early` is history and says so.

An event is a generation and a kind: a `tick` may be shed, a `gift` and the
lifecycle kinds wait for room. `prepared` counts the effects the handlers returned, `credited`
records which generation's events were processed under which context; both
are history. `dispatch.step = "routing"` is the worker between the effect it
prepared and the channel it hands it to: what happens to the effect if the
task is cut off there is what `EveryEffectAccounted` is about.

### LiveMonitor

Clients and the shutdown (`Operators`) ask for an operation (`Begin`), take the
operation mutex and cancel the supervisor's token (`Locks`, or
`RefusedByShutdown`), join the supervisor (`Joins`), use the connection owner
(`Calls`, then the owner's own steps) and return (`Returns`). As in the code,
`live_disconnect` and the monitor's operations keep the mutex while they use the
owner; `live_connect`, `live_pick` and shutdown give it back first. The
supervisor, `run_monitor`, is `MonitorChecks`, `MonitorLooksUp`,
`MonitorCalls`, `MonitorConnected`, `MonitorWaits`, and `MonitorStops` in every
`select!`. It calls the owner like any other caller, so dropping it drops its call.

### PointsWriter

A call is a thread inside `award_points`, `adjust`, `viewer` or `reset` (of one
viewer, or `clear` of all); `call[c].at` is where it is between two critical sections of the
viewer lock.

| Code | Actions |
| --- | --- |
| entry, and a row that is or is not in the cache | `Begin`, `BeginReset` |
| `reload_wait_seq`, `wait_for_viewer_committed` and the read, putting the row into the cache | `ReadPending`, `Load`, `Promote`, `AdjustUnknown` |
| `wait_write_capacity`, with the viewer lock held, and its refusal | `AwaitSlot`, `Reject` |
| the critical section of `award_points` and `adjust`: sequence, balance, marker, `evict_cold` | `Mutate` |
| `submit_points_op`, after the lock is released | `Submit` |
| `reset`, which submits under the lock | `Reset` |
| `run_points_writer`: pop, transaction with retries, no connection, one transaction per operation | `PopBatch`, `ApplyBatch`, `ReportBatch`, `FallBack`, `ApplyOne`, `WriterStops` |
| its two stores after a batch, the durable watermark first | `StoreCommitted`, `StoreResolved` |
| `shutdown` | `Close`, `Join` |

`durable` and `ledger` are the tables, `cache`, `pending` and `reset_pending` are
`PointsInner`, `admitted`, `committed` and `resolved` the shared counters. History:
`intended` is the sum of what was asked, `applied`, `failed` and `lost` are what
became of an operation, `doubtful` names the viewers whose row was built from a
read that was already old (section 3), and `ordered` is true until an
operation gets in front of one with an earlier sequence.

## 3. Runs

| Run | Expect | Asks |
| --- | --- | --- |
| `MCExclusive` | pass | Two successive hosts, two creations of a competition with a duration, pause and resume: `CleanIsFinal`, `FreshDraft`, `ActiveTimeBudget`, `NoLateVote` |
| `MCOverlap` | pass | Two hosts alive together on one database: `LossNeverHidden`, `OwnerProjects`, `EngineMatchesLedger`, `DecisionIsFinal` |
| `MCVotes` | pass | A draw with a duration, votes, switches and a like at the limits of ledger and participants: `ResultMatchesLedger`, `ReplayIsInert`, `SettledLeavesReceipt`, and under fairness `DueCloses`, `FinalizingFinishes` |
| `MCRecreate` | violation | `RecreationInheritsNothing` |
| `MCGifts` | pass | Two combos of one sender, any order, repetition and price of their totals, a pause, the deadline, restarts and crashes: `GiftsScoredOnce`, `ShownGiftsCounted`, `DiamondsNeverRetroactive` |
| `MCOutboxLive` | pass | Three successive hosts, crashes, aborted workers, storage faults that end, a malformed row: `KeepsContract`, `LiveInvocationIsRunning`, `RunningBelongsToTheDead`, `PendingIsTaken` |
| `MCOutboxUserWin` | violation | `OnlyUnusableFails` |
| `MCIngress` | pass | The pipeline behind an arbitrary transport, a panic, every deadline: `EveryItemAccounted`, `EveryEffectAccounted`, `SafeStopDrained`, `CleanStopLostNothing`, `NeverToANewerCreator`, `StopTerminates` |
| `MCPipeline` | pass | The pipeline behind the real connection, two callers, teardown limits and dropped callers: `OneConnection`, `SnapshotHonest`, `CreditedToOwn`, `SettledAgrees` |
| `MCMonitor` | pass | Two clients, the supervisor and shutdown, tasks that panic or do not end in time: `StatusHonest`, `SessionEndsAlone`, `MonitorResumes`, `OperationsReturn` |
| `MCPoints` | pass | The LIVE worker and a control client against the points writer, every fault: `EveryWriteAccounted`, `RecordedOnce`, `WatermarksHonest`, `BalancesAreExact`, `DirtyRowsStay`, `EverythingReturns` |
| `MCPointsOrder` | violation | `ConcurrentAwardsAreDurable` |

Deadlock is not checked: hosts stop for good, connections and operations are
bounded, so every modelled system does come to an end.

**Bounds.** `Hosts` bounds the number of restarts; two are a predecessor and a
successor (or two that overlap), and the fence is between the owner and
everyone else. The outbox gets three, so that a late call of the first can meet
the third. `Events` are identities that may be received any number of times;
two voters make a tie (two assignments already taken when the last event comes),
four events the sequence vote, switch, limit, like. `MaxTime` bounds the clock and
`MaxCreates` the creations; `MaxParticipants` and `MaxContributions` are the
program's limits made small enough to be hit. `HostSymmetry` is sound where
used: hosts differ only in their names, and no liveness is checked with it.

`MCGifts` admits three messages (`MaxSent`) of combos of up to two gifts, enough for
a total that is skipped, repeated under another identity (`Serials`), out of order or
unpriced first and priced later; the table of combos and the window hold one entry
each (`MaxCombos`, `DedupCapacity`), so that both run full. `Mapped` is FALSE: the
gift has an option only after the sender's vote (`Choose`), which includes the case
that it always has one. Combos and the messages of one total differ only in
name (`GiftSymmetry`). `WhatCounts` hides what can no longer matter: the
competition once it is degraded or over, a score with a gap. A competition in use
stays degraded and a ranking keeps its gap, and of the diamonds only their distance
from `worth` is left to be judged.

`MaxGeneration` bounds the connections. Two make one that is replaced, three add
the reconnection of a room that was left. `ChannelSize` 2 with `MaxSent` 3 lets
the receiver of `MCIngress` lag and puts one event into a handler, one into the queue
and one into the hands of the pump; `QueueSize` and `EffectsSize` are 1, so that a
tick is shed, a gift waits and is given up, and an effect is rejected.
`Deadlines` and `Faults` name what may happen, so that a run can leave a kind
out; `MCIngress` and `MCPoints` leave out nothing. `MCPipeline` explores teardown
limits and dropped callers, `MCMonitor` the panics; `ConnectionProofs` covers
every set of faults at once. `MCPipeline` leaves the shutdown to `MCIngress`
(`BeforeShutdown`), cuts behaviours at a lag and at a connection that comes before
the subscription, after which its properties of the worker say nothing (`InStep`,
`FromTheStart`; the other two are theorems for every behaviour), and does not tell
states apart that differ only in the effects, the counters and their history
(`WithoutCounters`): nothing its four properties speak of depends on them.

`MCPoints` has a cache of one row for two viewers, so that every second award
evicts and reloads, a queue of one operation, and two durable operations
(`MaxOps`). The safety properties also hold with three (2.9 million states). Its
faults are a writer without a connection, reads and transactions that fail, and
the two waits of five seconds that run out.

**Fairness.** `Competition`: weak for the clock, for the step after a commit
and for selection, because a thread that holds the lock is scheduled; weak for
`ExpireDue`, the deadline loop, which comes back every 250 ms and needs nothing
but the lock; strong for `Retry` and `StoreResult`, which compete with other
holders of the lock and with an SQLite that may be busy, but not for ever. The
outbox: weak for the worker's steps, whose timers and run are bounded, strong
for the claim. `LiveIngress`: weak for the ladder and nothing else. The ladder is
one async function whose waits all have a deadline; the pump and the worker
are allowed to hang. `LiveMonitor`: strong for each client and for the
supervisor, because a `tokio` mutex serves its waiters in order of arrival; weak
for the owner's waits and for the end of a task, which are bounded by a limit.
Generations are bounded in the model only, so its liveness is released when none
is left (`~CanAdvance`). `PointsWriter`: weak for each caller, for the writer and
for `Join`: its waits have limits and its retries an end. Operators, LIVE
events, shutdowns and crashes are never fair.

**What the violations show.**

* `MCOutboxUserWin`: the worker looks for a winner's action among the options
  only, so the action of a user winner is queued, claimed and then failed with
  `action_reference_mismatch`.
* `MCRecreate`: deleting a competition empties the tables, but another live
  host keeps the old votes in its ranking and may start the re-created id.
* `MCPointsOrder`: the comments say that sequence order and queue order are the
  same by construction. `award_points` and `adjust` release the viewer lock
  before they submit: a reset gets the next sequence and is queued first, and the
  award's older snapshot overwrites it in SQLite. For this reason the other
  properties of balances and watermarks are stated for as long as the queue has kept
  the order (`ordered`); `EveryWriteAccounted`, `RecordedOnce` and
  `EverythingReturns` hold in any case.

**Seen while modelling, without a run.**

* `docs/aggregation/README.md:35` says that startup recovery of interrupted
  actions is not connected; it is (`Recover`).
* Without the host guard a second host's recovery marks an action uncertain that a
  live host is executing (`RunningBelongsToTheDead` holds under the guard only).
  `AtMostOnce` (no effect twice) holds with any number of overlapping hosts, by theorem.
* Events an emergency stop gives up are counted but mark no ranking: until the
  process is gone a finalization in flight does not see them (`abandoned`
  without `lost`). The next host does, because the checkpoint is not clean.
* A connection that is retired for a replacement ends without a `Disconnected`;
  if the replacement then fails, the old creator's context stays
  (`tiktools-tiktok/src/lib.rs:784`). A lag can swallow a `Connected`
  (`pump.rs:100`), and the context is wrong until the next.
* "Never resurrect the pipeline once shutdown began ...: a pump started after
  `stop_live_ingress` would never be joined" (`pump.rs:62-64`), and "`Stopped` is only
  reachable once no ingress task remains alive" (`ingress.rs:106`). Both hold unless
  the stop overtakes a start: the flags are read at line 65, the tasks are spawned at
  82 and 121 and their handles stored at 122 and 123, and a ladder that takes the
  handles in between (150, 172) joins nobody, advances to `Stopped` and leaves
  `update_shutdown_safe` set. TLC finds this in five steps when `~orphaned` is taken
  out of `StoppedIsDead`, and in eight or nine when it is taken out of
  `CleanStopLostNothing` or `SafeStopDrained`, whose stop then calls clean what the pump has just received.
  The accounts of the counters hold all the same.
* The comment at `ingress.rs:624` says that lifecycle items always pass the
  generation fence; the fence applies to every item.
* When the worker panics, the items in its queue are dropped without a counter
  and `ingress_complete` stays true; `update_shutdown_safe` is what tells.
* `docs/LIVE-EVENTS.md` says that a manual connect retires the supervisor before
  it replaces the native session. `live_connect` and `live_pick` do stop it, but give
  the operation mutex back before they use the connection owner
  (`control/live.rs:137-141`); a `monitor.start` of another client comes in between.
  `SessionEndsAlone` leaves the two out for this reason.
* After a clean restart, or five silent minutes, in the middle of a combo,
  `LiveTotals` knows nothing of it while the ordinary rankings are restored: the next
  running total is credited in full once more, without a gap mark, although the comment
  at `handlers.rs:203-204` says that streaks never contribute repeat totals.
  `ShownGiftsCounted` names these gifts (`recounted`). The competition's ledger is
  durable and does not repeat them.
* A total of one is where a combo begins as far as a competition can tell: a combo's
  first gift sent before the start, and its final message with the same total under
  another identity after it, is scored.
* A gift without a price or identity is judged by the clock when it is routed, any
  other by its reception time: one that was received in time and is routed after the
  deadline marks nothing. `Open` follows the code.
* `live_connect` does not look at `shutdown_started`, so a manual connect may
  come after the shutdown's disconnect; and `live_disconnect` may return before
  an earlier `live_connect` has reached the owner.
* "`committed_seq` is contiguous and durable: a permanently failed write stops it"
  (`points.rs:416-417`), and the failure "stays visible as a gap between `committed_seq`
  and `resolved_seq`" (`997-1000`). It is stored from the last batch only (`616-621`):
  the next good batch moves it past the failure and closes the gap, and
  `first_failed_seq` is recorded and not read. It is also stored before `resolved_seq`
  (`622`), so after every good batch `diagnostics()` (`950-951`) can read a durable
  watermark above the resolved one. `WatermarksHonest` claims neither: it says that
  both watermarks pass finished operations only, finished being applied or reported
  as failed.
* The reset of one viewer who is not in the cache leaves no marker
  (`points.rs:1206-1217`), so a reload before the writer brings the old balance
  back. A failed read on a miss looks like a new viewer, whose first award then
  overwrites the balance on disk. A row evicted between the award's check and its
  critical section is created again from zero. An operation that meets a closed
  queue after the balance was changed is dropped. `BalancesAreExact` names
  exactly these viewers as its exceptions (`doubtful`, `failed`, `lost`).

## 4. Proofs

The assumptions of all theorems are the named `ASSUME`s on the constants
(`DurationAssumption`, `ConstantsAssumption`, `OutboxAssumption`,
`IngressAssumption`, `ConnectionAssumption`, `PointsAssumption`, `GiftAssumption`,
the transport's, and that a model value standing for "none" is not one of the
things it is compared with: `ReceiptAssumption`, `AssignmentAssumption`,
`NobodyAssumption`). Among them: the callers of the points service are finitely
many, some gift has a price other than zero, and `NoReceipt` is not a receipt.
Three theorems also assume `ExclusiveHosts`, that every host
takes the control-host guard, and three `MaxCreates <= 1`, that no id is created
twice, and say so in their statement. The type invariants and the inductive
invariants are proved, so no run repeats them; `AtMostOnce` and `StoppedIsDead`
are proved only. Every invariant, every action property and the refinement that a
passing run checks is stated by a theorem; what is left to TLC is liveness.

`CompetitionProofs` (finite `Voters`, `Options` and `Events`, any number of
hosts, any bounds):

| Theorem | States |
| --- | --- |
| `TypeCorrect` | `Spec => []TypeOK` |
| `LossesAreTracked` | `Spec => []Inv` |
| `NoLossIsHidden` | `Spec => []LossNeverHidden` |
| `OwnersProject` | `Spec => []OwnerProjects` |
| `CleanCheckpointIsFinal` | `Spec => []CleanIsFinal` |
| `ResultsAreFinal` | `Spec => DecisionIsFinal` |
| `TimeIsConserved` | `Spec => []ActiveTimeBudget` |
| `DraftsAreFresh` | `Spec => []FreshDraft`, with `ExclusiveHosts` |
| `LateEventsNeverScore` | `Spec => NoLateVote` |
| `ReplaysAreInert` | `Spec => ReplayIsInert` |
| `SettlementsLeaveReceipts` | `Spec => SettledLeavesReceipt` |

The argument of `NoLossIsHidden` follows a loss. When it happens to the owner
it marks the owner's ranking (`MemoryInv`), which needs the owner to know the
definition and not to be paused (`OwnerProjects`, itself a property, and the
reason why the in-use check of `ranking_pause` matters). If the owner dies the
loss is only in the checkpoint, which is still open (`CleanInv`: a clean
checkpoint has an owner that is past receiving). A booting host turns the
checkpoint into its verdict (`ClaimInv`), again into memory. A host about to
write a clean checkpoint has nothing left to lose (`SaveInv`, with `LadderInv`
on the order of the shutdown steps), and a host about to store a result has
checked the verdict under the same lock (`StoreInv`). None of these parts is
preserved alone; their conjunction `Inv` is, one lemma per group of actions.
`TimeIsConserved` needs only that a running or paused competition with a
duration keeps its time in the right field (`BudgetInv`).

`DraftsAreFresh` is where the guard matters: boot reads the lifecycle and claims
the ranking in two transactions, and a second host could delete and create the
competition between them. With one host alive (`OneAlive`) what boot read is
still so (`SeenIsCurrent`), so it claims nothing for a draft and a draft keeps no
rows (`NoRows`). `LateEventsNeverScore` rests on one fact about the clock: the
deadline an event has missed stays missed (`LateInv`), because a pause, the one
transition that would move the deadline, is refused once it has passed.
`ReplaysAreInert` follows each receipt and assignment through the transactions
that write them (`ReceiptMoves`), `SettlementsLeaveReceipts` the event in the
owner's hands (`SettledByOwner`, which needs `Inv` for "the owner knows the
competition").

`RankingProofs` (as above, for an id that is created once; `MCRecreate` shows what
happens otherwise):

| Theorem | States |
| --- | --- |
| `RankingInvariant` | `Spec => []RankingInv` |
| `RankingsMatchTheLedger` | `Spec => []EngineMatchesLedger` |
| `ResultsMatchTheLedger` | `Spec => []ResultMatchesLedger` |

The ledger is a sum over rows, the ranking is moved by one difference at a time.
The first part shows that they are the same arithmetic: the pairs of a voter and a
vote split into those of one voter and the rest (`PairsSplit`), so a transaction
moves the sum by what its projection will add (`VoteMovesLedger`,
`LikeMovesLedger`). The invariant then is not that both are equal, which is false
between commit and projection, but that the ranking with the work in hand
projected is the ledger (`Follows`), while the owner is not degraded. It starts
true because a draft has no rows and no ranking has scores before the start
(`FreshRows`, `FreshEngines`), and it is what a selection reads; from the pick to
the stored result the rows do not move (`PickedInv`). It rests on `Inv`: an owner
that did not know the competition, or whose ranking was paused, would drop a
projection in silence.

`GiftProofs` (any combos, totals, prices and capacities):

| Theorem | States |
| --- | --- |
| `GiftTypeCorrect` | `Spec => []TypeOK` |
| `CreditsOnlyNewGifts` | `Spec => []DiamondsNeverRetroactive` |
| `GiftsAreCounted` | `Spec => []ShownGiftsCounted` |
| `GiftsAreScoredOnce` | `Spec => []GiftsScoredOnce` |

`diamonds <= worth` alone is not inductive: a message could be credited for gifts
that were shown before. `Remembers` says that `LiveTotals` never knows of more
gifts of a combo than were shown, and of exactly those unless it has forgotten the
combo. Then an increment is the new gifts and those it forgot (`IncrementSplits`), and
the guard of `prepare_live_event` (`Creditable`) keeps the diamonds below their price.

The other two are about sums over all combos and messages. A sum is a fold, and its
laws (one term is moved, a set is split, every term is at least its bound) are
proved first, by induction on the size of the set; the induction theorem of the
library cannot be used (below), so each law is stated as the set of sizes for which
it holds, and that set is shown to contain zero and successors.

`CountInv`: the count is what was shown, counted again where it was forgotten
(`Showings`), until a gap is declared. For the diamonds the bound alone is not
inductive, because a message may add fewer diamonds than its gifts are worth when
`LiveTotals` has already seen a dearer price. `DiamondsCover` adds what the high-water
marks are ahead of the cheapest price (`Excess`): a message adds to both, and
forgetting a combo only gives some up.

`ScoreInv` has three parts for each combo. `Marked`: a high-water mark is its units
at the price of the combo, and no receipt is above it. `Reached`: while the
competition takes gifts, those that arrived are the ones up to the mark, so what
`advance_combo` scores is what is new. `Settled`: the receipts add up to what is
owed, at that price. `Reached` cannot hold for ever: after the deadline a gift
arrives and marks nothing. It is needed only while an effect that was received in
time may still be scored (`Fresh`), and nothing brings that time back.

`OutboxProofs` (any sets of hosts and items, overlapping or not):

| Theorem | States |
| --- | --- |
| `OutboxInvariant` | `Spec => []OutboxInv` |
| `DispatchedOnce` | `Spec => []AtMostOnce` |
| `OutboxImplementsContract` | `Spec => KeepsContract`, the refinement |
| `InvocationsAreRunning` | `Spec => []LiveInvocationIsRunning`, with `ExclusiveHosts` |
| `RecoveryTakesFromTheDead` | `Spec => RunningBelongsToTheDead`, with `ExclusiveHosts` |

`OutboxInv` says that a claimed row has one holder from the claim to the
outcome, however late the outcome comes, and that the holder's step tells
whether the effect has happened. The refinement has one lemma per group of
actions; each maps to one action of `WinnerAction` or to a stutter. With the
guard one host serves at a time (`OneServes`) and a worker's host serves until
the worker is gone (`WorkersAreServed`), so a recovery meets only rows of the dead;
that is all `GuardedInv` adds.

`LiveProofs` (any queue, channel and effects sizes, any deadlines, with or
without panics, an arbitrary transport):

| Theorem | States |
| --- | --- |
| `IngressInvariant` | `Spec => []IngressInv` |
| `IngressTypeCorrect` | `Spec => []TypeOK`; no counter goes below zero |
| `ItemsAccounted`, `EffectsAccounted` | `Spec => []EveryItemAccounted`, `Spec => []EveryEffectAccounted` |
| `SafeStops`, `CleanStops` | `Spec => []SafeStopDrained`, `Spec => []CleanStopLostNothing` |
| `NoTaskOutlivesStopped` | `Spec => []StoppedIsDead` |
| `FenceHolds` | `Spec => []NeverToANewerCreator` |

`IngressInv` adds to these properties what they lean on: `TaskOrder` (which
task may still run at which rung of the ladder), `LadderOrder` (which rung the
life cycle and the tokens have reached), `Emptied` (what a task that is gone
leaves behind), `ReceiptAccounted` (everything received is accepted, shed,
refused, given up, or in the pump's hands, and every loss left its mark) and
`ContextIsCurrent` (the context is that of the last connection the worker was
told of). What `LadderOrder` says of the tasks holds as long as the ladder has not
passed a task without its handle; that it may not do so once the handles are stored,
nor when no start has begun before admission closed, is what carries
`NoTaskOutlivesStopped`. The counters are the hard
part: an abort moves whatever is outstanding to one counter while two drop
guards move parts of it to another, so `TypeOK` (nothing negative) and the two
accounts only hold together.

`ConnectionProofs` (any callers, generations and faults):

| Theorem | States |
| --- | --- |
| `ConnectionInvariant` | `PipelineSpec => []ConnectionInv` |
| `AtMostOneConnection` | `PipelineSpec => []OneConnection` |
| `SnapshotTellsTheTruth` | `PipelineSpec => []SnapshotHonest` |
| `PipelineInvariant` | `PipelineSpec => [](ConnectionInv /\ IngressInv /\ PipelineInv)` |
| `CreditsGoToOwn` | `PipelineSpec => []CreditedToOwn` |
| `SettledIsTrue` | `PipelineSpec => []SettledAgrees` |
| `IngressBehindConnection` | the properties of `LiveProofs`, for `PipelineSpec` |

`ConnectionInv` adds that an owned
task is of the current generation (`ActiveIsCurrent`) and that a call in
`retire` holds the lock and its task has been told to stop (`RetiringIsLocked`).

The last four are about the composition: the connection owner's callers and task at
one end, the worker's context at the other, and between them a broadcast channel, the
pump and a queue. `Line` is all that is on its way, oldest first. While nothing was
missed (`Announced`), every event in it comes after the announcement of its own
connection or belongs to a connection the worker knows (`Covered`), nothing in it is
of a connection that has not begun (`Bounded`), an open connection is announced there
or is the worker's context (`Heard`), and an announced end is the last word about its
connection (`EndHeard`). That is why the worker, which only compares generations,
never credits an event to the creator of another room. `CallsInOrder` supplies the
other end: a caller that announces a disconnect does so for a generation that will
not speak again. A step of the owner, whatever it is, either begins a generation or
says one of four things at the end of the line (`ConnectionMoves`); a step of the pump
or of the worker moves a message along the line or takes it off the head. With
`SettledIsTrue` the line is empty, so what it said of the transport is what the
worker has. All of it begins with a pump that listens before anything is said
(`BeforePump`, `~early`): while the snapshot is idle no task of an earlier connection
is alive, so nothing can come without its announcement. `CleanStopLostNothing` and the other properties of `LiveProofs` hold
of an arbitrary transport; `IngressBehindConnection` carries them over to the real one.

`MonitorProofs` (any clients, generations and faults, with the connection owner
below left open):

| Theorem | States |
| --- | --- |
| `MonitorInvariant` | `Spec => []MonitorInv` |
| `StatusTellsTheTruth` | `Spec => []StatusHonest` |
| `SessionsEndAlone` | `Spec => []SessionEndsAlone` |

`MonitorInv` is a statement about locks. The mutex has one holder (`MutexHeld`),
a cancelled supervisor has somebody joining it (`TokenInv`), from the join to the
answer no supervisor is there (`JoinedInv`), and a shutdown that has passed the
mutex leaves no `monitor.start` behind it (`ShutdownInv`). `StatusInv` then ties
the status, which three tasks write, to the supervisor.

`PointsProofs` (any callers, viewers, sizes, faults and number of operations):

| Theorem | States |
| --- | --- |
| `PointsInvariant` | `Spec => []PointsInv` |
| `WritesAreAccounted` | `Spec => []EveryWriteAccounted` |
| `WatermarksAreHonest` | `Spec => []WatermarksHonest` |
| `BalancesAgree` | `Spec => []BalancesAreExact` |
| `DirtyRowsAreKept` | `Spec => DirtyRowsStay` |
| `AwardsAreRecorded` | `Spec => []RecordedOnce` |

The line of the writer is its batch followed by the queue. `OneTicket`: a
sequence is with a caller, in the line or done, in one of them and once.
`Counted`: what is admitted is in the line or done. Without `OneTicket` the
count is not inductive, because finishing an operation twice would not enlarge
the set of finished ones. `InOrder` is the argument of the watermark: while the
order was kept, the line holds consecutive sequences that start after the
finished ones, so the last sequence of a batch is the position of its end, and
storing it, in one watermark and then in the other, claims no more than what is
done. A step of a caller hands a ticket
in (`HandsInKeeps`), takes one (`TakesKeeps`) or does neither (`QuietKeeps`); a
step of the writer moves the boundary of the line (`PopKeeps`), settles its
head (`AdvancesKeeps`) or stores a watermark (`WriterMoves`).

`BalanceInv` says what a balance will be. Between an award and its write the cache,
the disk and the sum of what was asked differ; but the last operation on its way
about a viewer carries the sum (`Exact`), and the cache has it already. This needs
two things. The markers `pending` and `reset_pending` must cover all that is on its way
(`Marked`), or a row could leave the cache before its write: `DirtyRowsAreKept` is the
step form of it. And what a call has read of a viewer outside the locks must still
be so when it acts on it (`UpToDate`): a reload waits until the operations it saw are
resolved, after which no other may exist, unless it raced with one. `Clean` excuses exactly the
viewers that the model names. All of it holds while the queue has the order of the
sequences, since the last operation in the line is otherwise not the last one asked.
`LedgerInv` is about sequences and not about balances, and holds without that order:
no sequence is applied and failed, and a transaction that is tried again, one
operation at a time, finds its earlier attempt rolled back (`Recorded`). `Affords`
keeps the sequences within the model's bound on operations.

**Only model-checked.** Liveness under fairness, which is out of the prover's
reach: `DueCloses`, `FinalizingFinishes`, `PendingIsTaken`, `StopTerminates`,
`MonitorResumes`, `OperationsReturn` and `EverythingReturns`. The induction theorems
of the library take an operator as a parameter, which the provers cannot
instantiate; the sums and folds above are proved by induction on a set of numbers.

## 5. Abstractions and what is left out

* Competitions: identities, commands and payloads are model values; matching a
  chat line to an option is the constant `Choice`, and `Kind` says which of the
  two routes an event takes. A ranking that counts likes counts one per event.
  Definitions are fixed (`competition_update` is not modelled) and valid, and
  the definition list can be read at boot (`load_failed`, which disables the
  feature for the run, is not modelled). One competition per ranking:
  `build_index` refuses a second one. Weighted draws name the same possible
  winners as uniform ones. Leaderboard challenges and `targetScore` use an
  ordinary ranking and are not modelled.
* Gifts: one creator, room, sender and host (`Competition` has the ownership). Amounts
  do not overflow. `RouteFailed` stands for everything that commits nothing and marks
  the ranking: storage errors, a full ledger or table of combos, a stopped host. A
  crash brings back some earlier checkpoint of the ordinary rankings. Single gifts
  without a group that are certain to be single are independent and left out. The
  ranking is scored in diamonds; one that counts gifts is the case of price one.
* `DrainTimeout` and `CheckpointTimeout` may happen at any moment; no
  assumption is made about how long the ladder's limits are. The one limit
  relied on is that recovery is over when the worker may be aborted
  (`CompetitionOutbox!Abort`). What the worker of a competition holds next is any
  event of the connection in force; how it came there is `LiveIngress`.
* The outbox leaves out the page size of 32, diagnostics reasons, published
  events and the content of actions.
* LIVE: a message is its generation and kind. What a handler does with one data
  event (deduplication, totals, mapping, publication, plugins) is one step
  that may panic; what becomes of a gift is `GiftLedger`. The wire protocol, room discovery, the length of delays and
  the number of retries are data; an ended handshake may have failed for any
  reason. The monitor's validation and the counter that lengthens its delay are
  left out.
* Points: an award is worth one point and an adjustment takes one away; levels,
  counters, the configuration, the leaderboard and `set_cache_capacity` are left
  out. `evict_cold` removes the rows with the oldest wall-clock time first: any clean
  row may be the oldest. There is one awarding LIVE thread, as in the program;
  the work queue in front of it and the analytics writer are not modelled.

Not modelled: the totals of likes and the session record, the automation
runtime, plugins and their installer (state machines of their own, section 6);
cloud, updater and CLI (request and response over I/O, little state); desktop,
frontend, scripts and vendored code (presentation and glue). `PROJECT.json`
gives the reason for each.

## 6. Plan

Done, in this order: the competition and its proofs; the winner-action contract,
the outbox and the refinement; the LIVE pipeline and its proofs; the connection,
its proofs and the composition of both; the monitor, the control operations and
their proofs;
the points writer and its proofs; gifts and their proofs.

Next:

1. The plugin supervisor: bounded per-plugin queues, restarts, circuit breaker.
2. The installer's jobs and receipts: a crash at any step of the swap.
3. `RankingCheckpoint`: ownership, `persist_one` and the periodic pass.
4. A composition of `Competition` with `LiveIngress`, from a message to a vote, and
   an abstract contest that it implements.
5. `competition_update`, leaderboard challenges and `load_failed`.
6. Proofs: the composed pipeline as a refinement of the ingress behind an arbitrary
   transport, and of an abstract pipe that delivers each event to its own creator;
   the abstract contest of item 4.
