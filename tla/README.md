# TLA+ models of DS Agent

DS Agent is an autonomous data-science agent: a Python back end (`src/ds_agent`) that
runs an LLM tool-calling agent for sessions opened from a desktop application
(WebSocket), a Telegram bot or the command line, and an autonomous daemon that starts
runs of its own in reaction to sensors, schedules and recovery events. This directory
holds TLA+ models of the parts of the back end whose correctness depends on the order of
events, TLC instances of them, and proofs checked by TLAPS. Paths below are relative to
`src/ds_agent/` of the repository.

## 1. Inventory

### 1.1 Components

| component | code | state it keeps | operations | interacts with |
|---|---|---|---|---|
| Run lifecycle | `api/ws_handler.py` (`AppState.start_run`, `wait_for_run`, `abort_run`), `runtime/run_registry.py`, `runtime/task_ledger.py`, `runtime/session_registry.py` | one JSON record per run, one per task, one per session; the asyncio tasks | start, wait, abort, mark succeeded / failed / cancelled, done callback, load at start | agent turn, usage store, callbacks, daemon |
| Daemon and coordinator | `gateway/daemon.py`, `runtime/coordinator.py`, `runtime/policy_engine.py`, `runtime/policy_store.py`, `application/services/scheduler_service.py`, `runtime/sensor_hub.py`, `runtime/sensors/` | event queue, cooldowns, window of recent dispatches and resource flag in memory; standing orders and recurring goals in `policy.json` | publish an event, take one, decide, dispatch, mark the job; sweep the governance orders; register, update, disable an order | run lifecycle, sensors, recovery, `standing_order` tool |
| Startup recovery | `runtime/startup_recovery.py`, `runtime/checkpoint_store.py`, `runtime/goal_store.py`, `runtime/working_memory.py` | checkpoint, goal and working memory of a session | recover, publish `recovery.resume`, await an approval | coordinator, approvals, agent |
| Agent turn | `agent/core.py`, `agent/hooks.py`, `agent/context_manager.py`, `agent/budget_tracker.py` | history, budget, checkpoint | run, tool calls, finalize | providers, tools, approvals |
| Approvals | `runtime/approval_store.py`, `runtime/approval_grant_store.py`, `application/use_cases/submit_approval_usecase.py`, `runtime/action_token.py` | one file per approval, grants by scope | create, resolve, poll for the answer, grant, revoke | agent turn, WebSocket, Telegram |
| Task contracts | `domain/services/task_contract_state_machine.py`, `application/services/task_contract_usecases.py`, `infrastructure/persistence/task_contract_store.py` | the aggregate (contract, verdicts, delivery pack) with a version, and its event log, in SQLite | create, update and transition, assumptions, verdicts, build / record / render / dispatch a pack, close | agent tools, HTTP, command line, Telegram, verifier, delivery |
| Delivery | `infrastructure/delivery/delivery_router.py`, `runtime/deferred_notification_store.py`, `runtime/delivery_rate_limiter.py`, `runtime/digest_builder.py` | log of dispatches with idempotency keys; deferred notifications, send times | dispatch a pack; route, defer, digest a notification | task contracts, channels |
| Telegram gateway | `gateway/bot_supervisor.py`, `gateway/telegram_runner.py`, `infrastructure/telegram/` | bot task, backoff, pairing codes | start, stop, restart, pair, commands | run lifecycle, approvals |
| Background tasks | `runtime/background_task_manager.py` | tasks by id | submit, poll, cancel | tools |
| Learning | `application/learning/`, `runtime/learning_governance_scheduler.py` | learning items and their status | propose, review, promote, roll back, deprecate | memory |
| Promotion and post-deploy | `application/services/promotion_gate_usecases.py`, `runtime/post_deploy_monitor.py` | decisions, regression state | decide, record, alert | delivery |
| Subagents and task graph | `application/services/subagent_orchestrator.py`, `application/services/task_graph_service.py` | graph of tasks | ready, assign, finish | agent turn |

Also in the repository and not candidates for a model: LLM providers, tools and
sandbox, connectors, exporters, verifiers and certification, semantic memory,
configuration, the evaluation harness, the command line, the Electron application. They
are network clients, document rendering, numerical checks, or front ends over the
services above; `PROJECT.json` lists each with its reason.

### 1.2 How they interact

Every WebSocket connection is served by one coroutine that handles one request at a time
(`api/app.py`), the coordinator by one coroutine that handles one event at a time
(`AutonomousCoordinator._loop`). Both call `AppState.start_run`, which returns once a
third coroutine, the task of the run, is scheduled. All of them share one event loop: a
stretch of code without `await` is atomic for the others, but not for a crash, since it
writes one file after another, each in place: a file that was cut short does not parse and is
read back as an empty one. A session has one `DSAgent` object, shared by all its runs,
and one checkpoint file.

### 1.3 What is hard, and what correctness means

* *Run lifecycle.* A run is recorded three times (run registry, task ledger, closing
  frame to the client) and billed once, by different code at different times, while
  clients abort it, other callers replace it, waits time out, stores raise, and the process
  dies, perhaps in the middle of a file. The records must not contradict each other; a run
  that ended must not be marked again; a
  session's agent should work for one run at a time; every waiting caller is answered.
* *Daemon.* Its guards (capacity, running run of the session, cooldown, throttle)
  are tested before awaits and must hold after them. An event that a guard refuses is
  dropped, so the slot it was for must live in `policy.json` until a run has started, and
  no longer: ticks queue up behind a slow start and must not run a slot twice. The
  coordinator and the daemon's sweeps look at the same orders at every tick.
* *Approvals.* Several surfaces may answer one approval, and answer it again; the agent
  must act on an answer that was given to its question, once, whatever two processes
  write back and a crash leaves half written.
* *Task contracts.* Clients edit copies of one aggregate for minutes; its gates (verdict
  before review, rendering before delivery, dispatch before closing) must hold of what is
  stored, whatever conflicts, deaths and replaced packs come between.
* *Delivery.* The send is outside of any transaction: a lost answer, a repeated or an
  overlapping dispatch must not send twice, nor count as sent what was not.
* *Telegram.* A bot that was stopped stays stopped, backoff and restarts race with it.

`PROJECT.json` lists the hazards line by line with the properties that cover them.

## 2. Plan

| step | modules | content | runs | theorems |
|---|---|---|---|---|
| 1 (done) | `RunLifecycle`, `MCRunLifecycle`, `RunLifecycleProofs` | the life of a run | 3 passing, 4 that show a document violated | type, records, ledger, frame, bill, finality, capacity, one turn at a time, tasks that wind down |
| 2 (done) | `Approvals`, `MCApprovals`, `ApprovalsProofs` | questions and proposals, every surface that answers, two processes, crashes | 2 passing | type, answers acted upon, proposals asked for, grants, single write, finality of reviews |
| 3 (done) | `ContractPromise`, `TaskContract`, `MCTaskContract`, `TaskContractProofs` | the aggregate of a task contract, its clients, optimistic locking, rendering and dispatch of delivery packs; what it promises, and the refinement | 1 passing with the abstract specification as a property, 1 that shows a document violated | type, evidence of review, rendering, dispatch and closing, single sends, all of them whatever saves overlap; finality and the refinement until the first overlap |
| 4 (done) | `Autonomy`, `MCAutonomy`, `AutonomyProofs` | sensors, policy engine, coordinator loop, marks, sweeps, throttle, pressure, restarts | 1 passing, with liveness | type, slots kept and run once, throttle, pressure, sweeps |
| 5 (done) | `RunPromise`, `ApprovalPromise` and the modules of their proofs | what a run and an approval promise those who watch them, and that `RunLifecycle` and `Approvals` keep it | `KeepsPromise` in the runs of the two modules | one story of a run, words that stand; nothing unasked, nothing too often, decisions that stand; both refinements |
| 6 (done) | `SessionRuns`, `SessionRunsProofs` | the runs as the coordinator counts them: where `RunLifecycle` and `Autonomy` meet | `CountsRuns` in a run of each | both refinements, runs at work are seen, places that are lost |
| later | Telegram supervisor, background tasks, goals of a session, learning items | start / stop / backoff; cancel before start; stale goal ids; promote and roll back | | |

The modules take their bounds and sets as CONSTANTS with named assumptions, have one
action per operation and no recursive operator, so that they can be proved about.

## 3. `RunLifecycle`: the life of a run

| variable | code |
|---|---|
| `created`, `status`, `owner`, `surface` | the records of `RunRegistry`, numbered by `created_at` |
| `ledger` | the record of `TaskLedger` for the run |
| `lastRun` | `last_run_id` of `RuntimeSessionRegistry` |
| `usage` | how often `OrganizationStore.record_usage` was carried out for the run |
| `checkpoint` | whether `CheckpointStore` has a checkpoint of the session |
| `coro` | where the coroutine `_execute` stands, at one of its awaits or file writes |
| `watched` | the runs whose task got the done callback of the ledger |
| `cancelReq` | `task.cancel()` was called and the exception not yet thrown |
| `bound` | `_current_run_id` of the one `DSAgent` of the session |
| `actor` | the `start_run` call each caller is in |
| `resume` | `recovery.resume` events in the sensor hub |
| `frame` | the last closing frame that went out to the client |

*Granularity.* One event loop runs everything, so a step is the code between two
awaits; where that code writes several files it is split after each write that a crash
could separate, and `LoopFree` keeps the other coroutines out in between. Each action is
mapped to its lines in `PROJECT.json`. Outside of the model stay the text of
messages, the tools of a turn (a turn begins, ends, raises or is cancelled), the policy
and budget that may refuse a run (`RefuseAfterWait` refuses or not), branching and
deleting of sessions.

*Frames.* `send_json` puts the frame into the buffer of the transport and then suspends, so a
frame counts as out from the moment the send begins (`Send`), and a cancellation that
arrives in the send of `stream.done` comes too late for the client: it holds "done", and the
record becomes cancelled (`TaskCancelled`), with an "[Aborted]" frame behind it or, where
the client is gone by then, without one. `_emit` returns at once where the client is gone.

*Stores that fail.* Nearly each statement of `_execute` and of the end of `start_run` writes
a file and may raise. With `StoreMayFail` each of them does or does not, and the code
skips what the except and finally clauses skip: the event before the `try` (`TaskStart`), the
mark of the success after the record changed in memory (`MarkSucceeded`), the usage and
the events behind it (`RecordUsage`), the usage in the exception clause
(`HandleException`), the events behind the marks (`MarkFailed`, `TaskCancelled`), the
`bind_run` of the finally clause (`Leave`), `create` after the record is in memory
(`CreateRaises`), the ledger before its done callback is added (`RegisterTask`). Two
things are assumed of a write that raises: the registries keep the change they made in
memory before it, as the code does; and it leaves a file that a later write replaces or a
crash finds torn, not one that is silently old. A done callback that cannot write the
ledger's file has changed the ledger in memory.

*Crashes.* A crash may come between any two writes and into the middle of one
(`CrashRestart`). The three registries are rewritten in place and read back as empty
where the file does not parse, each for itself (`RunsTorn`, `LastRunsAfter`); a checkpoint
that was being written is skipped by recovery (`CheckpointsAfter`). The files may be
torn at any crash, since an earlier write may have failed. The number of a run is never used
again, as the code draws run ids at random; `usage` and `frame` are history that no crash
takes back.

*Runs.* `MCRunRaces`: two connections and the coordinator on one session, three runs, waits
that may time out, a capacity of two, so that the coordinator can wait inside `start_run`
between the test of the capacity and the new record; the interleavings of one
`start_run` with another, with an abort and with the end of an older run all occur with
three runs, and two connections suffice because a third would only repeat what the second
does. `MCRunFails`: every store may raise, one crash, files torn, cancellations lost;
one connection and the coordinator with a capacity of one, two runs, because each failure
concerns one run and at most the caller that waits for it. Its formulas are the ones
that failures could break, liveness included. `MCRunApart`: two sessions with one caller
each and a client that only aborts, one crash that may tear the files; here the shared
agent is claimed to work for one run at a time and the count of the runs to be right.
`CHECK_DEADLOCK FALSE` in these: once `MaxRuns` runs are over, nothing is left to do.

*Fairness.* asyncio runs each ready callback (`WF` on the steps of callers and tasks and
on the coordinator's handling of a recovery event). A turn ends because each LLM call has
a timeout and the budget bounds their number; a send ends because the code swallows the
errors of a broken connection. No fairness is assumed of clients, aborts or crashes.

*What the checks show.* What races do not do: a run that failed, was cancelled or has no
task at work is never marked again (`TerminalMarkIsFinal`), but its record may go with the
whole file. What the client was told last is what the record says, with one exception that
`FrameMatchesRecord` spells out: "done" of a run that a cancellation caught in that send, and
such a task never counts as returned. A RUNNING record may outlive its run: the task was cancelled
before its first step, or a store raised outside of the `try`, in the exception clause or in
`create`. A run that succeeded can be marked failed, see the findings.

*The promise.* `RunPromise` is a run as an outsider sees it, with no coroutine, caller,
wait or store in it: four records that move by eight moves, of which `Lose` is the crash
that takes a file. A success may be overturned, and billed again as a failure, only as long
as the client was told nothing; it may be withdrawn by a cancellation only while the
client is being told. `OneStory` and `TheWordStands` say what a client, a bill and a later
`run.list` may rely on. `KeepsPromise` instantiates it with `status`, `ledger`, `usage`
and `frame`.

*The count.* `SessionRuns` is the runs as the autonomous coordinator reads them: the sessions
whose newest record is RUNNING (`_has_running_run`), the number of RUNNING records
(`_has_dispatch_capacity`), and, which it cannot read, the sessions that have a run at
work. A run ends with a mark, is stranded (it was cancelled before its first step, or a store
raised where no mark follows), is written down and never gets a task (`BeginsStranded`), or
dies with the process; the last three leave a
RUNNING record that nothing corrects, unless a crash tears the file and every record is
gone (`Dies`). `CountsRuns` instantiates it here and in `Autonomy`,
where the runs are reduced to these three numbers, so the two modules agree on what a
step may do to them. Here it holds where each session has one caller and no wait
times out: two callers may leave two runs at work in one session.

*Violations* (each quotes its document in `PROJECT.json`): two callers that
wait for the same old run both create one (`MCDocOneRunning`); an autonomous run that
succeeded ends FAILED, since its callbacks do not take the `cards` argument
(`MCDocDaemonSuccess`); a crash leaves a RUNNING record that makes the coordinator drop the
recovery event of that session (`MCDocResume`); a run that is still sending its closing frame
when the next run of its session begins makes itself the session's last run again when it
leaves (`MCDocLastRun`).

## 4. `Approvals`: questions, proposals and their answers

| variable | code |
|---|---|
| `rec` | the JSON file of `JsonApprovalStore`: status and response; "torn" is a file a crash left half written, which `get` and `list` treat as absent |
| `proposal`, `eligible` | status and `auto_apply_eligible` of the `SemanticProposal` in SQLite |
| `saves` | writes of the proposal's payload into the semantic memory |
| `grants` | grants issued by `submit_approval` |
| `op` | the handler a process is in, and the record and status it has read |
| `waiter` | the `ask_user` call that polls the file |
| `given`, `acted` | history: answers given and by which process; the answer `ask_user` returned |

*Granularity.* Handlers of the server run without an await, so within the process they are
atomic; the command line is a second process on the same files and database. A handler
is therefore split where the other process, or a crash, can come between two
accesses. Server handlers start only when `op["api"]` is idle. An operator's answer is
one of three: "approve" (the default reply of a question), "apply" (for a proposal the word
that applies it, for a question any other reply), "reject". The command line lists first
and answers the record it listed, which may be stale.

*Runs.* `MCQuestions`: two questions, all surfaces, one crash. `MCProposals`: one proposal,
both processes, two crashes, three writes; proposals do not interact (each has a file and a
row of its own, and a handler is about one), so one is enough, and two crashes
leave room for a crash of each process. `MaxSaves` is above what
`SavedOnce` allows after one crash, so that a write too many is not cut off. Deadlock is checked in both.

*Fairness.* `WF` on the steps of a handler that has started, `SF` on the poll: the poll is a
timer of the event loop that comes round every 250 ms between two handlers; with weak
fairness an operator who answers without pause would keep it out for ever.

*What the checks show.* `AgentActsOnAnswer`, `ProposalAsked` and `OneGrant` hold with every
surface and both processes. `SavedOnce` and `ReviewIsFinal` are stated for approvals
that only the server answered (`OneProcess`): the repository updates a proposal without
comparing its status, so a review of the command line that interleaves with one of the
server can overturn it, and `ds-agent semantic proposal apply` writes an eligible
proposal that was rejected before it finds the transition invalid. A crash between write
and mark allows one more write, hence `1 + crashes`.

*The promise.* `ApprovalPromise` knows neither files, handlers nor processes that read and
write back: answers are given, and the agent, a review, a write, a grant may follow
where an answer asks for it. `AllAsked`, `InMeasure` and `DecisionsStand` say
what that is worth. `KeepsPromise` instantiates it with `given`, `acted`, `proposal`,
`saves`, `grants` and `crashes`.

An approval that is resolved may be answered again, and its verdict overturned: only
`SubmitApprovalUseCase` tests the status, and no document claims more of the present code
(PLAN_13, whose PHASE_04 asks for it, is a proposal).

## 5. `TaskContract`: one aggregate, many clients

| variable | code |
|---|---|
| `stored` | the `TaskContractBundle` in SQLite: status, version, what the gates read of contract and mission, the effective verdict, the runs with a verdict of the automatic verifier, the current pack |
| `cl` | what each client is in the middle of, with its copy of the aggregate: "viewed" (it saw a version and will name it), "verifying", "rendering", "dispatching", "sending" (inside `adapter.send`), "saving", "writing" (between the SELECT of the version and the INSERT) |
| `nextPack` | pack ids are fresh |
| `logged` | the "sent" records of the dispatch log, by idempotency key (pack, artifact, channel) |
| `sent`, `doubt`, `recorded`, `renderings`, `closedPack`, `overlaps` | history: sends; keys with a send that the log may not show; packs written as given by `record_delivery_pack`; what a stored pack had rendered; the pack a mission was closed with; saves written between the check and the write of another |

*Granularity.* A use case loads the aggregate, edits a copy and saves it with the version
it loaded. What happens without I/O is one step; the awaited verifier, the rendering, each
call of an adapter, the check of the version and the write are steps of their own, and a client
may die, or its use case raise, before each (`Die`). The routes, the command line, Telegram
and the agent factory build a store each, and the lock of a store is its own, so the
SELECT of the version and the INSERT of one client may enclose those of another: nothing
in the model keeps them apart, and `overlaps` counts when it happens. A
dispatch goes through the selected artifacts and the channels they are configured with
(`Selected`).

*Abstraction.* A contract is reduced to what the gates read: declared deliverables,
`minPass` (a definition of done that asks for "pass"), whether a mission pack is
attached. Of the verdicts only the effective one counts (`Effective`); a verdict
whose metadata lists a required check of the mission that did not pass is the result
"gap". An artifact is its audience. Dry runs and failure signals edit nothing that is
modelled; `EditAssumption` stands for every edit of fields no gate reads. With a store each,
a reader may see the rows of one aggregate from two writes (a bundle
is read by several SELECTs): this is not modelled, `MCDocTerminal` needs nothing of it.

*The promise.* `ContractPromise` is what a reader of a contract may rely on: versions
rise by one, the status moves along one edge of the table, recorded verdicts of the
verifier are not lost. The code keeps it until a save is written between the check and the
write of another, and there the promise ends (`Overlap`): a stale copy may be stored over
a newer one, and a later save may restore what a copy of any age holds. `KeepsPromise`
instantiates it with `stored` and `overlaps > 0`. The evidence behind review, rendering, dispatch
and closing is claimed with no such limit.

*Runs.* `MCContracts`: an editor that does everything and a client that renders and
dispatches, one audience, one channel that the mission requires, two packs, one overlapping save
(`MaxOverlaps`). A conflict, a lost update, a replaced
pack, an overlapping and a repeated dispatch all need two clients; a
send that is counted for the wrong pack needs two packs; one overlap already stores a stale copy over
a newer aggregate, and everything that may follow is explored. One audience on one channel loses the
partial dispatches and the choice between channels, which the proofs cover, as they
do all constants. Deliverables, definition of done and mission are chosen at the creation and
not patched in this run (`Patchable` is empty); the verdicts are a person's and the verifier's
(`Reviewers`), all of grade "pass", since the gates on grades are local to one
use case. Versions grow without need, so `MaxVersion` is out of reach and
the VIEW `Shape` forgets what no step can tell (its comment says why that is sound).
`MCDocTerminal` patches the mission and allows four overlaps. `CHECK_DEADLOCK FALSE`: a closed
contract may leave nothing to do.

*What the checks show.* The evidence behind review, rendering, dispatch and closing
survives every interleaving, lost updates included: a save may lose a rendering or a
verdict, and then what was delivered had still been rendered in a stored pack, and a contract
that is in review still carries a verdict. A dispatch that is retried sends again only where a send went unrecorded or
two dispatches overlapped (`SentOnce`): the log has no unique key, it is read before the
adapter is called and appended to after. The mark `dispatched` may be lost to a conflict; the
retry then finds the record and sends nothing. Of what a reader might expect and
the code does not do: rendering alone marks the items delivered, so a contract without a
mission closes though nothing was dispatched; a rendering clears `rejected` and
`dispatched`; a dispatch of some artifacts marks the whole pack; a verifier that times
out records "warn", which passes the review gate; no status forbids a patch, a verdict or a
new pack, so closed contracts are still edited.

*Violation* (`MCDocTerminal`): two clients pass the version check with the same version, and
the later write turns an abandoned contract into a draft again.

## 6. `Autonomy`: from a slot to a run

| variable | code |
|---|---|
| `up`, `profile` | the `AutonomousDaemon`, the automation profile |
| `enabled`, `pending`, `ever` | `policy.json`: enabled jobs; jobs it calls due by `next_run_at` or `last_triggered_at`; governance orders whose first slot is past |
| `fresh`, `due` | the clock: jobs with a slot since the last tick; history: slots that no run or sweep has served |
| `queue` | `SensorHub`; a tick carries the slots that arrived since the tick before |
| `coord` | `AutonomousCoordinator`: idle, or awaiting `start_run` for a job |
| `window` | `PolicyEngine._recent_dispatches` |
| `pressure`, `sensed`, `missed` | the flag of the engine, the flag of `SystemResourceSensor`; history: the last change was lost between the two |
| `running`, `live`, `lost` | run records: sessions whose latest one is RUNNING, sessions with a run at work, RUNNING records without one |
| `again`, `doubt`, `slipped` | history: what was run without a slot, and the ways that may happen |

A job is a standing order (`Orders`, of which `Governance` are the built-in ones that the
daemon registers and sweeps itself), a recurring goal, or the event itself (`Direct`).

*The clock.* Times are only compared with each other, so a time is replaced by the slots
that lie before it: a slot of a job arrives (`SlotArrives`), a tick carries the slots since
the tick before, and a job is due at an event if `policy.json` calls it due by the
slots up to that event. Marking with the time of the event leaves the slots after it. The
interval of a goal starts at its mark and may have passed again at one of the ticks
in the queue, which `Marked` leaves open. The seconds of the cooldown are left open:
`Suppress` may drop any event. `Expire` lets the oldest dispatch leave the window.

*Granularity.* The coordinator handles one event at a time and awaits only `start_run`; the
evaluation with the guards, and the mark with the entry in the window, are one step each.
An event is recorded before it is evaluated, and the loop swallows what that raises: then a
change of the pressure is lost (`TakeResource`). `start_run` may fail before it creates a
run (`StartFails`), after the record is written (`StartStrands`), or when the task is at
work; then, and where the decision cannot be recorded, `note_dispatch` is not reached and the run is in
no window (`StartedUnmarked`). A crash may fall between start and mark, or into the writing of `policy.json`, which is
then read as empty (`CrashMarking`); it may tear the records of the runs as well (`RunsTorn`). `emit_tick` publishes the tick and calls `on_tick`
without an await, so `Tick` is one step: each governance order that is due is
marked and then swept. Mark and sweep may fail; a sweep that fails after its mark is
lost until the next slot. Runs start and end by themselves (`UserRun`, `EndRun`,
`StrandRun`), though not in the session in which the coordinator is starting one:
`start_run` suspends only for a run that it aborts, and there is none.

*Run.* `MCAutonomy`: a governance order, an older order with a cron expression, an order with a
file trigger that is created on the way, a recurring goal, one session, a queue of two
events, two runs at a time, one dispatch in the window, one fault or intervention. The
due jobs of a tick are then ordered by age and kind in every way the policy tells apart; the
second event is what a backlog needs. Monitoring alerts, the aggressive and the manual
profile, several sessions and more faults are in the model and covered by the
proofs, not by the run. `CHECK_DEADLOCK FALSE`: a daemon that is down with no faults left
and nothing due may stop.

*Fairness.* Weak fairness of the coordinator's loop, an asyncio task that is never
cancelled but by `stop`; strong fairness of the start of the eldest order: `start_run` may
refuse (organization, budget), but not for ever. Nothing is assumed of sensors,
operators, faults or the clock. `OldestServed` has a premise besides, that again and again a tick is
taken while throttle, pressure, cooldown and capacity would let a run start: without
it the daemon owes nothing.

*What the checks show.* The order that was created first among the operator's is served; no
such claim holds of the others, since one job is dispatched per tick, the first by age,
and goals only when no order is due. No slot of the operator is lost to a dropped event, and none is
run twice but after a mark that could not be written. Governance orders are less
safe: registering them at each start resets `last_run_at`, so one that ever had a slot is
swept again at the next tick (`doubt`), and one that is enabled while a tick is
queued may be given to the agent (`slipped`). A record left RUNNING by a crash counts
against `autonomous_max_concurrent_runs` (1 by default) and for the resource
pressure for good, unless a crash tears the file; the daemon may then never dispatch again. An
engine that missed a change of the pressure suppresses every run, or none, until the
next change: `PressureFollows` claims agreement again from there.

## 7. Proofs

All theorems are for every value of the constants under the named assumption of the
module; `tlapm` checks them to the last leaf.

`RunLifecycleProofs`. The inductive invariant `IInv` joins the checked invariants with
what they need: which records exist (`RecordsInv`), that at most one coroutine is between
two writes and that a run being created has no task (`SliceInv`), how often a run
has been billed, and what it was sent, in each phase (`BillingInv`), that a cancellation is pending only where it can
still be thrown (`CancelInv`). Without `SliceInv`, say, the mark of a run could meet a
task that does not exist yet. One lemma per action shows that it keeps `IInv`;
`TypeCorrect`, `PhaseCorrect`, `LedgerCorrect`, `FrameCorrect`, `BillingCorrect` and
`MarksAreFinal` follow, with every failing store and torn file in them. A second invariant, `TurnInv`, assumes sessions apart and gives
`OneTurnAtATime` and `AgentOwned`; a third, `CapacityInv`, relates the run the
coordinator waits for to the capacity and gives `CapacityKept` and `NoPreemption`.

`KeepsPromise` of `RunLifecycle` is proved from `IInv` (`Implements`): a lemma for each group of
steps names the move it is. The facts of `RunPromiseProofs`, proved of the promise alone,
then hold of the code by instantiation: `TellsOneStory` (of a run whose record survives, the
client, the registry, the ledger and the bill agree) and `WordStands` (after the closing
frame or the verdict the bill stands, and the record but for a success withdrawn while it is
sent, or the loss of the whole file). `CountsTheRuns` needs one invariant more, `BusyInv`: a RUNNING run with
a task is the newest of its session, and the only one a caller may wait for there;
without the second half, a wait that ends could be followed by a run beside another one.
It assumes `Exclusive` and `~WaitMayTimeOut`, as `OneTurnAtATime` does, and gives
`OneRunAtWork`, `RunsAreSeen` (no run at work escapes the two guards) and, by
`CapacityIsLost` of `SessionRunsProofs`, `PlacesAreLost`: the places of the capacity
that are taken by records without a run never become fewer, but for all of them at once with a
torn file. `TasksWindDown` is the
safety half of `TaskEnds`: each step of a task leaves it fewer phases (`Ahead`), no step sets
one back or starts one again.

`ApprovalsProofs`. `IInv` adds to the checked properties what a handler holds (`OpInv`:
its answer was given to it, the record in its hands is not pending), that a question's
file holds an answer that was given (`RecordInv`), that a grant or a handler that will
issue one leaves no way back to a pending file (`GrantInv`), and that, while the
command line keeps out, the status a server handler read is the status it overwrites
(`ApiInv`). From it follow all safety properties of the module and `ReviewFinal`.

`ApprovalsProofs` has the same for `ApprovalPromise`: `OnceInv` adds to `IInv` that the
agent holds no answer before its wait is answered, and what a handler between two accesses
has behind it (the proposal is written) or ahead of it (a grant only of what was not rejected);
`Implements`, `KeepsMeasure` and `DecisionsKept` follow.

`TaskContractProofs`. All theorems are about clients with a store each. `AnyInv` joins types,
evidence on the stored aggregate and on every copy a client holds, what a dispatch has
reached, and what log and sends say of each other (a logged key was sent; a key sent twice is in
`doubt`; of two clients in the middle of sending one key, the key is in doubt). It gives `TypeCorrect`,
`ReviewHasVerdict`, `DispatchedSent` and `SentAtMostOnce`. `EvidenceInv` adds, of
each copy as of the stored aggregate, that what it shows as delivered some stored pack had
rendered, and that a copy on its way to closed has a pack that went out on the channels of its
mission: a copy carries its evidence with it, so that it does not matter over what it is written.
It gives `DeliveredRendered` and `ClosedSent`. `CurrentInv` holds until the first
overlap (`UntilOverlap`): a copy that passed the check is one edit ahead of the stored
version and no other has passed it, and a copy of the stored version agrees with what is stored. Without the
version in the invariant a stale copy could not be told from a fresh one. It gives
`Implements`, the refinement of `ContractPromise`, and `TerminalFinal`: only a save that
overlaps takes a contract out of closed or abandoned.

`AutonomyProofs`. The invariant relates the slots a job is due for to what
`policy.json` says at each place they can be: what is pending is due unless in doubt
(`PendingIsDue`), so is the job that is being started (`StartingIsDue`), the slots in the
queue are in ticks (`SlotsInTicks`), a governance order in a tick was swept before it
(`SweptBeforeTicks`), a start that is awaited has room in the window
(`StartingHasRoom`), and the last resource event in the queue is what the sensor saw
(`LastIsSensed`), or, where none is in the queue, the engine knows it or has `missed` it. Without `StartingHasRoom`, say, the window could fill up during the await.
`GuardInv` (a session at work is seen to be running, and the coordinator starts a run only
where none is) gives `CountsTheRuns`, the refinement of `SessionRuns`.

No property of a
passing run is left without a theorem but the liveness ones. Checked by TLC alone: liveness (`StartCompletes`, `TaskEnds`, `AnswerReachesAgent`,
`OldestServed`), which is beyond the prover, and the violations.

## 8. Not modelled

Besides the later steps of the plan (the Telegram supervisor, whose `stop` gives a runner up
after five seconds while it may still work; background tasks; the goals of a session; the
life of learning items, promotion decisions, subagents): deferred notifications, which are
parked in a file that nothing flushes; data-science tools, providers, connectors,
exporters, the evaluation harness, the Electron client and the configuration, which keep no
state whose order matters or are clients of what is modelled; `PROJECT.json` gives the
reason for each, and for each hazard without a property.
