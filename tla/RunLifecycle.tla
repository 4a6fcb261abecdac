---------------------------- MODULE RunLifecycle ----------------------------
(***************************************************************************)
(* One tracked agent run, from the request that starts it to the moment    *)
(* its asyncio task is written off: AppState.start_run / wait_for_run /    *)
(* abort_run and the coroutine _execute of api/ws_handler.py, over the     *)
(* RunRegistry, the TaskLedger, the RuntimeSessionRegistry, the usage      *)
(* records of the OrganizationStore and the agent's session checkpoint.    *)
(*                                                                         *)
(* All of it runs on one asyncio event loop: a step below is the code      *)
(* between two awaits.  Where such a stretch writes several files, it is   *)
(* split after each write that a crash could separate (phases "creating",  *)
(* "finishing", "recording", "excepting", "failing"); while one coroutine  *)
(* is in such a phase LoopFree is false and no other coroutine runs, only  *)
(* a crash can come between.                                               *)
(*                                                                         *)
(* The registries keep their content in memory and rewrite their whole     *)
(* file in place at each change.  A crash, or a write that failed before   *)
(* it, leaves a torn file, and a torn file is read back as an empty one.   *)
(* Almost every call on a store may raise; where it does the code after it *)
(* in the same clause is skipped.                                          *)
(*                                                                         *)
(* Runs are numbered in the order of created_at.                           *)
(***************************************************************************)
EXTENDS Naturals, FiniteSets

CONSTANTS
    Sessions,       \* session ids
    Clients,        \* WebSocket connections; each handles one request at a time
    Daemon,         \* the autonomous coordinator, one more caller of start_run
    Reach,          \* [Clients \cup {Daemon} -> SUBSET Sessions]: who starts runs where
    None,           \* Python's None
    MaxRuns,        \* bound on the runs created in a behaviour
    MaxCrashes,     \* bound on the crashes of the process
    MaxConcurrent,  \* gateway.autonomous_max_concurrent_runs
    AbortForms,     \* the ways a client aborts: "runId" names a run, "sessionId" a session
    WaitMayTimeOut, \* can a cancelled run outlive the 1000 ms start_run waits for it?
    StoreMayFail    \* can a call on a store raise (disk full, an unreadable file)?

Actors == Clients \cup {Daemon}
RunIds == 1 .. MaxRuns

ASSUME ConstantsAssumption ==
    /\ MaxRuns \in Nat
    /\ MaxCrashes \in Nat
    /\ MaxConcurrent \in Nat
    /\ Daemon \notin Clients
    /\ None \notin Sessions
    /\ None \notin RunIds
    /\ Reach \in [Actors -> SUBSET Sessions]
    /\ WaitMayTimeOut \in BOOLEAN
    /\ StoreMayFail \in BOOLEAN

VARIABLES
    \* --- files: they survive a crash ---
    created,    \* number of runs created; their records are among 1 .. created
    status,     \* RunRegistry: status of each run ("absent": it has no record)
    owner,      \* RunRegistry: session of each run
    surface,    \* RunRegistry: "ws" or "daemon"
    ledger,     \* TaskLedger: status of the task record of each run
    lastRun,    \* RuntimeSessionRegistry: last_run_id of each session
    usage,      \* OrganizationStore: how often the run's usage was recorded
    checkpoint, \* CheckpointStore: does the session have a checkpoint?
    \* --- memory of the process ---
    coro,       \* phase of the run's asyncio task; "none": the ledger holds no task
    watched,    \* runs whose task has the done callback of the ledger
    cancelReq,  \* task.cancel() called, CancelledError not thrown yet
    bound,      \* _current_run_id of the session's shared DSAgent
    actor,      \* the start_run call each caller is in
    resume,     \* recovery.resume events in the sensor hub, by session
    \* --- outside ---
    frame,      \* the last closing frame that went out to the client of each run
    crashes     \* crashes so far

files  == <<created, status, owner, surface, ledger, lastRun, usage, checkpoint>>
memory == <<coro, watched, cancelReq, bound, actor, resume>>
vars   == <<files, memory, frame, crashes>>

RunStatus  == {"running", "succeeded", "failed", "cancelled"}
Terminal   == RunStatus \ {"running"}
\* phases in which the agent's turn is ahead or under way
TurnPhases == {"scheduled", "working", "finishing"}
\* phases that hold the event loop
MidSlice   == {"finishing", "recording", "excepting", "failing"}
\* phases suspended in the send of a closing frame that is in the transport's buffer
Sending    == {"emitting", "erroring", "aborting"}
\* task.done() holds, the done callback has not run yet
Ended      == {"returned", "cancelled", "raised"}
Unfinished == TurnPhases \cup MidSlice \cup Sending
Phases     == {"none"} \cup Unfinished \cup Ended

Idle == [pc |-> "idle", session |-> None, run |-> None]

\* What a store that is read back from a torn file holds.
NoRecord == [r \in RunIds |-> "absent"]
NoOwner  == [r \in RunIds |-> None]
NoLast   == [s \in Sessions |-> None]

TypeOK ==
    /\ created \in 0 .. MaxRuns
    /\ status \in [RunIds -> RunStatus \cup {"absent"}]
    /\ owner \in [RunIds -> Sessions \cup {None}]
    /\ surface \in [RunIds -> {"ws", "daemon"}]
    /\ ledger \in [RunIds -> RunStatus \cup {"absent"}]
    /\ lastRun \in [Sessions -> RunIds \cup {None}]
    /\ usage \in [RunIds -> 0 .. 2]
    /\ checkpoint \in [Sessions -> BOOLEAN]
    /\ coro \in [RunIds -> Phases]
    /\ watched \in SUBSET RunIds
    /\ cancelReq \in [RunIds -> BOOLEAN]
    /\ bound \in [Sessions -> RunIds \cup {None}]
    /\ actor \in [Actors -> {Idle} \cup [pc : {"waiting", "creating"},
                                         session : Sessions, run : RunIds]]
    /\ resume \in SUBSET Sessions
    /\ frame \in [RunIds -> {"none", "done", "aborted", "error"}]
    /\ crashes \in 0 .. MaxCrashes

Init ==
    /\ created = 0
    /\ status = NoRecord
    /\ owner = NoOwner
    /\ surface = [r \in RunIds |-> "ws"]
    /\ ledger = NoRecord
    /\ lastRun = NoLast
    /\ usage = [r \in RunIds |-> 0]
    /\ checkpoint = [s \in Sessions |-> FALSE]
    /\ coro = [r \in RunIds |-> "none"]
    /\ watched = {}
    /\ cancelReq = [r \in RunIds |-> FALSE]
    /\ bound = NoLast
    /\ actor = [a \in Actors |-> Idle]
    /\ resume = {}
    /\ frame = [r \in RunIds |-> "none"]
    /\ crashes = 0

-----------------------------------------------------------------------------
(* Queries *)

LoopFree ==
    /\ \A a \in Actors : actor[a].pc # "creating"
    /\ \A r \in RunIds : coro[r] \notin MidSlice

RunningIn(s) == {r \in RunIds : owner[r] = s /\ status[r] = "running"}

\* Mutant: the sort of latest_for_session is not reversed.
EarliestRunning(s, r) == r \in RunningIn(s) /\ \A q \in RunningIn(s) : r <= q

\* RunRegistry.latest_for_session(s, statuses={RUNNING})
IsLatestRunning(s, r) == r \in RunningIn(s) /\ \A q \in RunningIn(s) : q <= r

\* AutonomousDaemon._has_running_run: only the newest record of the session counts
HasRunningRun(s) ==
    \E r \in RunningIn(s) : \A q \in RunIds : owner[q] = s => q <= r

\* AutonomousDaemon._has_dispatch_capacity: every RUNNING record counts
HasDispatchCapacity ==
    Cardinality({r \in RunIds : status[r] = "running"}) < MaxConcurrent

\* TaskLedger.cancel_for_run: a task that is done is left alone
Cancel(r) ==
    cancelReq' = [cancelReq EXCEPT ![r] = coro[r] \in Unfinished]

-----------------------------------------------------------------------------
(* start_run: cancel the running run of the session, wait for it, create *)

\* set_runtime_context(None), then RunRegistry.create writes the record.
CreateRun(a, s) ==
    LET r == created + 1 IN
    /\ created < MaxRuns
    /\ created' = r
    /\ status' = [status EXCEPT ![r] = "running"]
    /\ owner' = [owner EXCEPT ![r] = s]
    /\ surface' = [surface EXCEPT ![r] = IF a = Daemon THEN "daemon" ELSE "ws"]
    /\ bound' = [bound EXCEPT ![s] = None]
    /\ actor' = [actor EXCEPT ![a] = [pc |-> "creating", session |-> s, run |-> r]]
    /\ UNCHANGED <<ledger, lastRun, usage, checkpoint, coro, watched>>

\* No RUNNING run, or one without a task at work (a record loaded from the file, a
\* task that ended without a mark): abort_run and wait_for_run return at once.
StartAtOnce(a, s) ==
    /\ \A r \in RunIds : IsLatestRunning(s, r) => coro[r] \notin Unfinished
    /\ CreateRun(a, s)
    /\ UNCHANGED cancelReq

\* A RUNNING run with a task: cancel it and wait for it.
StartAfterAbort(a, s) ==
    \E r \in RunIds :
        /\ IsLatestRunning(s, r)
        /\ coro[r] \in Unfinished
        /\ created < MaxRuns
        /\ Cancel(r)
        /\ actor' = [actor EXCEPT ![a] = [pc |-> "waiting", session |-> s, run |-> r]]
        /\ UNCHANGED <<files, coro, watched, bound>>

StartRun(a, s) ==
    /\ LoopFree
    /\ actor[a].pc = "idle"
    /\ s \in Reach[a]
    /\ StartAtOnce(a, s) \/ StartAfterAbort(a, s)

RunStart(c, s) == StartRun(c, s) /\ UNCHANGED <<resume, frame, crashes>>

\* Mutant: no wait after the abort.
NoWait(a) == LoopFree /\ actor[a].pc = "waiting"

\* Mutant: wait for the run record to become terminal, not for the task to end.
WaitForRecord(a) ==
    /\ LoopFree
    /\ actor[a].pc = "waiting"
    /\ status[actor[a].run] \in Terminal \/ WaitMayTimeOut

\* The task of run r is done and its done callback, if it has one, has run.
WrittenOff(r) == coro[r] = "none" \/ (coro[r] \in Ended /\ r \notin watched)

\* wait_for_run returned: the waited task is written off, or 1000 ms have passed.
WaitOver(a) ==
    /\ LoopFree
    /\ actor[a].pc = "waiting"
    /\ WrittenOff(actor[a].run) \/ WaitMayTimeOut

\* start_run goes on to create its run; it does not look for RUNNING runs again.
CreateAfterWait(a) ==
    /\ WaitOver(a)
    /\ CreateRun(a, actor[a].session)
    /\ UNCHANGED <<cancelReq, resume, frame, crashes>>

\* The organization policy or the monthly budget refuses the new run (ValueError), or a
\* call before create raises, after the old run was aborted.  Where that happens before
\* any abort, nothing changes.
RefuseAfterWait(a) ==
    /\ WaitOver(a)
    /\ actor' = [actor EXCEPT ![a] = Idle]
    /\ UNCHANGED <<files, coro, watched, cancelReq, bound, resume, frame, crashes>>

\* RunRegistry.create or the bind_run inside it raises: the record is in the registry
\* and no task will ever be.
CreateRaises(a) ==
    /\ StoreMayFail
    /\ actor[a].pc = "creating"
    /\ lastRun' \in {lastRun, [lastRun EXCEPT ![actor[a].session] = actor[a].run]}
    /\ actor' = [actor EXCEPT ![a] = Idle]
    /\ UNCHANGED <<created, status, owner, surface, ledger, usage, checkpoint,
                   coro, watched, cancelReq, bound, resume, frame, crashes>>

\* bind_run, set_runtime_context(run_id), asyncio.create_task, TaskLedger.register.  When
\* the write of the ledger raises, the task runs on without its done callback.  When a
\* call after register raises, only the answer of start_run is another.
RegisterTask(a) ==
    LET r == actor[a].run IN
    /\ actor[a].pc = "creating"
    /\ coro' = [coro EXCEPT ![r] = "scheduled"]
    /\ ledger' = [ledger EXCEPT ![r] = "running"]
    /\ watched' = watched \cup {r} \/ (StoreMayFail /\ watched' = watched)
    /\ lastRun' = [lastRun EXCEPT ![actor[a].session] = r]
    /\ bound' = [bound EXCEPT ![actor[a].session] = r]
    /\ actor' = [actor EXCEPT ![a] = Idle]
    /\ UNCHANGED <<created, status, owner, surface, usage, checkpoint,
                   cancelReq, resume, frame, crashes>>

-----------------------------------------------------------------------------
(* run.abort: by the id of any run, or by session *)

AbortRun(c, r) ==
    /\ LoopFree
    /\ actor[c].pc = "idle"
    /\ coro[r] \in Unfinished
    /\ \/ "runId" \in AbortForms
       \/ "sessionId" \in AbortForms /\ IsLatestRunning(owner[r], r)
    /\ Cancel(r)
    /\ UNCHANGED <<files, coro, watched, bound, actor, resume, frame, crashes>>

-----------------------------------------------------------------------------
(* _execute: the coroutine of a run *)

\* The finally clause: bind_run of this run, whatever was bound since; if its write
\* raises, the task ends with that exception.
Leave(r, outcome) ==
    /\ lastRun' = [lastRun EXCEPT ![owner[r]] = r]
    /\ \E end \in Ended :
          /\ end = outcome \/ (StoreMayFail /\ end = "raised")
          /\ coro' = [coro EXCEPT ![r] = end]

\* A closing frame: it goes out and the coroutine is suspended in the send, or the
\* client is gone, _emit returns at once and the coroutine goes on to its end.
Send(r, word, phase, outcome) ==
    \/ /\ frame' = [frame EXCEPT ![r] = word]
       /\ coro' = [coro EXCEPT ![r] = phase]
       /\ UNCHANGED lastRun
    \/ /\ Leave(r, outcome)
       /\ UNCHANGED frame

\* The task's first step.  The event "task.started" is recorded outside of the try: if
\* that raises, the task ends with no mark and without the finally clause.  Then agent.run
\* up to its first await, which saves the checkpoint; if that raises, to "except Exception".
TaskStart(r) ==
    /\ LoopFree
    /\ coro[r] = "scheduled" /\ ~cancelReq[r]
    /\ \/ /\ coro' = [coro EXCEPT ![r] = "working"]
          /\ checkpoint' = [checkpoint EXCEPT ![owner[r]] = TRUE]
       \/ /\ StoreMayFail
          /\ \E phase \in {"raised", "excepting"} : coro' = [coro EXCEPT ![r] = phase]
          /\ UNCHANGED checkpoint
    /\ UNCHANGED <<created, status, owner, surface, ledger, lastRun, usage,
                   watched, cancelReq, bound, actor, resume, frame, crashes>>

\* A task cancelled before its first step: CancelledError is thrown into a coroutine
\* that never ran, so neither its except clauses nor its finally run.
CancelUnstarted(r) ==
    /\ LoopFree
    /\ coro[r] = "scheduled" /\ cancelReq[r]
    /\ coro' = [coro EXCEPT ![r] = "cancelled"]
    /\ cancelReq' = [cancelReq EXCEPT ![r] = FALSE]
    /\ UNCHANGED <<files, watched, bound, actor, resume, frame, crashes>>

\* The turn waits for the LLM inside asyncio.wait_for, which on Python 3.11 drops a
\* CancelledError that arrives together with the answer.
CancelLost(r) ==
    /\ LoopFree
    /\ coro[r] = "working" /\ cancelReq[r]
    /\ cancelReq' = [cancelReq EXCEPT ![r] = FALSE]
    /\ UNCHANGED <<files, coro, watched, bound, actor, resume, frame, crashes>>

\* _finalize_turn: clear the checkpoint, forget the run id.
TurnFinished(r) ==
    /\ LoopFree
    /\ coro[r] = "working" /\ ~cancelReq[r]
    /\ coro' = [coro EXCEPT ![r] = "finishing"]
    /\ checkpoint' = [checkpoint EXCEPT ![owner[r]] = FALSE]
    /\ bound' = [bound EXCEPT ![owner[r]] = None]
    /\ UNCHANGED <<created, status, owner, surface, ledger, lastRun, usage,
                   watched, cancelReq, actor, resume, frame, crashes>>

\* agent.run raised: on to "except Exception".
TurnRaised(r) ==
    /\ LoopFree
    /\ coro[r] = "working" /\ ~cancelReq[r]
    /\ coro' = [coro EXCEPT ![r] = "excepting"]
    /\ UNCHANGED <<files, watched, cancelReq, bound, actor, resume, frame, crashes>>

\* Mutant: the success is not recorded before the frame is sent.
MarkForgotten(r) ==
    /\ coro[r] = "finishing"
    /\ coro' = [coro EXCEPT ![r] = "recording"]
    /\ UNCHANGED <<created, status, owner, surface, ledger, lastRun, usage, checkpoint,
                   watched, cancelReq, bound, actor, resume, frame, crashes>>

\* The record changes in memory before the file is written, which may raise.
MarkSucceeded(r) ==
    /\ coro[r] = "finishing"
    /\ status' = [status EXCEPT ![r] = "succeeded"]
    /\ \E phase \in {"recording"} \cup (IF StoreMayFail THEN {"excepting"} ELSE {}) :
          coro' = [coro EXCEPT ![r] = phase]
    /\ UNCHANGED <<created, owner, surface, ledger, lastRun, usage, checkpoint,
                   watched, cancelReq, bound, actor, resume, frame, crashes>>

\* record_usage, the events about usage, task and mission, then emit_stream_done(...,
\* cards=...).  Any of them may raise; the callbacks of an autonomous run take no
\* argument "cards", so there the last call always does (TypeError).
RecordUsage(r) ==
    /\ coro[r] = "recording"
    /\ \/ /\ surface[r] = "ws"
          /\ usage' = [usage EXCEPT ![r] = @ + 1]
          /\ Send(r, "done", "emitting", "returned")
       \/ /\ \/ surface[r] = "daemon" /\ usage' = [usage EXCEPT ![r] = @ + 1]
             \/ StoreMayFail /\ usage' \in {usage, [usage EXCEPT ![r] = @ + 1]}
          /\ coro' = [coro EXCEPT ![r] = "excepting"]
          /\ UNCHANGED <<lastRun, frame>>
    /\ UNCHANGED <<created, status, owner, surface, ledger, checkpoint,
                   watched, cancelReq, bound, actor, resume, crashes>>

\* except Exception: record_usage and the event about it, which may raise; then the
\* mark below is never reached.
HandleException(r) ==
    /\ coro[r] = "excepting"
    /\ \/ /\ usage' = [usage EXCEPT ![r] = @ + 1]
          /\ coro' = [coro EXCEPT ![r] = "failing"]
          /\ UNCHANGED lastRun
       \/ /\ StoreMayFail
          /\ usage' \in {usage, [usage EXCEPT ![r] = @ + 1]}
          /\ Leave(r, "raised")
    /\ UNCHANGED <<created, status, owner, surface, ledger, checkpoint,
                   watched, cancelReq, bound, actor, resume, frame, crashes>>

\* mark_failed whatever the status is, the events about task and mission, which may
\* raise, then emit_stream_error.  Autonomous callbacks have none and do not suspend.
MarkFailed(r) ==
    /\ coro[r] = "failing"
    /\ status' = [status EXCEPT ![r] = "failed"]
    /\ \/ surface[r] = "ws" /\ Send(r, "error", "erroring", "returned")
       \/ surface[r] = "daemon" /\ Leave(r, "returned") /\ UNCHANGED frame
       \/ StoreMayFail /\ Leave(r, "raised") /\ UNCHANGED frame
    /\ UNCHANGED <<created, owner, surface, ledger, usage, checkpoint,
                   watched, cancelReq, bound, actor, resume, crashes>>

\* Mutants of the cancellation clause for a WebSocket run: it marks what it should not,
\* it bills the cancelled run, it catches the cancellation of the error frame as well.
CancelledWith(r, caught, mark, bill) ==
    /\ LoopFree
    /\ coro[r] \in caught /\ cancelReq[r] /\ surface[r] = "ws"
    /\ cancelReq' = [cancelReq EXCEPT ![r] = FALSE]
    /\ status' = [status EXCEPT ![r] = mark]
    /\ usage' = [usage EXCEPT ![r] = @ + bill]
    /\ Send(r, "aborted", "aborting", "cancelled")
    /\ UNCHANGED <<created, owner, surface, ledger, checkpoint,
                   watched, bound, actor, resume, crashes>>

CancelledUnmarked(r) == CancelledWith(r, {"working", "emitting"}, status[r], 0)
CancelledBilled(r) == CancelledWith(r, {"working", "emitting"}, "cancelled", 1)
CancelledInError(r) == CancelledWith(r, {"working", "emitting", "erroring"}, "cancelled", 0)

\* except CancelledError, thrown into the turn or into the send of stream.done, which the
\* client may have by then: mark_cancelled whatever the status is, the events about task
\* and mission, which may raise, then the "[Aborted]" frame.
TaskCancelled(r) ==
    /\ LoopFree
    /\ coro[r] \in {"working", "emitting"} /\ cancelReq[r]
    /\ cancelReq' = [cancelReq EXCEPT ![r] = FALSE]
    /\ status' = [status EXCEPT ![r] = "cancelled"]
    /\ \/ surface[r] = "ws" /\ Send(r, "aborted", "aborting", "cancelled")
       \/ surface[r] = "daemon" /\ Leave(r, "cancelled") /\ UNCHANGED frame
       \/ StoreMayFail /\ Leave(r, "raised") /\ UNCHANGED frame
    /\ UNCHANGED <<created, owner, surface, ledger, usage, checkpoint,
                   watched, bound, actor, resume, crashes>>

\* The send of the closing frame returned; the finally clause follows.
SendOver(r) ==
    /\ LoopFree
    /\ coro[r] \in Sending /\ ~cancelReq[r]
    /\ Leave(r, IF coro[r] = "aborting" THEN "cancelled" ELSE "returned")
    /\ UNCHANGED <<created, status, owner, surface, ledger, usage, checkpoint,
                   watched, cancelReq, bound, actor, resume, frame, crashes>>

\* Mutant: a cancellation of the "[Aborted]" frame is ignored.
SendCancelledInError(r) ==
    /\ LoopFree
    /\ coro[r] = "erroring" /\ cancelReq[r]
    /\ cancelReq' = [cancelReq EXCEPT ![r] = FALSE]
    /\ Leave(r, "cancelled")
    /\ UNCHANGED <<created, status, owner, surface, ledger, usage, checkpoint,
                   watched, bound, actor, resume, frame, crashes>>

\* Cancelled while it sends the error or the "[Aborted]" frame: no clause catches that.
SendCancelled(r) ==
    /\ LoopFree
    /\ coro[r] \in {"erroring", "aborting"} /\ cancelReq[r]
    /\ cancelReq' = [cancelReq EXCEPT ![r] = FALSE]
    /\ Leave(r, "cancelled")
    /\ UNCHANGED <<created, status, owner, surface, ledger, usage, checkpoint,
                   watched, bound, actor, resume, frame, crashes>>

\* Mutant: the raw state of the task is written.
FinalizeRaw(r) ==
    /\ LoopFree
    /\ coro[r] \in Ended /\ r \in watched
    /\ ledger' = [ledger EXCEPT ![r] = coro[r]]
    /\ coro' = [coro EXCEPT ![r] = "none"]
    /\ UNCHANGED <<created, status, owner, surface, lastRun, usage, checkpoint,
                   watched, cancelReq, bound, actor, resume, frame, crashes>>


\* TaskLedger._finalize, the done callback: the task's outcome, not the run's.
Finalize(r) ==
    /\ LoopFree
    /\ coro[r] \in Ended /\ r \in watched
    /\ ledger' = [ledger EXCEPT ![r] = CASE coro[r] = "returned"  -> "succeeded"
                                         [] coro[r] = "cancelled" -> "cancelled"
                                         [] coro[r] = "raised"    -> "failed"]
    /\ coro' = [coro EXCEPT ![r] = "none"]
    /\ UNCHANGED <<created, status, owner, surface, lastRun, usage, checkpoint,
                   watched, cancelReq, bound, actor, resume, frame, crashes>>

-----------------------------------------------------------------------------
(* The autonomous coordinator *)

\* Mutant: the daemon's guards are not asked.
DispatchUnguarded(s) == StartRun(Daemon, s)

\* AutonomousCoordinator.handle_event, past the policy: the two guards of the daemon
\* and _dispatch_run, without an await between them and the start of start_run.
Dispatch(s) ==
    /\ HasDispatchCapacity
    /\ ~HasRunningRun(s)
    /\ StartRun(Daemon, s)

\* An event of a sensor or a schedule that the policy lets through.
DispatchSensorEvent(s) ==
    /\ Dispatch(s)
    /\ UNCHANGED <<resume, frame, crashes>>

\* A recovery.resume event is dispatched or dropped; it is never put back.
HandleResume(s) ==
    /\ LoopFree
    /\ actor[Daemon].pc = "idle"
    /\ s \in resume
    /\ resume' = resume \ {s}
    /\ \/ Dispatch(s)
       \/ /\ ~HasDispatchCapacity \/ HasRunningRun(s)
          /\ UNCHANGED <<files, coro, watched, cancelReq, bound, actor>>
    /\ UNCHANGED <<frame, crashes>>

\* What may be read back of the three registries: a file, or nothing of it.  The bind_run
\* inside create may have been written before the crash.
RunsSurvive   == UNCHANGED <<status, owner>>
RunsTorn      == status' = NoRecord /\ owner' = NoOwner
LastRunsAfter ==
    {lastRun, NoLast} \cup {[lastRun EXCEPT ![actor[a].session] = actor[a].run] :
                               a \in {b \in Actors : actor[b].pc = "creating"}}

\* A checkpoint whose file was being written is as good as none.
CheckpointsAfter ==
    {checkpoint} \cup {[checkpoint EXCEPT ![owner[r]] = FALSE] :
                          r \in {q \in RunIds : coro[q] \in {"scheduled", "working"}}}

\* The process dies at any point and is started again.  The stores are read back,
\* every task record without a task; StartupRecovery.recover publishes an event for
\* each session with a checkpoint, except those whose approvals are pending.
CrashRestart ==
    /\ crashes < MaxCrashes
    /\ crashes' = crashes + 1
    /\ RunsSurvive \/ RunsTorn
    /\ ledger' \in {ledger, NoRecord}
    /\ lastRun' \in LastRunsAfter
    /\ checkpoint' \in CheckpointsAfter
    /\ coro' = [r \in RunIds |-> "none"]
    /\ watched' = {}
    /\ cancelReq' = [r \in RunIds |-> FALSE]
    /\ bound' = NoLast
    /\ actor' = [a \in Actors |-> Idle]
    /\ resume' \in SUBSET {s \in Reach[Daemon] : checkpoint'[s]}
    /\ UNCHANGED <<created, surface, usage, frame>>

-----------------------------------------------------------------------------

\* Steps the event loop owes to a coroutine that is ready.
ActorStep(a) ==
    CreateAfterWait(a) \/ RefuseAfterWait(a) \/ CreateRaises(a) \/ RegisterTask(a)

TaskStep(r) ==
    \/ TaskStart(r) \/ CancelUnstarted(r) \/ TurnFinished(r) \/ TurnRaised(r)
    \/ MarkSucceeded(r) \/ RecordUsage(r) \/ HandleException(r) \/ MarkFailed(r)
    \/ TaskCancelled(r) \/ SendOver(r) \/ SendCancelled(r) \/ Finalize(r)

\* Steps of the environment: requests, sensor events, lost cancellations, crashes.
Environment ==
    \/ \E c \in Clients, s \in Sessions : RunStart(c, s)
    \/ \E c \in Clients, r \in RunIds : AbortRun(c, r)
    \/ \E s \in Sessions : DispatchSensorEvent(s)
    \/ \E r \in RunIds : CancelLost(r)
    \/ CrashRestart

Next ==
    \/ Environment
    \/ \E a \in Actors : ActorStep(a)
    \/ \E r \in RunIds : TaskStep(r)
    \/ \E s \in Sessions : HandleResume(s)

Spec == Init /\ [][Next]_vars

\* asyncio runs every ready callback; a turn ends because each LLM call has a timeout
\* and the budget bounds the number of calls; a send ends because a broken connection
\* is swallowed.
Fairness ==
    /\ \A a \in Actors : WF_vars(ActorStep(a))
    /\ \A r \in RunIds : WF_vars(TaskStep(r))
    /\ \A s \in Sessions : WF_vars(HandleResume(s))

FairSpec == Spec /\ Fairness

-----------------------------------------------------------------------------
(* Safety *)

\* What the phase of a live task says about its run record.  A record is RUNNING until
\* the coroutine reaches one of its own marks; a coroutine that returned left a success
\* or a failure, a cancelled one never a success, and only a store that raised outside
\* of the try or inside an except clause ends a task with an exception (_execute).
PhaseFits(r) ==
    /\ coro[r] # "none" => ledger[r] = "running"
    /\ coro[r] \in TurnPhases => status[r] = "running"
    /\ coro[r] \in {"recording", "emitting"} => status[r] = "succeeded"
    /\ coro[r] \in {"excepting", "failing"} => status[r] \in {"running", "succeeded"}
    /\ coro[r] = "erroring" => status[r] = "failed"
    /\ coro[r] = "aborting" => status[r] = "cancelled"
    /\ coro[r] = "returned" => status[r] \in {"succeeded", "failed"}
    /\ coro[r] = "cancelled" => status[r] \in {"running", "cancelled", "failed"}
    /\ coro[r] = "raised" => StoreMayFail /\ status[r] \in RunStatus

PhaseMatchesStatus == \A r \in RunIds : PhaseFits(r)

\* The verdict of the task ledger and the verdict of the run registry, written by
\* different code at different times and lost apart, never contradict each other
\* outright: a cancelled task never left a succeeded run, a task that returned never
\* left a running or cancelled one, and a task failed only over a store that raised
\* (TaskLedger._finalize against _execute).
VerdictFits(r) ==
    status[r] # "absent" =>
        /\ ledger[r] = "succeeded" => status[r] \in {"succeeded", "failed"}
        /\ ledger[r] = "cancelled" => status[r] \in {"running", "cancelled", "failed"}
        /\ ledger[r] = "failed" => StoreMayFail

LedgerVerdict == \A r \in RunIds : VerdictFits(r)

\* The last closing frame that went out to the client is what the run registry answers
\* to a later run.wait or run.list, as long as it has the record: an error or an abort
\* for good; a success unless the cancellation caught the task in the send of that very
\* frame, and then the task never counts as returned (emit_stream_done,
\* emit_stream_error against mark_succeeded, mark_failed, mark_cancelled, _finalize).
FrameFits(r) ==
    status[r] # "absent" =>
        /\ frame[r] = "error" => status[r] = "failed"
        /\ frame[r] = "aborted" => status[r] = "cancelled"
        /\ frame[r] = "done" =>
              \/ status[r] = "succeeded"
              \/ status[r] = "cancelled" /\ coro[r] # "returned" /\ ledger[r] # "succeeded"

FrameMatchesRecord == \A r \in RunIds : FrameFits(r)

\* A run is billed twice only on the way from its success to a failure, and a run whose
\* success the client was told of was billed exactly once (record_usage).
BillFits(r) ==
    /\ usage[r] = 2 => /\ status[r] \in {"succeeded", "failed", "absent"}
                       /\ frame[r] \in {"none", "error"}
                       /\ coro[r] # "returned" \/ status[r] = "failed"
    /\ frame[r] = "done" => usage[r] = 1

BilledAtMostOnce == \A r \in RunIds : BillFits(r)

\* Autonomous runs never exceed the configured capacity, although capacity is tested
\* in one place and the run created in another, possibly after a wait
\* (_has_dispatch_capacity against start_run).
DaemonRuns == {r \in RunIds : surface[r] = "daemon" /\ status[r] = "running"}

DaemonWithinCapacity == Cardinality(DaemonRuns) <= MaxConcurrent

\* With the default capacity of one the coordinator never preempts a run: it is never
\* inside start_run waiting for a run that it cancelled (handle_event).
DaemonNeverPreempts == MaxConcurrent = 1 => actor[Daemon].pc # "waiting"

\* Every session is started by at most one caller.
Exclusive == \A a, b \in Actors : a # b => Reach[a] \cap Reach[b] = {}

\* When each session has one caller and a cancelled run ends within the 1000 ms, the
\* shared agent of a session works for one run at a time (start_run: cancel + wait).
OneTurnPerSession ==
    Exclusive /\ ~WaitMayTimeOut =>
        \A q, r \in RunIds :
            coro[q] \in TurnPhases /\ coro[r] \in TurnPhases /\ owner[q] = owner[r]
                => q = r

\* Under the same conditions a turn under way is the one the shared agent is bound to
\* and has a checkpoint, so a crash at any point of it can be recovered from
\* (set_runtime_context, _save_checkpoint against _finalize_turn of another run).
TurnOwnsAgent ==
    Exclusive /\ ~WaitMayTimeOut =>
        \A r \in RunIds :
            coro[r] = "working" => bound[owner[r]] = r /\ checkpoint[owner[r]]

-----------------------------------------------------------------------------
(* What a step may never do *)

\* Marks are the run's own: a run that failed or was cancelled is never marked again,
\* and a run without a task at work keeps its record whatever else happens, restarts
\* included, unless the restart finds the whole file torn (mark_succeeded, mark_failed
\* and mark_cancelled test no status).
TerminalMarkIsFinal ==
    [][\A r \in RunIds :
          (status[r] \in {"failed", "cancelled"} \/ (created >= r /\ coro[r] \notin Unfinished))
              => status'[r] = status[r] \/ status' = NoRecord]_vars

-----------------------------------------------------------------------------
(* Liveness *)

\* Every start_run call that waits for an older run gets an answer, even when an
\* abort is lost (wait_for_run).
StartCompletes == \A a \in Actors : actor[a].pc = "waiting" ~> actor[a].pc # "waiting"

\* Every task is written off by the ledger in the end, but for one whose done callback
\* the ledger failed to add, which still ends (_finalize).
TaskEnds == \A r \in RunIds : coro[r] # "none" ~> WrittenOff(r)

-----------------------------------------------------------------------------
(* What a run promises *)

\* The registry, the ledger, the bill and the closing frame of every run tell one
\* story, and what an outsider was told of a run stands (_execute, _finalize).
Promised == INSTANCE RunPromise WITH
    Runs <- RunIds, record <- status, verdict <- ledger, bills <- usage, closing <- frame
KeepsPromise == Promised!Promise

-----------------------------------------------------------------------------
(* What the coordinator counts *)

\* The run has a task at work, or its caller is between the record and the task.
HasTask(r) ==
    \/ coro[r] \in Unfinished
    \/ \E a \in Actors : actor[a].pc = "creating" /\ actor[a].run = r

\* A run at work whose record says so.
Busy(r) == status[r] = "running" /\ HasTask(r)

LiveSessions    == {owner[r] : r \in {q \in RunIds : Busy(q)}}
RunningSessions == {s \in Sessions : HasRunningRun(s)}
RunningRecords  == {r \in RunIds : status[r] = "running"}

\* Where each session has one caller and cancelled runs end in time, the records of the
\* registry change as the autonomous coordinator takes them to (_has_running_run,
\* _has_dispatch_capacity against start_run and _execute).
Counted == INSTANCE SessionRuns WITH
    running <- RunningSessions, live <- LiveSessions, active <- Cardinality(RunningRecords)
CountsRuns == Counted!Counting

-----------------------------------------------------------------------------
(* What the documents say and the code does not do *)

\* PHASE_02 2.3: a new run of a session first cancels and awaits the running one.
OneRunningPerSession == \A s \in Sessions : Cardinality(RunningIn(s)) <= 1

\* RuntimeSessionRegistry.bind_run: the session is associated with its latest run.  Its
\* last_run_id, which the review of a contract and Telegram's list of sessions look up,
\* names no older run while a newer one is at work.
LastRunIsLatest ==
    \A q, r \in RunIds :
        coro[r] \in Unfinished /\ owner[q] = owner[r] /\ lastRun[owner[r]] = q => r <= q

\* PHASE_02 2.3: a run that completes is "succeeded".
SuccessIsFinal ==
    [][\A r \in RunIds : status[r] = "succeeded" => status'[r] = "succeeded"]_vars

\* PHASE_07 3: a resumable session's event lets the coordinator restart its work.
ResumeRestartsWork ==
    \A s \in Sessions :
        s \in resume ~> \/ created = MaxRuns  \* the bound leaves no run to start
                        \/ \E r \in RunIds : owner[r] = s /\ coro[r] \in TurnPhases

-----------------------------------------------------------------------------
(* The inductive strengthening the proofs use *)

\* Only runs that were created have left a trace; a record has a session, and a task at
\* work has a record.
Recorded(r) ==
    /\ status[r] # "absent" => r <= created /\ owner[r] \in Sessions
    /\ status[r] = "absent" => owner[r] = None /\ coro[r] = "none"
    /\ r > created => ledger[r] = "absent" /\ usage[r] = 0 /\ frame[r] = "none"

RecordsInv == \A r \in RunIds : Recorded(r)

\* At most one coroutine is between two awaits, and a run being created has no task yet.
SliceInv ==
    \A a \in Actors : actor[a].pc = "creating" =>
        LET r == actor[a].run IN
        /\ r = created /\ owner[r] = actor[a].session
        /\ status[r] = "running" /\ coro[r] = "none" /\ ledger[r] = "absent"
        /\ usage[r] = 0 /\ frame[r] = "none"
        /\ \A b \in Actors : actor[b].pc = "creating" => b = a
        /\ \A q \in RunIds : coro[q] \notin MidSlice

\* What was billed and sent by the time a task is in a phase.
Billed(r) ==
    /\ coro[r] \in TurnPhases \cup {"recording"} => usage[r] = 0 /\ frame[r] = "none"
    /\ coro[r] = "excepting" =>
          /\ usage[r] <= 1 /\ frame[r] = "none"
          /\ status[r] = "running" => usage[r] = 0
    /\ coro[r] = "failing" =>
          /\ usage[r] \in 1 .. 2 /\ frame[r] = "none"
          /\ status[r] = "running" => usage[r] = 1
    /\ coro[r] = "emitting" => usage[r] = 1 /\ frame[r] = "done"
    /\ coro[r] = "aborting" => usage[r] <= 1

BillingInv == \A r \in RunIds : Billed(r)

\* A cancellation is pending only on a task that can still receive it.
Cancellable(r) == cancelReq[r] => coro[r] \in Unfinished \ MidSlice

CancelInv == \A r \in RunIds : Cancellable(r)

IInv ==
    /\ TypeOK /\ RecordsInv /\ SliceInv /\ BillingInv /\ CancelInv
    /\ PhaseMatchesStatus /\ LedgerVerdict /\ FrameMatchesRecord /\ BilledAtMostOnce

\* Sessions apart: a caller that waits or creates is the only one of its session, the
\* turn under way is of the newest run of its session, and the shared agent is bound
\* to it.
TurnInv ==
    /\ \A a \in Actors :
          /\ actor[a].pc # "idle" => actor[a].session \in Reach[a]
          /\ actor[a].pc = "waiting" =>
                \A q \in RunIds : coro[q] \in TurnPhases /\ owner[q] = actor[a].session
                                      => q = actor[a].run
          /\ actor[a].pc = "creating" =>
                \A q \in RunIds : owner[q] = actor[a].session => coro[q] \notin TurnPhases
    /\ \A r \in RunIds :
          /\ coro[r] \in TurnPhases => \A q \in RunIds : owner[q] = owner[r] => q <= r
          /\ coro[r] \in {"scheduled", "working"} => bound[owner[r]] = r
          /\ coro[r] = "working" => checkpoint[owner[r]]

\* A coordinator that waits inside start_run has room for the run it will create.
CapacityInv ==
    /\ DaemonWithinCapacity
    /\ actor[Daemon].pc = "waiting" => Cardinality(DaemonRuns) < MaxConcurrent
    /\ DaemonNeverPreempts

=============================================================================
