------------------------------ MODULE Autonomy ------------------------------
(***************************************************************************)
(* The autonomous daemon of DS Agent: sensors publish events into one      *)
(* queue, the coordinator takes them one by one, the policy engine names   *)
(* the job an event is for (a standing order, a recurring goal, or the     *)
(* event itself), and a run is started for it.  Built-in governance orders *)
(* are swept by the daemon whenever a tick is published.                   *)
(*                                                                         *)
(* Clock time is abstracted to what the code compares: a slot of a timed   *)
(* job (an instant of its cron expression, the end of its interval)        *)
(* arrives, and an event is later than the slots that arrived before it.   *)
(***************************************************************************)
EXTENDS Naturals, Sequences, FiniteSets

CONSTANTS
  Orders,           \* structured standing orders
  Governance,       \* those the daemon registers and sweeps itself
  EventOrders,      \* those triggered by a file event; the others by a cron expression
  Goals,            \* recurring goals
  Given,            \* those of them that are enabled at first
  Direct,           \* the job of an event that is neither an order nor a goal
  Age,              \* created_at of the orders, as ranks
  Sessions, SessionOf,     \* sessions, and the session of each order and goal
  Schedule, Inbox,  \* the sessions of the schedule sensor and of the file sensor
  Sensed,           \* events of other sensors in the instance: "file", "alert"
  Profiles,         \* automation profiles in the instance
  MaxDispatches,    \* dispatches the policy allows in one window
  MaxConcurrent,    \* autonomous_max_concurrent_runs
  BacklogThreshold, RunThreshold,   \* of the resource sensor
  MaxQueue, MaxFaults               \* bounds

ASSUME OrderAssumption ==
  /\ Governance \subseteq Orders /\ EventOrders \subseteq Orders \ Governance
  /\ Governance \subseteq Given /\ Given \subseteq Orders \cup Goals
  /\ Orders \cap Goals = {} /\ Direct \notin Orders \cup Goals
  /\ Age \in [Orders -> Nat] /\ \A o, p \in Orders : Age[o] = Age[p] => o = p
ASSUME SessionAssumption ==
  SessionOf \in [Orders \cup Goals -> Sessions] /\ IsFiniteSet(Sessions) /\ {Schedule, Inbox} \subseteq Sessions
ASSUME PolicyAssumption ==
  Profiles \subseteq {"manual", "balanced", "aggressive"} /\ Sensed \subseteq {"file", "alert"}
ASSUME BoundAssumption ==
  /\ MaxDispatches \in Nat /\ MaxConcurrent \in Nat \ {0} /\ MaxQueue \in Nat /\ MaxFaults \in Nat
  /\ BacklogThreshold \in Nat /\ RunThreshold \in Nat

VARIABLES
  up, profile,      \* the daemon, and the profile it was built with
  enabled,          \* enabled orders and goals in policy.json
  pending,          \* timed jobs that are due, by policy.json, at the event taken last
  fresh,            \* timed jobs with a slot since the last tick was published
  ever,             \* governance orders with a slot since they were first registered
  queue,            \* the sensor hub; a tick carries the slots since the tick before
  coord,            \* the coordinator: the job it is starting a run for
  window,           \* recent dispatches, of a recovery or not
  pressure, sensed, \* resource pressure, for the engine and for the sensor
  missed,           \* history: was the last change of it lost on the way to the engine?
  running,          \* sessions whose latest run, by its record, is running
  live, lost,       \* sessions with a run at work, and records without one left running
  faults,           \* failures and interventions so far
  due,              \* history: timed jobs with a slot that no run or sweep has served
  again,            \* history: timed jobs that were run with no such slot
  doubt,            \* history: timed jobs that policy.json calls due without such a slot
  slipped           \* history: governance orders that may be due at a tick its sweep left so

runs == <<running, live, lost>>
store == <<enabled, pending, fresh, ever>>
daemon == <<up, profile, queue, coord, window, pressure, sensed, missed>>
history == <<due, again, doubt, slipped>>
vars == <<store, daemon, runs, faults, history>>

-----------------------------------------------------------------------------
Jobs == Orders \cup Goals \cup {Direct}
Timed == (Orders \ EventOrders) \cup Goals
Kinds == {"tick", "file", "resume", "alert", "pressure", "normal"}
Resource == {"pressure", "normal"}
SensorEvent == [kind : Kinds, session : Sessions, slots : SUBSET Timed]
Coord == [step : {"idle", "starting"}, job : Jobs, session : Sessions, kind : Kinds]
Idle == [step |-> "idle", job |-> Direct, session |-> Schedule, kind |-> "tick"]

Event(kind, session) == [kind |-> kind, session |-> session, slots |-> {}]
Room == Len(queue) < MaxQueue
Ticks == {i \in DOMAIN queue : queue[i].kind = "tick"}

\* The slots the queued ticks carry.
Queued == UNION {queue[i].slots : i \in DOMAIN queue}

\* The queue, and what it carries, once jobs S are marked as run.
Without(S) == [i \in DOMAIN queue |-> [queue[i] EXCEPT !.slots = @ \ S]]

-----------------------------------------------------------------------------
(* PolicyEngine.evaluate for the event e, after the slots it carries.      *)

DueAt(e) == enabled \cap (pending \cup e.slots)
DueOrders(e) ==
  {o \in enabled \cap Orders : IF o \in EventOrders THEN e.kind = "file"
                                ELSE e.kind = "tick" /\ o \in DueAt(e)}
DueGoals(e) == IF e.kind = "tick" THEN DueAt(e) \cap Goals ELSE {}

AllowDispatchInclusive == Len(window) <= MaxDispatches
AllowDispatch == Len(window) < MaxDispatches

\* A file is worth a run by itself; a tick or an alert only to the aggressive profile.
Wakes(e) == e.kind = "file" \/ (e.kind \in {"tick", "alert"} /\ profile = "aggressive")

ChosenGoalsFirst(e) ==
  {j \in Jobs :
     /\ profile # "manual"
     /\ \/ e.kind = "resume" /\ j = Direct
        \/ /\ e.kind \notin {"resume"} \cup Resource /\ ~pressure /\ AllowDispatch
           /\ \/ j \in DueGoals(e)
              \/ DueGoals(e) = {} /\ j \in DueOrders(e) /\ \A o \in DueOrders(e) : Age[j] <= Age[o]
              \/ DueOrders(e) = {} /\ DueGoals(e) = {} /\ j = Direct /\ Wakes(e)}

\* Jobs the event may be dispatched for.  Only the order created first is considered,
\* and any order comes before the goals; which of several due goals was updated last is
\* left open.
Chosen(e) ==
  {j \in Jobs :
     /\ profile # "manual"
     /\ \/ e.kind = "resume" /\ j = Direct
        \/ /\ e.kind \notin {"resume"} \cup Resource /\ ~pressure /\ AllowDispatch
           /\ \/ j \in DueOrders(e) /\ \A o \in DueOrders(e) : Age[j] <= Age[o]
              \/ DueOrders(e) = {} /\ j \in DueGoals(e)
              \/ DueOrders(e) = {} /\ DueGoals(e) = {} /\ j = Direct /\ Wakes(e)}

Session(j, e) == IF j = Direct THEN e.session ELSE SessionOf[j]

\* Mutant: the tasks are counted, not the records.
ActiveTasks == Cardinality(live)

\* Runs that are running by their records: nothing corrects the record of a run that a
\* crash ended, or that ended without a mark.
Active == Cardinality(live) + lost

\* The guards of the coordinator: its capacity, and the run of the session.
Free(j, e) == Active < MaxConcurrent /\ Session(j, e) \notin running

-----------------------------------------------------------------------------
(* The coordinator.                                                        *)

Ready == up /\ coord.step = "idle" /\ queue # <<>>

\* The next event leaves the queue; the slots before it have arrived for it too.
Taken ==
  /\ queue' = Tail(queue)
  /\ pending' = pending \cup Head(queue).slots
  /\ due' = due \cup Head(queue).slots

Faulty == faults < MaxFaults /\ faults' = faults + 1

\* The policy engine learns of the pressure, unless the event cannot be recorded: that
\* comes first, and the loop drops an event whose handling raises.
TakeResource ==
  /\ Ready /\ Head(queue).kind \in Resource
  /\ Taken
  /\ \/ pressure' = (Head(queue).kind = "pressure") /\ missed' = FALSE /\ UNCHANGED faults
     \/ Faulty /\ missed' = TRUE /\ UNCHANGED pressure
  /\ UNCHANGED <<enabled, fresh, ever, up, profile, coord, window, sensed, runs,
                 again, doubt, slipped>>

\* The event is for nothing, a guard refuses, or it cannot be recorded, and it is dropped.
\* Any event may meet the cooldown of its key: the seconds since the last dispatch are
\* left open.
Suppress ==
  /\ Ready /\ Head(queue).kind \notin Resource
  /\ Taken
  /\ UNCHANGED <<enabled, fresh, ever, up, profile, coord, window, pressure, sensed, missed,
                 runs, faults, again, doubt, slipped>>

Starting(j, e) == [step |-> "starting", job |-> j, session |-> Session(j, e), kind |-> e.kind]

DispatchMarks ==
  /\ Ready
  /\ \E j \in Chosen(Head(queue)) :
       /\ Free(j, Head(queue))
       /\ coord' = Starting(j, Head(queue))
       /\ pending' = (pending \cup Head(queue).slots) \ {j}
  /\ queue' = Tail(queue) /\ due' = due \cup Head(queue).slots
  /\ UNCHANGED <<enabled, fresh, ever, up, profile, window, pressure, sensed, missed, runs, faults,
                 again, doubt, slipped>>

\* The guards let it through, and start_run is awaited.
Dispatch ==
  /\ Ready
  /\ \E j \in Chosen(Head(queue)) :
       /\ Free(j, Head(queue))
       /\ coord' = Starting(j, Head(queue))
  /\ Taken
  /\ UNCHANGED <<enabled, fresh, ever, up, profile, window, pressure, sensed, missed, runs, faults,
                 again, doubt, slipped>>

StartFailureEndsLoop ==
  /\ coord.step = "starting"
  /\ coord' = [Idle EXCEPT !.step = "ended"]
  /\ UNCHANGED <<store, up, profile, queue, window, pressure, sensed, missed,
                 runs, faults, history>>

\* start_run raises before it creates a run (the organization, the budget): the event is
\* gone.
StartFails ==
  /\ coord.step = "starting"
  /\ coord' = Idle
  /\ UNCHANGED <<store, up, profile, queue, window, pressure, sensed, missed,
                 runs, faults, history>>

MarkedOrdersOnly(j) ==
  /\ pending' = pending \ ({j} \ Goals)
  /\ UNCHANGED <<queue, fresh>>

\* An order is marked with the time of the event: later slots stay.  The interval of a
\* goal starts anew, and may have passed again at one of the queued ticks.
Marked(j) ==
  /\ pending' = pending \ {j}
  /\ IF j \in Goals
     THEN /\ \E i \in Ticks \cup {0} :
               queue' = [k \in DOMAIN queue |-> [queue[k] EXCEPT !.slots =
                           IF k = i THEN @ \cup {j} ELSE @ \ {j}]]
          /\ fresh' = fresh \ {j}
     ELSE UNCHANGED <<queue, fresh>>

\* History: the coordinator has started a run for its job.
Run ==
  /\ due' = due \ {coord.job}
  /\ again' = again \cup (({coord.job} \cap Timed) \ due)

\* A run has started in session s.
StartedIn(s) == running' = running \cup {s} /\ live' = live \cup {s} /\ UNCHANGED lost

\* start_run returns the new run, and PolicyEngine.note_dispatch follows at once.
Started ==
  /\ coord.step = "starting"
  /\ StartedIn(coord.session)
  /\ window' = Append(window, coord.kind = "resume")
  /\ Marked(coord.job)
  /\ Run
  /\ coord' = Idle
  /\ UNCHANGED <<enabled, ever, up, profile, pressure, sensed, missed, faults, doubt, slipped>>

\* start_run raises after it wrote the record of the run, which gets no task.
StartStrands ==
  /\ coord.step = "starting" /\ Faulty
  /\ running' = running \cup {coord.session} /\ lost' = lost + 1 /\ UNCHANGED live
  /\ coord' = Idle
  /\ UNCHANGED <<store, up, profile, queue, window, pressure, sensed, missed, history>>

\* The run is at work, but start_run raises late, or its decision cannot be recorded, and
\* note_dispatch is not reached; or that cannot write policy.json.
StartedUnmarked ==
  /\ coord.step = "starting" /\ Faulty
  /\ StartedIn(coord.session)
  /\ window' \in {window, Append(window, coord.kind = "resume")}
  /\ Run
  /\ doubt' = doubt \cup ({coord.job} \cap Timed)
  /\ coord' = Idle
  /\ UNCHANGED <<store, up, profile, queue, pressure, sensed, missed, slipped>>

-----------------------------------------------------------------------------
(* The sensors.                                                            *)

SweepEldest ==
  {o \in Governance \cap enabled \cap (pending \cup Queued \cup fresh) :
     \A p \in (Orders \ EventOrders) \cap enabled \cap (pending \cup Queued \cup fresh) : Age[o] <= Age[p]}

\* The governance orders due at a tick that is published now.
Sweep == Governance \cap enabled \cap (pending \cup Queued \cup fresh)

\* ScheduleSensor.emit_tick: the tick is in the queue, and before the coordinator can see
\* it each due governance order is marked and then swept.  The mark may fail (orders F),
\* or the sweep after it (orders B).
Tick ==
  /\ up /\ Room
  /\ \E F \in SUBSET Sweep, B \in SUBSET Sweep :
       LET slots == due \cup Queued \cup fresh
           M     == Sweep \ F
       IN  /\ B \subseteq M
           /\ IF F = {} THEN UNCHANGED faults ELSE Faulty
           /\ queue' = Append(Without(M), [kind |-> "tick", session |-> Schedule,
                                           slots |-> fresh \ M])
           /\ pending' = pending \ M
           /\ due' = (due \ M) \cup (B \cap slots)
           /\ again' = again \cup ((M \ B) \ slots)
           /\ slipped' = (slipped \ M) \cup F
           /\ doubt' = doubt \cup (M \cap {coord.job})
  /\ fresh' = {}
  /\ UNCHANGED <<enabled, ever, up, profile, coord, window, pressure, sensed, missed, runs>>

Publish(e) == Room /\ queue' = Append(queue, e)

\* FileWatchSensor, PipelineHealthSensor and ModelMonitorSensor.
Sense ==
  /\ up
  /\ \E kind \in Sensed, s \in Sessions : (kind = "file" => s = Inbox) /\ Publish(Event(kind, s))
  /\ UNCHANGED <<store, up, profile, coord, window, pressure, sensed, missed,
                 runs, faults, history>>

SensePressureRise ==
  /\ up
  /\ sensed' = (Len(queue) >= BacklogThreshold \/ Active >= RunThreshold)
  /\ sensed' # sensed
  /\ IF sensed' THEN Publish(Event("pressure", Schedule)) ELSE UNCHANGED queue
  /\ UNCHANGED <<store, up, profile, coord, window, pressure, missed, runs, faults, history>>

\* SystemResourceSensor.poll_once: an event where the pressure has changed.
SensePressure ==
  /\ up
  /\ sensed' = (Len(queue) >= BacklogThreshold \/ Active >= RunThreshold)
  /\ sensed' # sensed
  /\ Publish(Event(IF sensed' THEN "pressure" ELSE "normal", Schedule))
  /\ UNCHANGED <<store, up, profile, coord, window, pressure, missed, runs, faults, history>>

-----------------------------------------------------------------------------
(* The life of the daemon.                                                 *)

\* The governance orders are registered anew: enabled, and never run, so that one with
\* any slot since it was created is due.  Recovery may publish an event.
Registered ==
  LET R == Governance \cap ever
  IN  /\ enabled' = enabled \cup Governance
      /\ pending' = pending \cup R
      /\ fresh' = fresh \ R
      /\ due' = due \cup (R \cap (Queued \cup fresh))
      /\ doubt' = doubt \cup (R \ (due \cup Queued \cup fresh))
      /\ slipped' = IF Ticks = {} THEN slipped ELSE slipped \cup Governance
      /\ \/ queue' = Without(R)
         \/ \E s \in Sessions : Room /\ queue' = Append(Without(R), Event("resume", s))

\* AutonomousDaemon.start of a new daemon.
Start ==
  /\ ~up /\ up' = TRUE
  /\ profile' \in Profiles
  /\ Registered
  /\ UNCHANGED <<ever, coord, window, pressure, sensed, missed, runs, faults, again>>

\* The setting is turned on once more: start() of the daemon that runs.
StartAgain ==
  /\ up /\ Faulty
  /\ Registered
  /\ UNCHANGED <<ever, up, profile, coord, window, pressure, sensed, missed, runs, again>>

\* What a daemon keeps in memory is gone; what is due stays so.
Down ==
  /\ up /\ up' = FALSE
  /\ queue' = <<>> /\ coord' = Idle /\ window' = <<>>
  /\ pressure' = FALSE /\ sensed' = FALSE /\ missed' = FALSE /\ slipped' = {}
  /\ UNCHANGED profile

\* AutonomousDaemon.stop cancels the coordinator; the runs go on.
Stop ==
  /\ Down /\ Faulty
  /\ pending' = pending \cup Queued /\ due' = due \cup Queued
  /\ UNCHANGED <<enabled, fresh, ever, runs, again, doubt>>

\* The process dies with the runs of sessions S at work: their records stay as they were.
Died(S) == live' = {} /\ lost' = lost + Cardinality(S) /\ running' = running \cup S

\* A registry that was being written, or could not be, is read back as an empty one.
RunsTorn == live' = {} /\ lost' = 0 /\ running' = {}

Crash ==
  /\ Down /\ Faulty
  /\ Died(live) \/ RunsTorn
  /\ pending' = pending \cup Queued /\ due' = due \cup Queued
  /\ UNCHANGED <<enabled, fresh, ever, again, doubt>>

\* The process dies after start_run wrote the record of the run and before the mark is
\* written, or in the middle of writing it: a file that does not parse is an empty file.
CrashMarking ==
  /\ coord.step = "starting"
  /\ Down /\ Faulty
  /\ Died(live \cup {coord.session})
  /\ again' = again \cup (({coord.job} \cap Timed) \ due)
  /\ \/ /\ pending' = pending \cup Queued
        /\ due' = (due \ {coord.job}) \cup Queued
        /\ doubt' = doubt \cup ({coord.job} \cap Timed)
        /\ UNCHANGED <<enabled, fresh>>
     \/ /\ enabled' = {} /\ pending' = {} /\ fresh' = {} /\ due' = {}
        /\ UNCHANGED doubt
  /\ UNCHANGED ever

-----------------------------------------------------------------------------
(* The clock, other runs, and the operator.                                *)

\* A slot of a timed job arrives; the interval of a goal ends once until it is marked.
SlotArrives ==
  /\ \E j \in Timed \ fresh :
       /\ j \in Goals => j \notin pending \cup Queued
       /\ fresh' = fresh \cup {j}
       /\ ever' = ever \cup ({j} \cap Governance)
  /\ UNCHANGED <<enabled, pending, daemon, runs, faults, history>>

Expire ==
  /\ window # <<>> /\ window' = Tail(window)
  /\ UNCHANGED <<store, up, profile, queue, coord, pressure, sensed, missed, runs, faults, history>>

\* A run starts in a session without one; not where the coordinator is starting one, as
\* start_run does not suspend in a session in which nothing runs.
UserRun ==
  /\ \E s \in Sessions \ live :
       /\ coord.step = "starting" => s # coord.session
       /\ StartedIn(s)
  /\ UNCHANGED <<store, daemon, faults, history>>

\* A run ends by one of its own marks.
EndRun ==
  /\ \E s \in live : running' = running \ {s} /\ live' = live \ {s}
  /\ UNCHANGED <<store, daemon, lost, faults, history>>

\* A run is cancelled before its first step, or cannot store its usage: its task ends and
\* its record says running.
StrandRun ==
  /\ Faulty
  /\ \E s \in live : live' = live \ {s}
  /\ lost' = lost + 1
  /\ UNCHANGED <<store, daemon, running, history>>

\* The standing_order tool or policy.upsertRecurringGoal disables a job, or enables it
\* again with the slots it missed.
Disable ==
  /\ Faulty
  /\ \E j \in enabled : enabled' = enabled \ {j}
  /\ UNCHANGED <<pending, fresh, ever, daemon, runs, history>>

Enable ==
  /\ Faulty
  /\ \E j \in (Orders \cup Goals) \ enabled :
       /\ enabled' = enabled \cup {j}
       /\ slipped' = IF Ticks = {} THEN slipped ELSE slipped \cup ({j} \cap Governance)
  /\ UNCHANGED <<pending, fresh, ever, daemon, runs, due, again, doubt>>

\* A job is created (in place of one that was deleted): a new goal is due at once, a new
\* order at its first slot.
Create ==
  /\ Faulty
  /\ \E j \in (Orders \cup Goals) \ (enabled \cup Governance) :
       /\ enabled' = enabled \cup {j}
       /\ pending' = (pending \ {j}) \cup ({j} \cap Goals)
       /\ due' = (due \ {j}) \cup ({j} \cap Goals)
       /\ fresh' = fresh \ {j}
       /\ queue' = Without({j})
       /\ coord.job # j
  /\ UNCHANGED <<ever, up, profile, coord, window, pressure, sensed, missed, runs, again, doubt,
                 slipped>>

-----------------------------------------------------------------------------
Init ==
  /\ up = TRUE /\ profile \in Profiles
  /\ enabled = Given
  /\ pending = {} /\ fresh = {} /\ ever = {}
  /\ queue = <<>> /\ coord = Idle
  /\ window = <<>> /\ pressure = FALSE /\ sensed = FALSE /\ missed = FALSE
  /\ running = {} /\ live = {} /\ lost = 0 /\ faults = 0
  /\ due = {} /\ again = {} /\ doubt = {} /\ slipped = {}

Coordinates == TakeResource \/ Suppress \/ Dispatch \/ StartFails
               \/ StartStrands \/ Started \/ StartedUnmarked
Senses == Tick \/ Sense \/ SensePressure
Lives == Start \/ StartAgain \/ Stop \/ Crash \/ CrashMarking
World == SlotArrives \/ Expire \/ UserRun \/ EndRun \/ StrandRun \/ Disable \/ Enable \/ Create

Next == Coordinates \/ Senses \/ Lives \/ World

Spec == Init /\ [][Next]_vars

\* The order of the operator with a cron expression that was created first.
CronOrders == Orders \ (EventOrders \cup Governance)
Eldest == {o \in CronOrders : \A p \in CronOrders : Age[o] <= Age[p]}

\* The coordinator takes a tick, and nothing suppresses what it is for.
TakesTick ==
  /\ Ready /\ Head(queue).kind = "tick"
  /\ profile # "manual" /\ ~pressure /\ AllowDispatch
  /\ Dispatch \/ (Taken /\ Chosen(Head(queue)) = {})

\* The loop of the coordinator goes on, and start_run does not refuse the oldest order
\* for ever.
FairSpec ==
  /\ Spec
  /\ WF_vars(Coordinates)
  /\ \A o \in Eldest : SF_vars(Started /\ coord.job = o)

-----------------------------------------------------------------------------
(* Properties.                                                             *)

\* The variables keep their types.
TypeOK ==
  /\ up \in BOOLEAN /\ profile \in Profiles
  /\ enabled \subseteq Orders \cup Goals
  /\ pending \subseteq Timed /\ fresh \subseteq Timed /\ ever \subseteq Governance
  /\ queue \in Seq(SensorEvent) /\ Len(queue) <= MaxQueue
  /\ coord \in Coord
  /\ window \in Seq(BOOLEAN)
  /\ pressure \in BOOLEAN /\ sensed \in BOOLEAN /\ missed \in BOOLEAN
  /\ running \subseteq Sessions /\ live \subseteq Sessions /\ lost \in Nat /\ faults \in 0..MaxFaults
  /\ due \subseteq Timed /\ again \subseteq Timed /\ doubt \subseteq Timed
  /\ slipped \subseteq Governance

\* The coordinator starts no run of the agent for a governance order, which is for the
\* daemon to sweep, although both look for due orders at every tick: unless a mark failed,
\* or an order was enabled or registered while a tick was in the queue.
SweepsStayInternal ==
  [][coord.step = "idle" /\ coord'.step = "starting" =>
       coord'.job \notin Governance \ slipped]_vars

\* No slot of a job is run twice, whatever the backlog of ticks, unless the job was run
\* and could not be marked, or a governance order was registered anew or slipped through
\* its sweep.
SlotRunOnce == again \subseteq doubt

\* A slot of an order of the operator is not lost to a run that cannot start, a throttle,
\* a cooldown, a stop or a crash: the job stays due until a run for it has started.
SlotKept == due \ Governance \subseteq pending

\* A run that is no recovery starts only while fewer than MaxDispatches runs of the
\* daemon are in the window, those that started while start_run was awaited included; a
\* run that note_dispatch was not told of is in no window.
Throttled == \A i \in DOMAIN window : ~window[i] => i <= MaxDispatches

\* The policy engine knows of the pressure the sensor saw last, once it has taken every
\* event the sensor published, unless the last of them could not be recorded: changes
\* that were lost before are made good by the next one.
PressureFollows ==
  (\A i \in DOMAIN queue : queue[i].kind \notin Resource) /\ ~missed => pressure = sensed

\* What the two guards of the coordinator read, the sessions with a running run and the
\* number of running records, changes as RunLifecycle changes it (_has_running_run,
\* _has_dispatch_capacity against RunRegistry).
Counted == INSTANCE SessionRuns WITH active <- Active
CountsRuns == Counted!Counting

\* The order created first is run, or disabled, once it is due, provided that again and
\* again a tick is taken while the guards would let its run start.
OldestServed ==
  \A o \in Eldest : []<><<TakesTick>>_vars => (o \in due \cap enabled ~> o \notin due \cap enabled)
=============================================================================
