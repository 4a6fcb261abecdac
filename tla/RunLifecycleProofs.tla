------------------------- MODULE RunLifecycleProofs -------------------------
(* Theorems about RunLifecycle, for every value of its constants. *)
EXTENDS RunLifecycle, FiniteSetTheorems, TLAPS

USE DEF RunIds, Actors

\* What IInv says of one run.
RunInv(r) == /\ Recorded(r) /\ Billed(r) /\ Cancellable(r) /\ PhaseFits(r)
             /\ VerdictFits(r) /\ FrameFits(r) /\ BillFits(r)

LEMMA RunsOfIInv == IInv => \A r \in RunIds : RunInv(r)
BY DEF IInv, RunInv, RecordsInv, BillingInv, CancelInv, PhaseMatchesStatus, LedgerVerdict,
       FrameMatchesRecord, BilledAtMostOnce

LEMMA IInvOfRuns == TypeOK /\ SliceInv /\ (\A r \in RunIds : RunInv(r)) => IInv
BY DEF IInv, RunInv, RecordsInv, BillingInv, CancelInv, PhaseMatchesStatus, LedgerVerdict,
       FrameMatchesRecord, BilledAtMostOnce

LEMMA IInvAfter == TypeOK' /\ SliceInv' /\ (\A r \in RunIds : RunInv(r)') => IInv'
BY DEF IInv, RunInv, RecordsInv, BillingInv, CancelInv, PhaseMatchesStatus, LedgerVerdict,
       FrameMatchesRecord, BilledAtMostOnce

(* The initial state. *)
LEMMA InitIInv ==
    ASSUME ConstantsAssumption, Init
    PROVE  IInv
<1> USE DEF Init, Idle, NoRecord, NoOwner, NoLast
<1>1. TypeOK
    BY DEF TypeOK, Phases
<1>2. SliceInv
    BY DEF SliceInv
<1>3. \A r \in RunIds : RunInv(r)
    BY DEF RunInv, Recorded, Billed, Cancellable, PhaseFits, VerdictFits, FrameFits, BillFits,
           TurnPhases
<1> QED BY <1>1, <1>2, <1>3, IInvOfRuns

(* What a run shows is the same before and after. *)
LEMMA SameRun ==
    ASSUME NEW r \in RunIds, RunInv(r), created' >= created, created \in Nat, created' \in Nat,
           r > created' \/ r <= created,
           status'[r] = status[r], owner'[r] = owner[r], ledger'[r] = ledger[r],
           usage'[r] = usage[r], coro'[r] = coro[r], frame'[r] = frame[r],
           cancelReq'[r] = cancelReq[r] \/ (coro[r] \in Unfinished \ MidSlice)
    PROVE  RunInv(r)'
BY DEF RunInv, Recorded, Billed, Cancellable, PhaseFits, VerdictFits, FrameFits, BillFits

-----------------------------------------------------------------------------
(* The steps of callers. *)

(* The step that creates a run record, shared by the two ways into it. *)
LEMMA CreateRunIInv ==
    ASSUME ConstantsAssumption, IInv, LoopFree,
           NEW a \in Actors, NEW s \in Sessions, actor[a].pc \in {"idle", "waiting"},
           CreateRun(a, s), UNCHANGED <<cancelReq, frame, crashes>>,
           resume' \in SUBSET Sessions
    PROVE  IInv'
<1>1. PICK r \in RunIds : r = created + 1 /\ created \in Nat
    BY DEF IInv, TypeOK, CreateRun
<1>2. TypeOK'
    BY DEF IInv, TypeOK, CreateRun, RunStatus
<1>3. /\ status[r] = "absent" /\ coro[r] = "none" /\ ledger[r] = "absent"
      /\ usage[r] = 0 /\ frame[r] = "none" /\ RunInv(r)
    BY <1>1, RunsOfIInv DEF RunInv, Recorded
<1>4. /\ created' = r /\ status'[r] = "running" /\ owner'[r] = s
      /\ \A q \in RunIds : q # r => status'[q] = status[q] /\ owner'[q] = owner[q]
      /\ UNCHANGED <<ledger, usage, coro, frame, cancelReq>>
      /\ actor'[a] = [pc |-> "creating", session |-> s, run |-> r]
      /\ \A b \in Actors : b # a => actor'[b] = actor[b]
    BY <1>1 DEF IInv, TypeOK, CreateRun
<1>5. RunInv(r)'
    BY <1>1, <1>3, <1>4
       DEF RunInv, Recorded, Billed, Cancellable, PhaseFits, VerdictFits, FrameFits, BillFits,
           TurnPhases, Unfinished
<1>6. \A q \in RunIds : q # r => RunInv(q)'
    BY <1>1, <1>4, RunsOfIInv, SameRun
<1>7. SliceInv'
    BY <1>3, <1>4 DEF SliceInv, LoopFree
<1> QED BY <1>2, <1>5, <1>6, <1>7, IInvAfter

(* A client aborts a run, or start_run does: at most a cancellation is new. *)
LEMMA CancelIInv ==
    ASSUME ConstantsAssumption, IInv, LoopFree, NEW r \in RunIds, coro[r] \in Unfinished,
           Cancel(r), UNCHANGED <<files, coro, watched, bound, frame, crashes>>, TypeOK',
           \A a \in Actors : actor'[a].pc = "creating" => actor'[a] = actor[a]
    PROVE  IInv'
<1> USE DEF IInv, TypeOK, Cancel, files
<1>1. coro[r] \in Unfinished \ MidSlice
    BY DEF LoopFree
<1>2. \A q \in RunIds : RunInv(q)'
    BY <1>1, RunsOfIInv, SameRun
<1>3. SliceInv'
    BY DEF SliceInv, LoopFree
<1> QED BY <1>2, <1>3, IInvAfter

LEMMA AbortRunIInv ==
    ASSUME ConstantsAssumption, IInv, NEW c \in Clients, NEW r \in RunIds, AbortRun(c, r)
    PROVE  IInv'
<1>1. TypeOK'
    BY DEF IInv, TypeOK, AbortRun, Cancel, files
<1> QED BY <1>1, CancelIInv DEF AbortRun

LEMMA StartAfterAbortIInv ==
    ASSUME ConstantsAssumption, IInv, LoopFree,
           NEW a \in Actors, NEW s \in Sessions, StartAfterAbort(a, s),
           UNCHANGED <<frame, crashes>>, resume' \in SUBSET Sessions
    PROVE  IInv'
<1>1. PICK r \in RunIds :
         /\ coro[r] \in Unfinished /\ Cancel(r)
         /\ actor' = [actor EXCEPT ![a] = [pc |-> "waiting", session |-> s, run |-> r]]
         /\ UNCHANGED <<files, coro, watched, bound>>
    BY DEF StartAfterAbort
<1>2. TypeOK'
    BY <1>1 DEF IInv, TypeOK, Cancel, files
<1>3. \A b \in Actors : actor'[b].pc = "creating" => actor'[b] = actor[b]
    BY <1>1 DEF IInv, TypeOK
<1> QED BY <1>1, <1>2, <1>3, CancelIInv

(* The callers are as before, or one of them is done; runs are as they were. *)
LEMMA CallerLeavesIInv ==
    ASSUME ConstantsAssumption, IInv, TypeOK',
           UNCHANGED <<created, status, owner, ledger, usage, coro, cancelReq, frame>>,
           \A a \in Actors : actor'[a].pc = "creating" => actor'[a] = actor[a]
    PROVE  IInv'
<1>1. created \in Nat
    BY DEF IInv, TypeOK
<1>2. \A q \in RunIds : RunInv(q)'
    BY <1>1, RunsOfIInv, SameRun
<1>3. SliceInv'
    BY DEF IInv, SliceInv
<1> QED BY <1>2, <1>3, IInvAfter

LEMMA RefuseAfterWaitIInv ==
    ASSUME ConstantsAssumption, IInv, NEW a \in Actors, RefuseAfterWait(a)
    PROVE  IInv'
<1>1. TypeOK'
    BY DEF IInv, TypeOK, RefuseAfterWait, files
<1>2. \A b \in Actors : actor'[b].pc = "creating" => actor'[b] = actor[b]
    BY DEF IInv, TypeOK, RefuseAfterWait, Idle
<1> QED BY <1>1, <1>2, CallerLeavesIInv DEF RefuseAfterWait, files

LEMMA CreateRaisesIInv ==
    ASSUME ConstantsAssumption, IInv, NEW a \in Actors, CreateRaises(a)
    PROVE  IInv'
<1>1. actor[a].run \in RunIds
    BY DEF IInv, TypeOK, CreateRaises, Idle
<1>2. TypeOK'
    BY <1>1 DEF IInv, TypeOK, CreateRaises
<1>3. \A b \in Actors : actor'[b].pc = "creating" => actor'[b] = actor[b]
    BY DEF IInv, TypeOK, CreateRaises, Idle
<1> QED BY <1>2, <1>3, CallerLeavesIInv DEF CreateRaises

(* The task of a new run is registered. *)
LEMMA RegisterTaskIInv ==
    ASSUME ConstantsAssumption, IInv, NEW a \in Actors, RegisterTask(a)
    PROVE  IInv'
<1>1. PICK r \in RunIds : r = actor[a].run /\ r = created
    BY DEF IInv, TypeOK, RegisterTask, SliceInv, Idle
<1>2. /\ status[r] = "running" /\ coro[r] = "none" /\ usage[r] = 0 /\ frame[r] = "none"
      /\ \A b \in Actors : actor[b].pc = "creating" => b = a
      /\ RunInv(r)
    BY <1>1, RunsOfIInv DEF IInv, SliceInv, RegisterTask
<1>3. /\ coro'[r] = "scheduled" /\ ledger'[r] = "running"
      /\ \A q \in RunIds : q # r => coro'[q] = coro[q] /\ ledger'[q] = ledger[q]
      /\ UNCHANGED <<created, status, owner, usage, frame, cancelReq>>
      /\ actor'[a] = Idle /\ \A b \in Actors : b # a => actor'[b] = actor[b]
      /\ created \in Nat
    BY <1>1 DEF IInv, TypeOK, RegisterTask
<1>4. TypeOK'
  <2>1. watched' \in {watched, watched \cup {r}}
    BY <1>1 DEF RegisterTask
  <2>2. /\ coro' = [coro EXCEPT ![r] = "scheduled"] /\ "scheduled" \in Phases
        /\ ledger' = [ledger EXCEPT ![r] = "running"] /\ "running" \in RunStatus
        /\ actor' = [actor EXCEPT ![a] = Idle]
        /\ lastRun' = [lastRun EXCEPT ![actor[a].session] = r]
        /\ bound' = [bound EXCEPT ![actor[a].session] = r]
        /\ UNCHANGED <<created, status, owner, surface, usage, checkpoint,
                       cancelReq, resume, frame, crashes>>
    BY <1>1 DEF RegisterTask, RunStatus, Phases, Unfinished, TurnPhases
  <2> QED BY <2>1, <2>2 DEF IInv, TypeOK
<1>5. RunInv(r)'
    BY <1>2, <1>3
       DEF RunInv, Recorded, Billed, Cancellable, PhaseFits, VerdictFits, FrameFits, BillFits,
           TurnPhases, Unfinished, MidSlice, Sending
<1>6. \A q \in RunIds : q # r => RunInv(q)'
    BY <1>3, RunsOfIInv, SameRun
<1>7. SliceInv'
    BY <1>2, <1>3 DEF SliceInv, Idle
<1> QED BY <1>4, <1>5, <1>6, <1>7, IInvAfter

LEMMA StartRunIInv ==
    ASSUME ConstantsAssumption, IInv,
           NEW a \in Actors, NEW s \in Sessions, StartRun(a, s),
           UNCHANGED <<frame, crashes>>, resume' \in SUBSET Sessions
    PROVE  IInv'
<1>1. LoopFree /\ actor[a].pc = "idle"
    BY DEF StartRun
<1>2. CASE StartAtOnce(a, s)
    BY <1>1, <1>2, CreateRunIInv DEF StartAtOnce
<1>3. CASE StartAfterAbort(a, s)
    BY <1>1, <1>3, StartAfterAbortIInv
<1> QED BY <1>2, <1>3 DEF StartRun

LEMMA CreateAfterWaitIInv ==
    ASSUME ConstantsAssumption, IInv, NEW a \in Actors, CreateAfterWait(a)
    PROVE  IInv'
<1>1. LoopFree /\ actor[a].pc = "waiting" /\ CreateRun(a, actor[a].session)
    BY DEF CreateAfterWait, WaitOver
<1>2. actor[a].session \in Sessions
    BY <1>1 DEF IInv, TypeOK, Idle
<1>3. UNCHANGED <<cancelReq, frame, crashes>> /\ resume' \in SUBSET Sessions
    BY DEF CreateAfterWait, IInv, TypeOK
<1> QED BY <1>1, <1>2, <1>3, CreateRunIInv

(* A step that changes nothing but the events in the hub. *)
LEMMA IdleStepIInv ==
    ASSUME ConstantsAssumption, IInv,
           UNCHANGED <<files, coro, watched, cancelReq, bound, actor, frame, crashes>>,
           resume' \in SUBSET Sessions
    PROVE  IInv'
<1>1. TypeOK'
    BY DEF IInv, TypeOK, files
<1> QED BY <1>1, CallerLeavesIInv DEF files

LEMMA HandleResumeIInv ==
    ASSUME ConstantsAssumption, IInv, NEW s \in Sessions, HandleResume(s)
    PROVE  IInv'
<1>1. resume' \in SUBSET Sessions /\ UNCHANGED <<frame, crashes>>
    BY DEF HandleResume, IInv, TypeOK
<1>2. CASE Dispatch(s)
    BY <1>1, <1>2, StartRunIInv DEF Dispatch
<1>3. CASE UNCHANGED <<files, coro, watched, cancelReq, bound, actor>>
    BY <1>1, <1>3, IdleStepIInv
<1> QED BY <1>2, <1>3 DEF HandleResume

-----------------------------------------------------------------------------
(* The steps of tasks. *)

(* What the way out of the coroutine and a closing frame change. *)
LEMMA LeaveForm ==
    ASSUME TypeOK, NEW r \in RunIds, NEW outcome, Leave(r, outcome)
    PROVE  /\ \E p \in Ended : coro' = [coro EXCEPT ![r] = p]
           /\ lastRun' = [lastRun EXCEPT ![owner[r]] = r]
           /\ coro'[r] = outcome \/ (StoreMayFail /\ coro'[r] = "raised")
BY DEF TypeOK, Leave

LEMMA SendForm ==
    ASSUME TypeOK, NEW r \in RunIds, NEW word, NEW phase, NEW outcome,
           Send(r, word, phase, outcome)
    PROVE  /\ \E p \in Ended \cup {phase} : coro' = [coro EXCEPT ![r] = p]
           /\ UNCHANGED frame \/ frame' = [frame EXCEPT ![r] = word]
           /\ UNCHANGED lastRun \/ lastRun' = [lastRun EXCEPT ![owner[r]] = r]
           /\ \/ coro'[r] = phase /\ frame'[r] = word
              \/ /\ frame'[r] = frame[r]
                 /\ coro'[r] = outcome \/ (StoreMayFail /\ coro'[r] = "raised")
BY DEF TypeOK, Leave, Send

(* A step of a task concerns its own run only, and finds no caller in the act of creating one. *)
LEMMA OneRunSteps ==
    ASSUME IInv, NEW r \in RunIds, TaskStep(r) \/ CancelLost(r)
    PROVE  /\ UNCHANGED <<created, owner, surface, actor, resume, crashes>>
           /\ \A a \in Actors : actor[a].pc # "creating"
           /\ \A q \in RunIds : q # r =>
                 UNCHANGED <<status[q], ledger[q], usage[q], coro[q], cancelReq[q], frame[q]>>
<1> USE DEF IInv, TypeOK
<1>1. LoopFree \/ coro[r] \in MidSlice => \A a \in Actors : actor[a].pc # "creating"
    BY DEF LoopFree, SliceInv
<1>2. CASE TaskStart(r) \/ CancelUnstarted(r) \/ CancelLost(r) \/ TurnFinished(r) \/ TurnRaised(r)
  <2>1. CASE TaskStart(r)
    BY <1>1, <2>1 DEF TaskStart
  <2>2. CASE TurnFinished(r)
    BY <1>1, <2>2 DEF TurnFinished
  <2>3. CASE CancelUnstarted(r) \/ CancelLost(r) \/ TurnRaised(r)
    BY <1>1, <2>3 DEF CancelUnstarted, CancelLost, TurnRaised, files
  <2> QED BY <1>2, <2>1, <2>2, <2>3
<1>3. CASE MarkSucceeded(r)
    BY <1>1, <1>3 DEF MarkSucceeded, MidSlice
<1>4. CASE RecordUsage(r)
  <2>1. /\ coro[r] \in MidSlice
        /\ UNCHANGED <<created, status, owner, surface, ledger, actor, resume, cancelReq, crashes>>
        /\ usage' \in {usage, [usage EXCEPT ![r] = @ + 1]}
    BY <1>4 DEF RecordUsage, MidSlice
  <2>2. /\ \E p : coro' = [coro EXCEPT ![r] = p]
        /\ UNCHANGED frame \/ \E f : frame' = [frame EXCEPT ![r] = f]
    BY <1>4, SendForm DEF RecordUsage
  <2> QED BY <1>1, <2>1, <2>2
<1>5. CASE HandleException(r)
  <2>1. /\ coro[r] \in MidSlice
        /\ UNCHANGED <<created, status, owner, surface, ledger, actor, resume, cancelReq, crashes,
                       frame>>
        /\ usage' \in {usage, [usage EXCEPT ![r] = @ + 1]}
        /\ \E p : coro' = [coro EXCEPT ![r] = p]
    BY <1>5, LeaveForm DEF HandleException, MidSlice
  <2> QED BY <1>1, <2>1
<1>6. CASE MarkFailed(r) \/ TaskCancelled(r)
  <2>1. /\ LoopFree \/ coro[r] \in MidSlice
        /\ UNCHANGED <<created, owner, surface, ledger, usage, actor, resume, crashes>>
        /\ \E v : status' = [status EXCEPT ![r] = v]
        /\ UNCHANGED cancelReq \/ cancelReq' = [cancelReq EXCEPT ![r] = FALSE]
    BY <1>6 DEF MarkFailed, TaskCancelled, MidSlice
  <2>2. /\ \E p : coro' = [coro EXCEPT ![r] = p]
        /\ UNCHANGED frame \/ \E f : frame' = [frame EXCEPT ![r] = f]
    BY <1>6, SendForm, LeaveForm DEF MarkFailed, TaskCancelled
  <2> QED BY <1>1, <2>1, <2>2
<1>7. CASE SendOver(r) \/ SendCancelled(r)
  <2>1. /\ LoopFree
        /\ UNCHANGED <<created, status, owner, surface, ledger, usage, actor, resume, crashes, frame>>
        /\ UNCHANGED cancelReq \/ cancelReq' = [cancelReq EXCEPT ![r] = FALSE]
        /\ \E p : coro' = [coro EXCEPT ![r] = p]
    BY <1>7, LeaveForm DEF SendOver, SendCancelled
  <2> QED BY <1>1, <2>1
<1>8. CASE Finalize(r)
    BY <1>1, <1>8 DEF Finalize
<1> QED BY <1>2, <1>3, <1>4, <1>5, <1>6, <1>7, <1>8 DEF TaskStep

(* What a step of a task leaves of the types of its variables. *)
LEMMA OneRunType ==
    ASSUME TypeOK, NEW r \in RunIds, owner[r] \in Sessions,
           UNCHANGED <<created, owner, surface, actor, resume, crashes>>,
           UNCHANGED status \/ \E v \in RunStatus \cup {"absent"} : status' = [status EXCEPT ![r] = v],
           UNCHANGED ledger \/ \E v \in RunStatus \cup {"absent"} : ledger' = [ledger EXCEPT ![r] = v],
           UNCHANGED usage \/ \E n \in 0 .. 2 : usage' = [usage EXCEPT ![r] = n],
           UNCHANGED coro \/ \E p \in Phases : coro' = [coro EXCEPT ![r] = p],
           UNCHANGED cancelReq \/ \E c \in BOOLEAN : cancelReq' = [cancelReq EXCEPT ![r] = c],
           UNCHANGED frame \/ \E f \in {"none", "done", "aborted", "error"} : frame' = [frame EXCEPT ![r] = f],
           UNCHANGED lastRun \/ lastRun' = [lastRun EXCEPT ![owner[r]] = r],
           checkpoint' \in [Sessions -> BOOLEAN], bound' \in [Sessions -> RunIds \cup {None}],
           watched' \in SUBSET RunIds
    PROVE  TypeOK'
<1> USE DEF TypeOK
<1>1. /\ status' \in [RunIds -> RunStatus \cup {"absent"}]
      /\ ledger' \in [RunIds -> RunStatus \cup {"absent"}]
    OBVIOUS
<1>2. usage' \in [RunIds -> 0 .. 2]
    OBVIOUS
<1>3. coro' \in [RunIds -> Phases]
    OBVIOUS
<1>4. /\ cancelReq' \in [RunIds -> BOOLEAN]
      /\ frame' \in [RunIds -> {"none", "done", "aborted", "error"}]
    OBVIOUS
<1>5. lastRun' \in [Sessions -> RunIds \cup {None}]
    OBVIOUS
<1> QED BY <1>1, <1>2, <1>3, <1>4, <1>5

(* Then the invariant is a matter of that one run. *)
LEMMA OneRunIInv ==
    ASSUME ConstantsAssumption, IInv, NEW r \in RunIds, TaskStep(r) \/ CancelLost(r),
           TypeOK', RunInv(r)'
    PROVE  IInv'
<1>1. \A q \in RunIds : q # r => RunInv(q)'
  <2>1. created \in Nat
    BY DEF IInv, TypeOK
  <2> QED BY <2>1, OneRunSteps, RunsOfIInv, SameRun
<1>2. SliceInv'
    BY OneRunSteps DEF SliceInv
<1> QED BY <1>1, <1>2, IInvAfter

(* What holds of a run whose task takes a step. *)
LEMMA AtWork ==
    ASSUME IInv, NEW r \in RunIds, coro[r] # "none"
    PROVE  /\ RunInv(r) /\ ledger[r] = "running" /\ status[r] # "absent"
           /\ owner[r] \in Sessions
BY RunsOfIInv DEF RunInv, Recorded, PhaseFits

(* A task takes its first step. *)
LEMMA TaskStartIInv ==
    ASSUME ConstantsAssumption, IInv, NEW r \in RunIds, TaskStart(r)
    PROVE  IInv'
<1>1. RunInv(r) /\ owner[r] \in Sessions /\ coro[r] = "scheduled" /\ ~cancelReq[r]
    BY AtWork DEF TaskStart, MidSlice, Sending, Ended, TurnPhases
<1>2. coro'[r] = "working" \/ (StoreMayFail /\ coro'[r] \in {"raised", "excepting"})
    BY DEF IInv, TypeOK, TaskStart
<1>3. UNCHANGED <<created, owner, status, ledger, usage, cancelReq, frame>>
    BY DEF TaskStart, files, Leave, Send
<1>4. RunInv(r)'
    BY <1>1, <1>2, <1>3
       DEF RunInv, Recorded, Billed, Cancellable, PhaseFits, VerdictFits, FrameFits, BillFits,
           TurnPhases, Unfinished, MidSlice, Sending, Ended, RunStatus
<1>5. TypeOK'
    BY <1>1, <1>2, OneRunType DEF IInv, TypeOK, TaskStart, files, RunInv, Billed, RunStatus, Phases,
       Unfinished, TurnPhases, MidSlice, Sending, Ended, Leave, Send
<1> QED BY <1>4, <1>5, OneRunIInv DEF TaskStep

(* A task is cancelled before its first step. *)
LEMMA CancelUnstartedIInv ==
    ASSUME ConstantsAssumption, IInv, NEW r \in RunIds, CancelUnstarted(r)
    PROVE  IInv'
<1>1. RunInv(r) /\ owner[r] \in Sessions /\ coro[r] = "scheduled"
    BY AtWork DEF CancelUnstarted, MidSlice, Sending, Ended, TurnPhases
<1>2. coro'[r] = "cancelled" /\ ~cancelReq'[r]
    BY DEF IInv, TypeOK, CancelUnstarted
<1>3. UNCHANGED <<created, owner, status, ledger, usage, frame>>
    BY DEF CancelUnstarted, files, Leave, Send
<1>4. RunInv(r)'
    BY <1>1, <1>2, <1>3
       DEF RunInv, Recorded, Billed, Cancellable, PhaseFits, VerdictFits, FrameFits, BillFits,
           TurnPhases, Unfinished, MidSlice, Sending, Ended, RunStatus
<1>5. TypeOK'
    BY <1>1, <1>2, OneRunType DEF IInv, TypeOK, CancelUnstarted, files, RunInv, Billed, RunStatus, Phases,
       Unfinished, TurnPhases, MidSlice, Sending, Ended, Leave, Send
<1> QED BY <1>4, <1>5, OneRunIInv DEF TaskStep

(* A cancellation is lost. *)
LEMMA CancelLostIInv ==
    ASSUME ConstantsAssumption, IInv, NEW r \in RunIds, CancelLost(r)
    PROVE  IInv'
<1>1. RunInv(r) /\ owner[r] \in Sessions /\ coro[r] = "working"
    BY AtWork DEF CancelLost, MidSlice, Sending, Ended, TurnPhases
<1>2. ~cancelReq'[r]
    BY DEF IInv, TypeOK, CancelLost
<1>3. UNCHANGED <<created, owner, status, ledger, usage, frame, coro>>
    BY DEF CancelLost, files, Leave, Send
<1>4. RunInv(r)'
    BY <1>1, <1>2, <1>3
       DEF RunInv, Recorded, Billed, Cancellable, PhaseFits, VerdictFits, FrameFits, BillFits,
           TurnPhases, Unfinished, MidSlice, Sending, Ended, RunStatus
<1>5. TypeOK'
    BY <1>1, <1>2, OneRunType DEF IInv, TypeOK, CancelLost, files, RunInv, Billed, RunStatus, Phases,
       Unfinished, TurnPhases, MidSlice, Sending, Ended, Leave, Send
<1> QED BY <1>4, <1>5, OneRunIInv DEF TaskStep

(* The turn ends with an answer. *)
LEMMA TurnFinishedIInv ==
    ASSUME ConstantsAssumption, IInv, NEW r \in RunIds, TurnFinished(r)
    PROVE  IInv'
<1>1. RunInv(r) /\ owner[r] \in Sessions /\ coro[r] = "working" /\ ~cancelReq[r]
    BY AtWork DEF TurnFinished, MidSlice, Sending, Ended, TurnPhases
<1>2. coro'[r] = "finishing"
    BY DEF IInv, TypeOK, TurnFinished
<1>3. UNCHANGED <<created, owner, status, ledger, usage, cancelReq, frame>>
    BY DEF TurnFinished, files, Leave, Send
<1>4. RunInv(r)'
    BY <1>1, <1>2, <1>3
       DEF RunInv, Recorded, Billed, Cancellable, PhaseFits, VerdictFits, FrameFits, BillFits,
           TurnPhases, Unfinished, MidSlice, Sending, Ended, RunStatus
<1>5. TypeOK'
    BY <1>1, <1>2, OneRunType DEF IInv, TypeOK, TurnFinished, files, RunInv, Billed, RunStatus, Phases,
       Unfinished, TurnPhases, MidSlice, Sending, Ended, Leave, Send
<1> QED BY <1>4, <1>5, OneRunIInv DEF TaskStep

(* The turn ends with an exception. *)
LEMMA TurnRaisedIInv ==
    ASSUME ConstantsAssumption, IInv, NEW r \in RunIds, TurnRaised(r)
    PROVE  IInv'
<1>1. RunInv(r) /\ owner[r] \in Sessions /\ coro[r] = "working" /\ ~cancelReq[r]
    BY AtWork DEF TurnRaised, MidSlice, Sending, Ended, TurnPhases
<1>2. coro'[r] = "excepting"
    BY DEF IInv, TypeOK, TurnRaised
<1>3. UNCHANGED <<created, owner, status, ledger, usage, cancelReq, frame>>
    BY DEF TurnRaised, files, Leave, Send
<1>4. RunInv(r)'
    BY <1>1, <1>2, <1>3
       DEF RunInv, Recorded, Billed, Cancellable, PhaseFits, VerdictFits, FrameFits, BillFits,
           TurnPhases, Unfinished, MidSlice, Sending, Ended, RunStatus
<1>5. TypeOK'
    BY <1>1, <1>2, OneRunType DEF IInv, TypeOK, TurnRaised, files, RunInv, Billed, RunStatus, Phases,
       Unfinished, TurnPhases, MidSlice, Sending, Ended, Leave, Send
<1> QED BY <1>4, <1>5, OneRunIInv DEF TaskStep

(* The run is marked succeeded. *)
LEMMA MarkSucceededIInv ==
    ASSUME ConstantsAssumption, IInv, NEW r \in RunIds, MarkSucceeded(r)
    PROVE  IInv'
<1>1. RunInv(r) /\ owner[r] \in Sessions /\ coro[r] = "finishing"
    BY AtWork DEF MarkSucceeded, MidSlice, Sending, Ended, TurnPhases
<1>2. /\ coro'[r] \in {"recording", "excepting"}
      /\ status'[r] = "succeeded"
    BY DEF IInv, TypeOK, MarkSucceeded
<1>3. UNCHANGED <<created, owner, ledger, usage, cancelReq, frame>>
    BY DEF MarkSucceeded, files, Leave, Send
<1>4. RunInv(r)'
    BY <1>1, <1>2, <1>3
       DEF RunInv, Recorded, Billed, Cancellable, PhaseFits, VerdictFits, FrameFits, BillFits,
           TurnPhases, Unfinished, MidSlice, Sending, Ended, RunStatus
<1>5. TypeOK'
    BY <1>1, <1>2, OneRunType DEF IInv, TypeOK, MarkSucceeded, files, RunInv, Billed, RunStatus, Phases,
       Unfinished, TurnPhases, MidSlice, Sending, Ended, Leave, Send
<1> QED BY <1>4, <1>5, OneRunIInv DEF TaskStep

(* The run is billed. *)
LEMMA RecordUsageIInv ==
    ASSUME ConstantsAssumption, IInv, NEW r \in RunIds, RecordUsage(r)
    PROVE  IInv'
<1>1. RunInv(r) /\ owner[r] \in Sessions /\ usage[r] \in 0 .. 2 /\ coro[r] = "recording"
    BY AtWork DEF IInv, TypeOK, RecordUsage, MidSlice, Sending, Ended, TurnPhases
<1>2. \/ /\ usage'[r] = usage[r] + 1
         /\ \/ coro'[r] = "emitting" /\ frame'[r] = "done"
            \/ coro'[r] = "returned" /\ frame'[r] = frame[r]
            \/ StoreMayFail /\ coro'[r] = "raised" /\ frame'[r] = frame[r]
      \/ /\ usage'[r] \in {usage[r], usage[r] + 1}
         /\ coro'[r] = "excepting" /\ frame'[r] = frame[r]
    BY SendForm DEF IInv, TypeOK, RecordUsage
<1>3. UNCHANGED <<created, owner, status, ledger, cancelReq>>
    BY DEF RecordUsage, files
<1>4. RunInv(r)'
    BY <1>1, <1>2, <1>3
       DEF RunInv, Recorded, Billed, Cancellable, PhaseFits, VerdictFits, FrameFits, BillFits,
           TurnPhases, Unfinished, MidSlice, Sending, Ended, RunStatus
<1>5. TypeOK'
  <2>1. usage[r] \in 0 .. 1 /\ usage = [usage EXCEPT ![r] = usage[r]]
    BY <1>1 DEF IInv, TypeOK, RunInv, Billed
  <2>2. \E n \in 0 .. 2 : usage' = [usage EXCEPT ![r] = n]
    BY <2>1 DEF RecordUsage
  <2>5. \E p \in Phases : coro' = [coro EXCEPT ![r] = p]
    BY SendForm DEF IInv, RecordUsage, Phases, Unfinished, MidSlice, Sending, Ended
  <2>3. UNCHANGED frame \/ frame' = [frame EXCEPT ![r] = "done"]
    BY SendForm DEF IInv, RecordUsage
  <2>4. UNCHANGED lastRun \/ lastRun' = [lastRun EXCEPT ![owner[r]] = r]
    BY SendForm DEF IInv, RecordUsage
  <2> QED BY <1>1, <1>3, <2>2, <2>3, <2>4, <2>5, OneRunType, OneRunSteps
         DEF IInv, TypeOK, TaskStep, RecordUsage
<1> QED BY <1>4, <1>5, OneRunIInv DEF TaskStep

(* The exception clause bills the run. *)
LEMMA HandleExceptionIInv ==
    ASSUME ConstantsAssumption, IInv, NEW r \in RunIds, HandleException(r)
    PROVE  IInv'
<1>1. RunInv(r) /\ owner[r] \in Sessions /\ usage[r] \in 0 .. 2 /\ coro[r] = "excepting"
    BY AtWork DEF IInv, TypeOK, HandleException, MidSlice, Sending, Ended, TurnPhases
<1>2. \/ coro'[r] = "failing" /\ usage'[r] = usage[r] + 1
      \/ StoreMayFail /\ coro'[r] = "raised" /\ usage'[r] \in {usage[r], usage[r] + 1}
    BY LeaveForm DEF IInv, TypeOK, HandleException
<1>3. UNCHANGED <<created, owner, status, ledger, cancelReq, frame>>
    BY DEF HandleException, files
<1>4. RunInv(r)'
    BY <1>1, <1>2, <1>3
       DEF RunInv, Recorded, Billed, Cancellable, PhaseFits, VerdictFits, FrameFits, BillFits,
           TurnPhases, Unfinished, MidSlice, Sending, Ended, RunStatus
<1>5. TypeOK'
  <2>1. usage[r] \in 0 .. 1 /\ usage = [usage EXCEPT ![r] = usage[r]]
    BY <1>1 DEF IInv, TypeOK, RunInv, Billed
  <2>2. \E n \in 0 .. 2 : usage' = [usage EXCEPT ![r] = n]
    BY <2>1 DEF HandleException
  <2>5. \E p \in Phases : coro' = [coro EXCEPT ![r] = p]
    BY LeaveForm DEF IInv, HandleException, Phases, Unfinished, MidSlice, Sending, Ended
  <2>3. UNCHANGED frame
    BY DEF HandleException
  <2>4. UNCHANGED lastRun \/ lastRun' = [lastRun EXCEPT ![owner[r]] = r]
    BY LeaveForm DEF IInv, HandleException
  <2> QED BY <1>1, <1>3, <2>2, <2>3, <2>4, <2>5, OneRunType, OneRunSteps
         DEF IInv, TypeOK, TaskStep, HandleException
<1> QED BY <1>4, <1>5, OneRunIInv DEF TaskStep

(* The exception clause marks the run. *)
LEMMA MarkFailedIInv ==
    ASSUME ConstantsAssumption, IInv, NEW r \in RunIds, MarkFailed(r)
    PROVE  IInv'
<1>1. RunInv(r) /\ owner[r] \in Sessions /\ coro[r] = "failing"
    BY AtWork DEF MarkFailed, MidSlice, Sending, Ended, TurnPhases
<1>2. /\ status'[r] = "failed"
      /\ \/ coro'[r] = "erroring" /\ frame'[r] = "error"
         \/ coro'[r] = "returned" /\ frame'[r] = frame[r]
         \/ StoreMayFail /\ coro'[r] = "raised" /\ frame'[r] = frame[r]
    BY SendForm, LeaveForm DEF IInv, TypeOK, MarkFailed
<1>3. UNCHANGED <<created, owner, ledger, usage, cancelReq>>
    BY DEF MarkFailed, files
<1>4. RunInv(r)'
    BY <1>1, <1>2, <1>3
       DEF RunInv, Recorded, Billed, Cancellable, PhaseFits, VerdictFits, FrameFits, BillFits,
           TurnPhases, Unfinished, MidSlice, Sending, Ended, RunStatus
<1>5. TypeOK'
  <2>1. status' = [status EXCEPT ![r] = "failed"] /\ "failed" \in RunStatus
    BY DEF MarkFailed, RunStatus
  <2>2. \E p \in Phases : coro' = [coro EXCEPT ![r] = p]
    BY SendForm, LeaveForm DEF IInv, MarkFailed, Phases, Unfinished, MidSlice, Sending, Ended
  <2>3. UNCHANGED frame \/ frame' = [frame EXCEPT ![r] = "error"]
    BY SendForm, LeaveForm DEF IInv, MarkFailed
  <2>4. UNCHANGED lastRun \/ lastRun' = [lastRun EXCEPT ![owner[r]] = r]
    BY SendForm, LeaveForm DEF IInv, MarkFailed
  <2> QED BY <1>1, <1>3, <2>1, <2>2, <2>3, <2>4, OneRunType, OneRunSteps
         DEF IInv, TypeOK, TaskStep, MarkFailed
<1> QED BY <1>4, <1>5, OneRunIInv DEF TaskStep

(* The cancellation clause of the coroutine. *)
LEMMA TaskCancelledIInv ==
    ASSUME ConstantsAssumption, IInv, NEW r \in RunIds, TaskCancelled(r)
    PROVE  IInv'
<1>1. RunInv(r) /\ owner[r] \in Sessions /\ coro[r] \in {"working", "emitting"}
    BY AtWork DEF TaskCancelled, MidSlice, Sending, Ended, TurnPhases
<1>2. /\ status'[r] = "cancelled" /\ ~cancelReq'[r]
      /\ \/ coro'[r] = "aborting" /\ frame'[r] = "aborted"
         \/ coro'[r] = "cancelled" /\ frame'[r] = frame[r]
         \/ StoreMayFail /\ coro'[r] = "raised" /\ frame'[r] = frame[r]
    BY SendForm, LeaveForm DEF IInv, TypeOK, TaskCancelled
<1>3. UNCHANGED <<created, owner, ledger, usage>>
    BY DEF TaskCancelled, files
<1>4. RunInv(r)'
    BY <1>1, <1>2, <1>3
       DEF RunInv, Recorded, Billed, Cancellable, PhaseFits, VerdictFits, FrameFits, BillFits,
           TurnPhases, Unfinished, MidSlice, Sending, Ended, RunStatus
<1>5. TypeOK'
  <2>1. status' = [status EXCEPT ![r] = "cancelled"] /\ "cancelled" \in RunStatus
    BY DEF TaskCancelled, RunStatus
  <2>2. \E p \in Phases : coro' = [coro EXCEPT ![r] = p]
    BY SendForm, LeaveForm DEF IInv, TaskCancelled, Phases, Unfinished, MidSlice, Sending, Ended
  <2>3. UNCHANGED frame \/ frame' = [frame EXCEPT ![r] = "aborted"]
    BY SendForm, LeaveForm DEF IInv, TaskCancelled
  <2>4. UNCHANGED lastRun \/ lastRun' = [lastRun EXCEPT ![owner[r]] = r]
    BY SendForm, LeaveForm DEF IInv, TaskCancelled
  <2> QED BY <1>1, <1>3, <2>1, <2>2, <2>3, <2>4, OneRunType, OneRunSteps
         DEF IInv, TypeOK, TaskStep, TaskCancelled
<1> QED BY <1>4, <1>5, OneRunIInv DEF TaskStep

(* The send of the closing frame is over. *)
LEMMA SendOverIInv ==
    ASSUME ConstantsAssumption, IInv, NEW r \in RunIds, SendOver(r)
    PROVE  IInv'
<1>1. RunInv(r) /\ owner[r] \in Sessions /\ coro[r] \in Sending /\ ~cancelReq[r]
    BY AtWork DEF SendOver, MidSlice, Sending, Ended, TurnPhases
<1>2. \/ coro'[r] = (IF coro[r] = "aborting" THEN "cancelled" ELSE "returned")
      \/ StoreMayFail /\ coro'[r] = "raised"
    BY LeaveForm DEF IInv, TypeOK, SendOver
<1>3. UNCHANGED <<created, owner, status, ledger, usage, cancelReq, frame>>
    BY DEF SendOver, files
<1>4. RunInv(r)'
    BY <1>1, <1>2, <1>3
       DEF RunInv, Recorded, Billed, Cancellable, PhaseFits, VerdictFits, FrameFits, BillFits,
           TurnPhases, Unfinished, MidSlice, Sending, Ended, RunStatus
<1>5. TypeOK'
  <2>1. UNCHANGED status
    BY DEF SendOver
  <2>2. \E p \in Phases : coro' = [coro EXCEPT ![r] = p]
    BY LeaveForm DEF IInv, SendOver, Phases, Unfinished, MidSlice, Sending, Ended
  <2>3. UNCHANGED frame
    BY DEF SendOver
  <2>4. UNCHANGED lastRun \/ lastRun' = [lastRun EXCEPT ![owner[r]] = r]
    BY LeaveForm DEF IInv, SendOver
  <2> QED BY <1>1, <1>3, <2>1, <2>2, <2>3, <2>4, OneRunType, OneRunSteps
         DEF IInv, TypeOK, TaskStep, SendOver
<1> QED BY <1>4, <1>5, OneRunIInv DEF TaskStep

(* A cancellation hits the send of the closing frame. *)
LEMMA SendCancelledIInv ==
    ASSUME ConstantsAssumption, IInv, NEW r \in RunIds, SendCancelled(r)
    PROVE  IInv'
<1>1. RunInv(r) /\ owner[r] \in Sessions /\ coro[r] \in {"erroring", "aborting"}
    BY AtWork DEF SendCancelled, MidSlice, Sending, Ended, TurnPhases
<1>2. /\ ~cancelReq'[r]
      /\ coro'[r] = "cancelled" \/ (StoreMayFail /\ coro'[r] = "raised")
    BY LeaveForm DEF IInv, TypeOK, SendCancelled
<1>3. UNCHANGED <<created, owner, status, ledger, usage, frame>>
    BY DEF SendCancelled, files
<1>4. RunInv(r)'
    BY <1>1, <1>2, <1>3
       DEF RunInv, Recorded, Billed, Cancellable, PhaseFits, VerdictFits, FrameFits, BillFits,
           TurnPhases, Unfinished, MidSlice, Sending, Ended, RunStatus
<1>5. TypeOK'
  <2>1. UNCHANGED status
    BY DEF SendCancelled
  <2>2. \E p \in Phases : coro' = [coro EXCEPT ![r] = p]
    BY LeaveForm DEF IInv, SendCancelled, Phases, Unfinished, MidSlice, Sending, Ended
  <2>3. UNCHANGED frame
    BY DEF SendCancelled
  <2>4. UNCHANGED lastRun \/ lastRun' = [lastRun EXCEPT ![owner[r]] = r]
    BY LeaveForm DEF IInv, SendCancelled
  <2> QED BY <1>1, <1>3, <2>1, <2>2, <2>3, <2>4, OneRunType, OneRunSteps
         DEF IInv, TypeOK, TaskStep, SendCancelled
<1> QED BY <1>4, <1>5, OneRunIInv DEF TaskStep

(* The ledger writes a task off. *)
LEMMA FinalizeIInv ==
    ASSUME ConstantsAssumption, IInv, NEW r \in RunIds, Finalize(r)
    PROVE  IInv'
<1>1. RunInv(r) /\ owner[r] \in Sessions /\ coro[r] \in Ended
    BY AtWork DEF Finalize, MidSlice, Sending, Ended, TurnPhases
<1>2. /\ coro'[r] = "none"
      /\ coro[r] = "returned" => ledger'[r] = "succeeded"
      /\ coro[r] = "cancelled" => ledger'[r] = "cancelled"
      /\ coro[r] = "raised" => ledger'[r] = "failed"
    BY DEF IInv, TypeOK, Finalize
<1>3. UNCHANGED <<created, owner, status, usage, cancelReq, frame>>
    BY DEF Finalize, files, Leave, Send
<1>4. RunInv(r)'
    BY <1>1, <1>2, <1>3
       DEF RunInv, Recorded, Billed, Cancellable, PhaseFits, VerdictFits, FrameFits, BillFits,
           TurnPhases, Unfinished, MidSlice, Sending, Ended, RunStatus
<1>5. TypeOK'
    BY <1>1, <1>2, OneRunType DEF IInv, TypeOK, Finalize, files, RunInv, Billed, RunStatus, Phases,
       Unfinished, TurnPhases, MidSlice, Sending, Ended, Leave, Send
<1> QED BY <1>4, <1>5, OneRunIInv DEF TaskStep

-----------------------------------------------------------------------------

(* The process crashes and starts again: what is left of a run is what the files say. *)
LEMMA CrashRestartIInv ==
    ASSUME ConstantsAssumption, IInv, CrashRestart
    PROVE  IInv'
<1>1. TypeOK'
  <2>1. /\ status' \in [RunIds -> RunStatus \cup {"absent"}]
        /\ owner' \in [RunIds -> Sessions \cup {None}]
        /\ ledger' \in [RunIds -> RunStatus \cup {"absent"}]
    BY DEF IInv, TypeOK, CrashRestart, RunsSurvive, RunsTorn, NoRecord, NoOwner
  <2>2. lastRun' \in [Sessions -> RunIds \cup {None}]
    <3>1. CASE lastRun' \in {lastRun, NoLast}
      BY <3>1 DEF IInv, TypeOK, NoLast
    <3>2. ASSUME NEW a \in Actors, actor[a].pc = "creating",
                 lastRun' = [lastRun EXCEPT ![actor[a].session] = actor[a].run]
          PROVE  lastRun' \in [Sessions -> RunIds \cup {None}]
      BY <3>2 DEF IInv, TypeOK, Idle
    <3> QED BY <3>1, <3>2 DEF CrashRestart, LastRunsAfter
  <2>3. checkpoint' \in [Sessions -> BOOLEAN]
    <3>1. ASSUME NEW s, checkpoint' = [checkpoint EXCEPT ![s] = FALSE]
          PROVE  checkpoint' \in [Sessions -> BOOLEAN]
      BY <3>1 DEF IInv, TypeOK
    <3>2. checkpoint' = checkpoint \/ \E s : checkpoint' = [checkpoint EXCEPT ![s] = FALSE]
      BY DEF CrashRestart, CheckpointsAfter
    <3> QED BY <3>1, <3>2 DEF IInv, TypeOK
  <2>4. /\ created' = created /\ surface' = surface /\ usage' = usage /\ frame' = frame
        /\ coro' = [r \in RunIds |-> "none"] /\ watched' = {}
        /\ cancelReq' = [r \in RunIds |-> FALSE] /\ bound' = NoLast
        /\ actor' = [a \in Actors |-> Idle] /\ resume' \in SUBSET Reach[Daemon]
        /\ crashes' \in 0 .. MaxCrashes
    BY DEF IInv, TypeOK, CrashRestart, ConstantsAssumption
  <2>5. Reach[Daemon] \subseteq Sessions
    BY DEF ConstantsAssumption
  <2> QED BY <2>1, <2>2, <2>3, <2>4, <2>5 DEF IInv, TypeOK, NoLast, Phases
<1>2. ASSUME NEW r \in RunIds PROVE RunInv(r)'
  <2>1. RunInv(r)
    BY RunsOfIInv
  <2>2. /\ UNCHANGED <<status[r], owner[r]>> \/ (status'[r] = "absent" /\ owner'[r] = None)
        /\ ledger'[r] \in {ledger[r], "absent"}
        /\ coro'[r] = "none" /\ ~cancelReq'[r] /\ UNCHANGED <<created, usage, frame>>
    BY DEF CrashRestart, RunsSurvive, RunsTorn, NoRecord, NoOwner
  <2> QED BY <2>1, <2>2
         DEF RunInv, Recorded, Billed, Cancellable, PhaseFits, VerdictFits, FrameFits, BillFits,
             TurnPhases
<1>3. SliceInv'
    BY DEF CrashRestart, SliceInv, Idle
<1> QED BY <1>1, <1>2, <1>3, IInvAfter

LEMMA NextIInv ==
    ASSUME ConstantsAssumption, IInv, [Next]_vars
    PROVE  IInv'
<1>1. ASSUME NEW c \in Clients, NEW s \in Sessions, RunStart(c, s) PROVE IInv'
  <2>1. resume' \in SUBSET Sessions /\ UNCHANGED <<frame, crashes>> /\ StartRun(c, s)
    BY <1>1 DEF RunStart, IInv, TypeOK
  <2> QED BY <2>1, StartRunIInv
<1>2. ASSUME NEW c \in Clients, NEW r \in RunIds, AbortRun(c, r) PROVE IInv'
    BY <1>2, AbortRunIInv
<1>3. ASSUME NEW s \in Sessions, DispatchSensorEvent(s) PROVE IInv'
  <2>1. resume' \in SUBSET Sessions /\ UNCHANGED <<frame, crashes>> /\ StartRun(Daemon, s)
    BY <1>3 DEF DispatchSensorEvent, Dispatch, IInv, TypeOK
  <2> QED BY <2>1, StartRunIInv
<1>4. CASE CrashRestart
    BY <1>4, CrashRestartIInv
<1>5. ASSUME NEW a \in Actors, ActorStep(a) PROVE IInv'
    BY <1>5, CreateAfterWaitIInv, RefuseAfterWaitIInv, CreateRaisesIInv, RegisterTaskIInv
       DEF ActorStep
<1>6. ASSUME NEW r \in RunIds, CancelLost(r) \/ TaskStep(r) PROVE IInv'
    BY <1>6, CancelLostIInv, TaskStartIInv, CancelUnstartedIInv, TurnFinishedIInv,
       TurnRaisedIInv, MarkSucceededIInv, RecordUsageIInv, HandleExceptionIInv, MarkFailedIInv,
       TaskCancelledIInv, SendOverIInv, SendCancelledIInv, FinalizeIInv
       DEF TaskStep
<1>7. ASSUME NEW s \in Sessions, HandleResume(s) PROVE IInv'
    BY <1>7, HandleResumeIInv
<1>8. CASE UNCHANGED vars
    BY <1>8, IdleStepIInv DEF vars, memory, IInv, TypeOK
<1> QED BY <1>1, <1>2, <1>3, <1>4, <1>5, <1>6, <1>7, <1>8 DEF Next, Environment

(* The inductive invariant of the run lifecycle. *)
THEOREM InductiveInvariant == Spec => []IInv
<1>1. Init => IInv
    BY ConstantsAssumption, InitIInv
<1>2. IInv /\ [Next]_vars => IInv'
    BY ConstantsAssumption, NextIInv
<1> QED BY <1>1, <1>2, PTL DEF Spec

(* Types of all variables, in every reachable state. *)
THEOREM TypeCorrect == Spec => []TypeOK
BY InductiveInvariant, PTL DEF IInv

(* The phase of a live task determines its run record, whichever calls on the stores      *)
(* raise (_execute).                                                                      *)
THEOREM PhaseCorrect == Spec => []PhaseMatchesStatus
BY InductiveInvariant, PTL DEF IInv

(* What a verdict of the task ledger says about the run record, as long as neither file   *)
(* is lost (TaskLedger._finalize).                                                        *)
THEOREM LedgerCorrect == Spec => []LedgerVerdict
BY InductiveInvariant, PTL DEF IInv

(* The last closing frame that went out agrees with the run record, but for a success     *)
(* that a cancellation withdrew while it was being sent (emit_stream_done).               *)
THEOREM FrameCorrect == Spec => []FrameMatchesRecord
BY InductiveInvariant, PTL DEF IInv

(* Only a run on its way from success to failure is billed twice (record_usage).          *)
THEOREM BillingCorrect == Spec => []BilledAtMostOnce
BY InductiveInvariant, PTL DEF IInv

(* No step marks a failed or cancelled run, or a run without a task at work: all that     *)
(* happens to its record is that a crash loses the whole file.                            *)
THEOREM MarksAreFinal == Spec => TerminalMarkIsFinal
<1> DEFINE Final == \A r \in RunIds :
          (status[r] \in {"failed", "cancelled"} \/ (created >= r /\ coro[r] \notin Unfinished))
              => status'[r] = status[r] \/ status' = NoRecord
<1>1. ASSUME IInv, [Next]_vars PROVE [Final]_vars
  <2> SUFFICES ASSUME Next PROVE Final
    BY <1>1
  <2> USE <1>1
  <2>1. ASSUME NEW a \in Actors, NEW s \in Sessions, CreateRun(a, s) PROVE Final
    BY <2>1 DEF CreateRun, IInv, TypeOK, RecordsInv, Recorded
  <2>2. ASSUME NEW a \in Actors, NEW s \in Sessions, StartRun(a, s) PROVE Final
    BY <2>1, <2>2 DEF StartRun, StartAtOnce, StartAfterAbort, files
  <2>3. ASSUME NEW a \in Actors, ActorStep(a) PROVE Final
    <3>1. CASE CreateAfterWait(a)
      <4>1. actor[a].pc = "waiting" /\ CreateRun(a, actor[a].session)
        BY <3>1 DEF CreateAfterWait, WaitOver
      <4>2. actor[a].session \in Sessions
        BY <4>1 DEF IInv, TypeOK, Idle
      <4> QED BY <2>1, <4>1, <4>2
    <3>2. CASE RefuseAfterWait(a) \/ CreateRaises(a) \/ RegisterTask(a)
      BY <3>2 DEF RefuseAfterWait, CreateRaises, RegisterTask, files
    <3> QED BY <2>3, <3>1, <3>2 DEF ActorStep
  <2>4. ASSUME NEW r \in RunIds, TaskStep(r) PROVE Final
    <3>1. CASE MarkSucceeded(r) \/ MarkFailed(r) \/ TaskCancelled(r)
      <4>1. coro[r] \in {"finishing", "failing", "working", "emitting"}
        BY <3>1 DEF MarkSucceeded, MarkFailed, TaskCancelled
      <4>2. status[r] \notin {"failed", "cancelled"} /\ coro[r] \in Unfinished
        BY <4>1
           DEF IInv, PhaseMatchesStatus, PhaseFits, Unfinished, TurnPhases, MidSlice, Sending
      <4> QED BY <2>4, <4>2, OneRunSteps
    <3>2. CASE UNCHANGED status
      BY <3>2
    <3> QED BY <2>4, <3>1, <3>2
           DEF TaskStep, TaskStart, CancelUnstarted, TurnFinished, TurnRaised, RecordUsage,
               HandleException, SendOver, SendCancelled, Finalize, files
  <2>5. ASSUME NEW s \in Sessions, HandleResume(s) PROVE Final
    BY <2>2, <2>5 DEF HandleResume, Dispatch, files
  <2>6. CASE CrashRestart
    BY <2>6 DEF CrashRestart, RunsSurvive, RunsTorn
  <2>7. CASE Environment
    BY <2>2, <2>6, <2>7
       DEF Environment, RunStart, AbortRun, DispatchSensorEvent, Dispatch, CancelLost, files
  <2> HIDE DEF Final
  <2> QED BY <2>3, <2>4, <2>5, <2>7 DEF Next
<1> QED BY <1>1, InductiveInvariant, PTL DEF Spec, TerminalMarkIsFinal

-----------------------------------------------------------------------------
(* Sessions apart: one turn at a time. *)

\* TurnInv holds where each session has one caller and no wait times out.
ApartInv == Exclusive /\ ~WaitMayTimeOut => TurnInv

(* Steps that start no turn and leave the callers and the agents alone. *)
LEMMA QuietStepTurnInv ==
    ASSUME IInv, TurnInv, UNCHANGED <<owner, bound, checkpoint, actor>>,
           \A r \in RunIds : coro'[r] \in TurnPhases => coro'[r] = coro[r]
    PROVE  TurnInv'
BY DEF TurnInv, TurnPhases

(* Before a run is created no turn of its session is left. *)
LEMMA NoTurnLeft ==
    ASSUME IInv, TurnInv, NEW s \in Sessions,
           \A r \in RunIds : IsLatestRunning(s, r) => coro[r] \notin Unfinished
    PROVE  \A q \in RunIds : owner[q] = s => coro[q] \notin TurnPhases
<1> SUFFICES ASSUME NEW q \in RunIds, owner[q] = s, coro[q] \in TurnPhases
             PROVE  FALSE
    OBVIOUS
<1>1. status[q] = "running" /\ coro[q] \in Unfinished
    BY DEF IInv, PhaseMatchesStatus, PhaseFits, Unfinished
<1>2. IsLatestRunning(s, q)
    BY <1>1 DEF IsLatestRunning, RunningIn, TurnInv
<1> QED BY <1>1, <1>2

LEMMA CreateRunTurnInv ==
    ASSUME ConstantsAssumption, Exclusive, IInv, TurnInv, LoopFree,
           NEW a \in Actors, NEW s \in Reach[a], CreateRun(a, s),
           \A q \in RunIds : owner[q] = s => coro[q] \notin TurnPhases
    PROVE  TurnInv'
<1> DEFINE r == created + 1
<1> USE DEF IInv, TypeOK
<1>1. r \in RunIds /\ s \in Sessions /\ coro[r] = "none"
    BY DEF CreateRun, RecordsInv, Recorded
<1>2. /\ owner' = [owner EXCEPT ![r] = s]
      /\ bound' = [bound EXCEPT ![s] = None]
      /\ actor' = [actor EXCEPT ![a] = [pc |-> "creating", session |-> s, run |-> r]]
      /\ UNCHANGED <<coro, checkpoint>>
    BY DEF CreateRun
<1>3. ASSUME NEW b \in Actors, b # a
      PROVE  /\ actor'[b] = actor[b]
             /\ actor[b].pc # "creating"
             /\ actor[b].pc = "waiting" => actor[b].session # s
  <2>1. actor'[b] = actor[b]
    BY <1>2, <1>3
  <2>2. actor[b].pc # "creating"
    BY DEF LoopFree
  <2>3. s \notin Reach[b]
    BY <1>3 DEF Exclusive
  <2>4. actor[b].pc = "waiting" => actor[b].session \in Reach[b]
    BY DEF TurnInv
  <2> QED BY <2>1, <2>2, <2>3, <2>4
<1>4. \A q \in RunIds : coro'[q] \in TurnPhases =>
         /\ coro[q] \in TurnPhases /\ q # r /\ owner'[q] = owner[q] /\ owner[q] # s
    BY <1>1, <1>2 DEF TurnPhases
<1>5. \A b \in Actors :
         /\ actor'[b].pc # "idle" => actor'[b].session \in Reach[b]
         /\ actor'[b].pc = "waiting" =>
               \A q \in RunIds : coro'[q] \in TurnPhases /\ owner'[q] = actor'[b].session
                                     => q = actor'[b].run
         /\ actor'[b].pc = "creating" =>
               \A q \in RunIds : owner'[q] = actor'[b].session => coro'[q] \notin TurnPhases
  <2> SUFFICES ASSUME NEW b \in Actors
               PROVE  <1>5!(b)
    OBVIOUS
  <2>1. CASE b = a
    BY <1>2, <1>4, <2>1
  <2>2. CASE b # a
    <3>1. actor'[b] = actor[b] /\ actor[b].pc # "creating"
      BY <1>3, <2>2
    <3>2. actor[b].pc # "idle" => actor[b].session \in Reach[b]
      BY DEF TurnInv
    <3>3. ASSUME actor[b].pc = "waiting", NEW q \in RunIds, coro'[q] \in TurnPhases,
                 owner'[q] = actor[b].session
          PROVE  q = actor[b].run
      <4>1. coro[q] \in TurnPhases /\ owner[q] = actor[b].session
        BY <1>4, <3>3
      <4> QED BY <3>3, <4>1 DEF TurnInv
    <3> QED BY <3>1, <3>2, <3>3
  <2> QED BY <2>1, <2>2
<1>6. \A p \in RunIds :
         /\ coro'[p] \in TurnPhases => \A q \in RunIds : owner'[q] = owner'[p] => q <= p
         /\ coro'[p] \in {"scheduled", "working"} => bound'[owner'[p]] = p
         /\ coro'[p] = "working" => checkpoint'[owner'[p]]
    BY <1>2, <1>4 DEF TurnInv, TurnPhases, RecordsInv, Recorded
<1> QED BY <1>5, <1>6 DEF TurnInv

(* start_run up to its first await. *)
LEMMA StartRunTurnInv ==
    ASSUME ConstantsAssumption, Exclusive, IInv, TurnInv,
           NEW a \in Actors, NEW s \in Sessions, StartRun(a, s)
    PROVE  TurnInv'
<1> USE DEF IInv, TypeOK
<1>1. LoopFree /\ s \in Reach[a]
    BY DEF StartRun
<1>2. CASE StartAtOnce(a, s)
    BY <1>1, <1>2, NoTurnLeft, CreateRunTurnInv DEF StartAtOnce
<1>3. ASSUME StartAfterAbort(a, s) PROVE TurnInv'
  <2>1. PICK r \in RunIds :
           /\ IsLatestRunning(s, r)
           /\ actor' = [actor EXCEPT ![a] = [pc |-> "waiting", session |-> s, run |-> r]]
           /\ UNCHANGED <<owner, bound, checkpoint, coro>>
    BY <1>3 DEF StartAfterAbort, files
  <2>2. \A q \in RunIds : coro[q] \in TurnPhases /\ owner[q] = s => q = r
    <3> SUFFICES ASSUME NEW q \in RunIds, coro[q] \in TurnPhases, owner[q] = s
                 PROVE  q = r
      OBVIOUS
    <3>1. q \in RunningIn(s) /\ r \in RunningIn(s)
      BY <2>1 DEF IsLatestRunning, RunningIn, PhaseMatchesStatus, PhaseFits, TurnPhases
    <3>2. q <= r /\ r <= q
      BY <2>1, <3>1 DEF IsLatestRunning, RunningIn, TurnInv
    <3> QED BY <3>2
  <2> QED BY <1>1, <2>1, <2>2 DEF TurnInv
<1> QED BY <1>2, <1>3 DEF StartRun

(* The wait is over because the awaited task is gone. *)
LEMMA CreateAfterWaitTurnInv ==
    ASSUME ConstantsAssumption, Exclusive, ~WaitMayTimeOut, IInv, TurnInv,
           NEW a \in Actors, CreateAfterWait(a)
    PROVE  TurnInv'
<1> DEFINE s == actor[a].session
<1>1. LoopFree /\ actor[a].pc = "waiting" /\ coro[actor[a].run] \notin TurnPhases /\ CreateRun(a, s)
    BY DEF CreateAfterWait, WaitOver, WrittenOff, Ended, TurnPhases
<1>2. s \in Reach[a]
    BY <1>1 DEF TurnInv
<1>3. \A q \in RunIds : owner[q] = s => coro[q] \notin TurnPhases
    BY <1>1 DEF TurnInv, TurnPhases
<1> QED BY <1>1, <1>2, <1>3, CreateRunTurnInv

LEMMA RefuseAfterWaitTurnInv ==
    ASSUME IInv, TurnInv, NEW a \in Actors, RefuseAfterWait(a)
    PROVE  TurnInv'
<1>1. /\ actor' = [actor EXCEPT ![a] = Idle]
      /\ UNCHANGED <<owner, bound, checkpoint, coro>>
    BY DEF RefuseAfterWait, files
<1> QED BY <1>1 DEF TurnInv, Idle

LEMMA CreateRaisesTurnInv ==
    ASSUME IInv, TurnInv, NEW a \in Actors, CreateRaises(a)
    PROVE  TurnInv'
<1>1. /\ actor' = [actor EXCEPT ![a] = Idle]
      /\ UNCHANGED <<owner, bound, checkpoint, coro>>
    BY DEF CreateRaises
<1> QED BY <1>1 DEF TurnInv, Idle

LEMMA RegisterTaskTurnInv ==
    ASSUME ConstantsAssumption, Exclusive, IInv, TurnInv, NEW a \in Actors, RegisterTask(a)
    PROVE  TurnInv'
<1> DEFINE r == actor[a].run
<1> DEFINE s == actor[a].session
<1> USE DEF IInv, TypeOK
<1>1. /\ actor[a].pc = "creating"
      /\ coro' = [coro EXCEPT ![r] = "scheduled"]
      /\ actor' = [actor EXCEPT ![a] = Idle]
      /\ bound' = [bound EXCEPT ![s] = r]
      /\ UNCHANGED <<owner, checkpoint>>
    BY DEF RegisterTask
<1>2. r \in RunIds /\ r = created /\ owner[r] = s /\ s \in Sessions
    BY <1>1 DEF SliceInv, TurnInv, Idle
<1>3. \A q \in RunIds : owner[q] = s => q <= r /\ coro[q] \notin TurnPhases
    BY <1>1, <1>2 DEF RecordsInv, Recorded, TurnInv
<1>4. ASSUME NEW b \in Actors, b # a
      PROVE  actor'[b] = actor[b] /\ actor[b].pc # "creating"
    BY <1>1, <1>4 DEF SliceInv
<1>5. ASSUME NEW b \in Actors, b # a, actor[b].pc = "waiting"
      PROVE  actor[b].session # s
  <2>1. s \in Reach[a] /\ actor[b].session \in Reach[b]
    BY <1>1, <1>5 DEF TurnInv
  <2> QED BY <1>5, <2>1 DEF Exclusive
<1>6. ASSUME NEW b \in Actors
      PROVE  /\ actor'[b].pc # "idle" => actor'[b].session \in Reach[b]
             /\ actor'[b].pc = "waiting" =>
                   \A q \in RunIds : coro'[q] \in TurnPhases /\ owner'[q] = actor'[b].session
                                         => q = actor'[b].run
             /\ actor'[b].pc # "creating"
  <2>1. CASE b = a
    BY <1>1, <2>1 DEF Idle
  <2>2. CASE b # a
    <3>1. actor'[b] = actor[b] /\ actor[b].pc # "creating"
      BY <1>4, <2>2
    <3>2. actor[b].pc # "idle" => actor[b].session \in Reach[b]
      BY DEF TurnInv
    <3>3. ASSUME actor[b].pc = "waiting", NEW q \in RunIds, coro'[q] \in TurnPhases,
                 owner'[q] = actor[b].session
          PROVE  q = actor[b].run
      <4>1. q # r
        BY <1>1, <1>2, <1>5, <3>3
      <4>2. coro[q] \in TurnPhases /\ owner[q] = actor[b].session
        BY <1>1, <3>3, <4>1
      <4> QED BY <3>3, <4>2 DEF TurnInv
    <3> QED BY <3>1, <3>2, <3>3
  <2> QED BY <2>1, <2>2
<1>7. ASSUME NEW p \in RunIds
      PROVE  /\ coro'[p] \in TurnPhases => \A q \in RunIds : owner'[q] = owner'[p] => q <= p
             /\ coro'[p] \in {"scheduled", "working"} => bound'[owner'[p]] = p
             /\ coro'[p] = "working" => checkpoint'[owner'[p]]
  <2>1. CASE p = r
    BY <1>1, <1>2, <1>3, <2>1
  <2>2. CASE p # r
    <3>1. coro'[p] = coro[p]
      BY <1>1, <2>2
    <3>2. coro[p] \in TurnPhases => bound'[owner[p]] = bound[owner[p]]
      BY <1>1, <1>3
    <3> QED BY <1>1, <3>1, <3>2 DEF TurnInv, TurnPhases
  <2> QED BY <2>1, <2>2
<1> QED BY <1>6, <1>7 DEF TurnInv

(* The steps of a task that change its phase and the agent of its session. *)
LEMMA TaskStartTurnInv ==
    ASSUME IInv, TurnInv, NEW r \in RunIds, TaskStart(r)
    PROVE  TurnInv'
<1>1. /\ coro[r] = "scheduled"
      /\ \/ /\ coro' = [coro EXCEPT ![r] = "working"]
            /\ checkpoint' = [checkpoint EXCEPT ![owner[r]] = TRUE]
         \/ /\ coro' \in {[coro EXCEPT ![r] = "raised"], [coro EXCEPT ![r] = "excepting"]}
            /\ UNCHANGED checkpoint
      /\ UNCHANGED <<owner, bound, actor>>
    BY DEF TaskStart
<1> USE DEF IInv, TypeOK
<1>2. \A q \in RunIds : coro'[q] \in TurnPhases => coro[q] \in TurnPhases
    BY <1>1 DEF TurnPhases
<1>3. \A q \in RunIds : q # r => coro'[q] = coro[q]
    BY <1>1
<1>4. ASSUME NEW a \in Actors, actor[a].pc = "creating", NEW q \in RunIds,
             owner[q] = actor[a].session
      PROVE  coro'[q] \notin TurnPhases
    BY <1>2, <1>4 DEF TurnInv
<1>5. owner[r] \in Sessions /\ bound[owner[r]] = r
    BY <1>1 DEF RecordsInv, Recorded, TurnInv
<1>6. ASSUME NEW p \in RunIds, coro'[p] = "working" PROVE checkpoint'[owner[p]]
  <2>1. CASE p = r
    BY <1>1, <1>5, <1>6, <2>1
  <2>2. CASE p # r
    <3>1. coro[p] = "working" /\ checkpoint[owner[p]] /\ owner[p] \in Sessions
      BY <1>3, <1>6, <2>2 DEF TurnInv, RecordsInv, Recorded
    <3> QED BY <1>1, <3>1
  <2> QED BY <2>1, <2>2
<1>7. \A p \in RunIds : coro'[p] \in {"scheduled", "working"} => bound[owner[p]] = p
    BY <1>3, <1>5 DEF TurnInv
<1> QED BY <1>1, <1>2, <1>4, <1>6, <1>7 DEF TurnInv

LEMMA TurnFinishedTurnInv ==
    ASSUME ConstantsAssumption, IInv, TurnInv, NEW r \in RunIds, TurnFinished(r)
    PROVE  TurnInv'
<1>1. /\ LoopFree /\ coro[r] = "working"
      /\ coro' = [coro EXCEPT ![r] = "finishing"]
      /\ checkpoint' = [checkpoint EXCEPT ![owner[r]] = FALSE]
      /\ bound' = [bound EXCEPT ![owner[r]] = None]
      /\ UNCHANGED <<owner, actor>>
    BY DEF TurnFinished
<1> USE DEF IInv, TypeOK
<1>2. \A q \in RunIds : coro'[q] \in TurnPhases => coro[q] \in TurnPhases
    BY <1>1 DEF TurnPhases
<1>3. \A a \in Actors : actor[a].pc # "creating"
    BY <1>1 DEF LoopFree
<1>4. ASSUME NEW p \in RunIds, coro'[p] \in {"scheduled", "working"}
      PROVE  coro[p] = coro'[p] /\ owner[p] # owner[r]
  <2>1. p # r /\ coro[p] = coro'[p]
    BY <1>1, <1>4
  <2>2. bound[owner[p]] = p /\ bound[owner[r]] = r
    BY <1>1, <1>4 DEF TurnInv
  <2> QED BY <2>1, <2>2
<1>5. \A p \in RunIds : coro'[p] \in {"scheduled", "working"} =>
         bound'[owner[p]] = bound[owner[p]] /\ checkpoint'[owner[p]] = checkpoint[owner[p]]
  <2> SUFFICES ASSUME NEW p \in RunIds, coro'[p] \in {"scheduled", "working"}
               PROVE  /\ bound'[owner[p]] = bound[owner[p]]
                      /\ checkpoint'[owner[p]] = checkpoint[owner[p]]
    OBVIOUS
  <2>1. coro[p] # "none" /\ owner[p] # owner[r]
    BY <1>4
  <2>2. owner[p] \in Sessions
    BY <2>1 DEF RecordsInv, Recorded
  <2> QED BY <1>1, <2>1
<1> QED BY <1>1, <1>2, <1>3, <1>5 DEF TurnInv

LEMMA CrashRestartTurnInv ==
    ASSUME IInv, CrashRestart
    PROVE  TurnInv'
BY DEF CrashRestart, TurnInv, TurnPhases, Idle

LEMMA TaskStepTurnInv ==
    ASSUME ConstantsAssumption, IInv, TurnInv, NEW r \in RunIds, TaskStep(r) \/ CancelLost(r)
    PROVE  TurnInv'
<1> USE DEF IInv, TypeOK
<1>1. CASE TaskStart(r)
    BY <1>1, TaskStartTurnInv
<1>2. CASE TurnFinished(r)
    BY <1>2, TurnFinishedTurnInv
<1>3. ASSUME ~TaskStart(r), ~TurnFinished(r) PROVE TurnInv'
  <2>1. UNCHANGED <<owner, bound, checkpoint, actor>>
    BY <1>3
       DEF TaskStep, CancelLost, CancelUnstarted, TurnRaised, MarkSucceeded, RecordUsage,
           HandleException, MarkFailed, TaskCancelled, SendOver, SendCancelled, Finalize, files
  <2>2. coro'[r] \in TurnPhases => coro'[r] = coro[r]
    <3>1. CASE CancelUnstarted(r) \/ CancelLost(r) \/ TurnRaised(r) \/ MarkSucceeded(r) \/ Finalize(r)
      BY <3>1
         DEF CancelUnstarted, CancelLost, TurnRaised, MarkSucceeded, Finalize, TurnPhases
    <3>2. CASE \/ RecordUsage(r) \/ HandleException(r) \/ MarkFailed(r) \/ TaskCancelled(r)
               \/ SendOver(r) \/ SendCancelled(r)
      BY <3>2, SendForm, LeaveForm
         DEF RecordUsage, HandleException, MarkFailed, TaskCancelled, SendOver, SendCancelled,
             TurnPhases, Ended
    <3> QED BY <1>3, <3>1, <3>2 DEF TaskStep
  <2>3. \A q \in RunIds : q # r => coro'[q] = coro[q]
    BY OneRunSteps
  <2> QED BY <2>1, <2>2, <2>3, QuietStepTurnInv
<1> QED BY <1>1, <1>2, <1>3

LEMMA NextTurnInv ==
    ASSUME ConstantsAssumption, Exclusive, ~WaitMayTimeOut, IInv, TurnInv, [Next]_vars
    PROVE  TurnInv'
<1>1. ASSUME NEW a \in Actors, NEW s \in Sessions, StartRun(a, s) PROVE TurnInv'
    BY <1>1, StartRunTurnInv
<1>2. ASSUME NEW c \in Clients, NEW r \in RunIds, AbortRun(c, r) PROVE TurnInv'
    BY <1>2, QuietStepTurnInv DEF AbortRun, files
<1>3. ASSUME NEW a \in Actors, ActorStep(a) PROVE TurnInv'
    BY <1>3, CreateAfterWaitTurnInv, RefuseAfterWaitTurnInv, CreateRaisesTurnInv,
       RegisterTaskTurnInv DEF ActorStep
<1>4. ASSUME NEW r \in RunIds, TaskStep(r) \/ CancelLost(r) PROVE TurnInv'
    BY <1>4, TaskStepTurnInv
<1>5. CASE CrashRestart
    BY <1>5, CrashRestartTurnInv
<1>6. CASE Environment
    BY <1>1, <1>2, <1>4, <1>5, <1>6 DEF Environment, RunStart, DispatchSensorEvent, Dispatch
<1>7. ASSUME NEW s \in Sessions, HandleResume(s) PROVE TurnInv'
    BY <1>1, <1>7, QuietStepTurnInv DEF HandleResume, Dispatch, files
<1>8. CASE UNCHANGED vars
    BY <1>8, QuietStepTurnInv DEF vars, files, memory
<1> QED BY <1>3, <1>4, <1>6, <1>7, <1>8 DEF Next

(* Where each session has one caller and no wait times out, TurnInv always holds. *)
THEOREM ApartInvariant == Spec => []ApartInv
<1>1. Init => ApartInv
    BY DEF Init, ApartInv, TurnInv, TurnPhases, Idle
<1>2. IInv /\ ApartInv /\ [Next]_vars => ApartInv'
    BY ConstantsAssumption, NextTurnInv DEF ApartInv
<1> QED BY <1>1, <1>2, InductiveInvariant, PTL DEF Spec

(* Then the shared agent of a session works for one run at a time (start_run). *)
THEOREM OneTurnAtATime == Spec => []OneTurnPerSession
<1>1. IInv /\ ApartInv => OneTurnPerSession
  <2> SUFFICES ASSUME IInv, TurnInv, NEW q \in RunIds, NEW r \in RunIds,
                      coro[q] \in TurnPhases, coro[r] \in TurnPhases, owner[q] = owner[r]
               PROVE  q = r
    BY DEF ApartInv, OneTurnPerSession
  <2>1. q <= r /\ r <= q
    BY DEF TurnInv
  <2> QED BY <2>1
<1> QED BY <1>1, InductiveInvariant, ApartInvariant, PTL

(* And the turn under way owns the agent and its checkpoint (_finalize_turn). *)
THEOREM AgentOwned == Spec => []TurnOwnsAgent
<1>1. ApartInv => TurnOwnsAgent
    BY DEF ApartInv, TurnInv, TurnOwnsAgent
<1> QED BY <1>1, ApartInvariant, PTL

-----------------------------------------------------------------------------
(* The capacity of the coordinator. *)

LEMMA DaemonRunsFinite ==
    ASSUME ConstantsAssumption
    PROVE  IsFiniteSet(DaemonRuns) /\ Cardinality(DaemonRuns) \in Nat
<1>1. IsFiniteSet(RunIds)
    BY FS_Interval
<1>2. IsFiniteSet(DaemonRuns)
    BY <1>1, FS_Subset DEF DaemonRuns
<1> QED BY <1>2, FS_CardinalityType

(* A step that starts no autonomous run. *)
LEMMA FewerDaemonRuns ==
    ASSUME ConstantsAssumption, CapacityInv, DaemonRuns' \subseteq DaemonRuns,
           actor'[Daemon].pc = "waiting" => actor[Daemon].pc = "waiting"
    PROVE  CapacityInv'
<1>1. /\ IsFiniteSet(DaemonRuns) /\ Cardinality(DaemonRuns) \in Nat
      /\ IsFiniteSet(DaemonRuns') /\ Cardinality(DaemonRuns') \in Nat
  <2>1. IsFiniteSet(DaemonRuns) /\ Cardinality(DaemonRuns) \in Nat
    BY DaemonRunsFinite
  <2>2. IsFiniteSet(DaemonRuns')
    BY <2>1, FS_Subset
  <2> QED BY <2>1, <2>2, FS_CardinalityType
<1>2. Cardinality(DaemonRuns') <= Cardinality(DaemonRuns)
    BY <1>1, FS_Subset
<1> QED BY <1>1, <1>2 DEF CapacityInv, DaemonWithinCapacity, DaemonNeverPreempts

LEMMA ClientCreatesCapacity ==
    ASSUME ConstantsAssumption, IInv, CapacityInv,
           NEW a \in Clients, NEW s \in Sessions, CreateRun(a, s)
    PROVE  CapacityInv'
<1> USE DEF IInv, TypeOK, CreateRun
<1>1. DaemonRuns' \subseteq DaemonRuns
    BY DEF DaemonRuns
<1>2. actor'[Daemon] = actor[Daemon]
    OBVIOUS
<1> QED BY <1>1, FewerDaemonRuns

LEMMA DaemonCreatesCapacity ==
    ASSUME ConstantsAssumption, IInv, CapacityInv,
           NEW s \in Sessions, CreateRun(Daemon, s),
           Cardinality(DaemonRuns) < MaxConcurrent
    PROVE  CapacityInv'
<1> DEFINE r == created + 1
<1> USE DEF IInv, TypeOK, CreateRun
<1>1. r \in RunIds /\ status[r] = "absent"
    BY DEF RecordsInv, Recorded
<1>2. DaemonRuns' = DaemonRuns \cup {r} /\ r \notin DaemonRuns
    BY <1>1 DEF DaemonRuns
<1>3. Cardinality(DaemonRuns') = Cardinality(DaemonRuns) + 1
    BY <1>2, DaemonRunsFinite, FS_AddElement
<1>4. actor'[Daemon].pc = "creating"
    OBVIOUS
<1> HIDE DEF CreateRun
<1> QED BY <1>3, <1>4, DaemonRunsFinite
       DEF CapacityInv, DaemonWithinCapacity, DaemonNeverPreempts

(* The guard of the coordinator, and what it leaves of start_run. *)
LEMMA RoomBeforeDispatch ==
    ASSUME ConstantsAssumption, HasDispatchCapacity
    PROVE  /\ Cardinality(DaemonRuns) < MaxConcurrent
           /\ MaxConcurrent = 1 => \A s \in Sessions : ~StartAfterAbort(Daemon, s)
<1> DEFINE Run == {r \in RunIds : status[r] = "running"}
<1>1. IsFiniteSet(Run) /\ Cardinality(Run) \in Nat
  <2>1. IsFiniteSet(RunIds)
    BY FS_Interval
  <2>2. IsFiniteSet(Run)
    BY <2>1, FS_Subset
  <2> QED BY <2>2, FS_CardinalityType
<1>2. Cardinality(DaemonRuns) <= Cardinality(Run)
    BY <1>1, FS_Subset DEF DaemonRuns
<1>3. Cardinality(Run) < MaxConcurrent
    BY DEF HasDispatchCapacity
<1>4. ASSUME MaxConcurrent = 1, NEW s \in Sessions, StartAfterAbort(Daemon, s) PROVE FALSE
  <2>1. Cardinality(Run) = 0
    BY <1>1, <1>3, <1>4
  <2>2. Run = {}
    BY <1>1, <2>1, FS_EmptySet
  <2>3. PICK r \in RunIds : IsLatestRunning(s, r)
    BY <1>4 DEF StartAfterAbort
  <2> QED BY <2>2, <2>3 DEF IsLatestRunning, RunningIn
<1> QED BY <1>1, <1>2, <1>3, <1>4, DaemonRunsFinite

LEMMA DispatchCapacity ==
    ASSUME ConstantsAssumption, IInv, CapacityInv, NEW s \in Sessions, Dispatch(s)
    PROVE  CapacityInv'
<1>1. HasDispatchCapacity /\ StartRun(Daemon, s)
    BY DEF Dispatch
<1>2. Cardinality(DaemonRuns) < MaxConcurrent
    BY <1>1, RoomBeforeDispatch
<1>3. CASE StartAtOnce(Daemon, s)
    BY <1>2, <1>3, DaemonCreatesCapacity DEF StartAtOnce
<1>4. CASE StartAfterAbort(Daemon, s)
  <2>1. MaxConcurrent # 1
    BY <1>1, <1>4, RoomBeforeDispatch
  <2>2. DaemonRuns' = DaemonRuns
    BY <1>4 DEF StartAfterAbort, files, DaemonRuns
  <2> QED BY <1>2, <2>1, <2>2 DEF CapacityInv, DaemonWithinCapacity, DaemonNeverPreempts
<1> QED BY <1>1, <1>3, <1>4 DEF StartRun

LEMMA NextCapacity ==
    ASSUME ConstantsAssumption, IInv, CapacityInv, [Next]_vars
    PROVE  CapacityInv'
<1> USE DEF IInv, TypeOK
<1>1. ASSUME NEW a \in Clients, NEW s \in Sessions, StartRun(a, s) PROVE CapacityInv'
  <2>1. CASE StartAtOnce(a, s)
    BY <2>1, ClientCreatesCapacity DEF StartAtOnce
  <2>2. CASE StartAfterAbort(a, s)
    <3>1. DaemonRuns' = DaemonRuns
      BY <2>2 DEF StartAfterAbort, files, DaemonRuns
    <3>2. actor'[Daemon] = actor[Daemon]
      BY <2>2 DEF StartAfterAbort
    <3> QED BY <3>1, <3>2, FewerDaemonRuns
  <2> QED BY <1>1, <2>1, <2>2 DEF StartRun
<1>2. ASSUME NEW a \in Actors, CreateAfterWait(a) PROVE CapacityInv'
  <2>1. actor[a].pc = "waiting" /\ CreateRun(a, actor[a].session)
    BY <1>2 DEF CreateAfterWait, WaitOver
  <2>2. actor[a].session \in Sessions
    BY <2>1 DEF Idle
  <2>3. CASE a = Daemon
    BY <2>1, <2>2, <2>3, DaemonCreatesCapacity DEF CapacityInv
  <2>4. CASE a # Daemon
    BY <2>1, <2>2, <2>4, ClientCreatesCapacity
  <2> QED BY <2>3, <2>4
<1>3. ASSUME NEW a \in Actors, RefuseAfterWait(a) \/ CreateRaises(a) \/ RegisterTask(a)
      PROVE  CapacityInv'
  <2>1. DaemonRuns' = DaemonRuns
    BY <1>3 DEF RefuseAfterWait, CreateRaises, RegisterTask, files, DaemonRuns
  <2>2. actor' = [actor EXCEPT ![a] = Idle]
    BY <1>3 DEF RefuseAfterWait, CreateRaises, RegisterTask
  <2>3. actor'[Daemon].pc = "waiting" => actor[Daemon].pc = "waiting"
    BY <2>2 DEF Idle
  <2> QED BY <2>1, <2>3, FewerDaemonRuns
<1>4. ASSUME NEW r \in RunIds, TaskStep(r) \/ CancelLost(r) PROVE CapacityInv'
  <2>1. actor' = actor /\ surface' = surface
    BY <1>4, OneRunSteps
  <2>2. \/ status' = status
        \/ \E v \in Terminal : status' = [status EXCEPT ![r] = v]
    BY <1>4
       DEF TaskStep, CancelLost, TaskStart, CancelUnstarted, TurnFinished, TurnRaised,
           MarkSucceeded, RecordUsage, HandleException, MarkFailed, TaskCancelled, SendOver,
           SendCancelled, Finalize, files, Terminal, RunStatus
  <2>3. DaemonRuns' \subseteq DaemonRuns
    BY <2>1, <2>2 DEF DaemonRuns, Terminal
  <2> QED BY <2>1, <2>3, FewerDaemonRuns
<1>5. ASSUME UNCHANGED <<status, surface, actor>> PROVE CapacityInv'
    BY <1>5, FewerDaemonRuns DEF DaemonRuns
<1>6. ASSUME NEW c \in Clients, NEW r \in RunIds, AbortRun(c, r) PROVE CapacityInv'
    BY <1>5, <1>6 DEF AbortRun, files
<1>7. CASE CrashRestart
  <2>1. DaemonRuns' \subseteq DaemonRuns /\ actor'[Daemon].pc = "idle"
    BY <1>7 DEF CrashRestart, RunsSurvive, RunsTorn, NoRecord, DaemonRuns, Idle
  <2> QED BY <2>1, FewerDaemonRuns
<1>8. ASSUME NEW s \in Sessions, DispatchSensorEvent(s) \/ HandleResume(s) PROVE CapacityInv'
    BY <1>5, <1>8, DispatchCapacity DEF DispatchSensorEvent, HandleResume, files
<1>9. CASE Environment
    BY <1>1, <1>4, <1>6, <1>7, <1>8, <1>9 DEF Environment, RunStart
<1>10. CASE UNCHANGED vars
    BY <1>5, <1>10 DEF vars, files, memory
<1> QED BY <1>2, <1>3, <1>4, <1>8, <1>9, <1>10 DEF Next, ActorStep

THEOREM CapacityInvariant == Spec => []CapacityInv
<1>1. Init => CapacityInv
  <2> SUFFICES ASSUME Init PROVE CapacityInv
    OBVIOUS
  <2>1. DaemonRuns = {} /\ actor[Daemon].pc = "idle"
    BY DEF Init, DaemonRuns, Idle
  <2> QED BY <2>1, FS_EmptySet, ConstantsAssumption
         DEF CapacityInv, DaemonWithinCapacity, DaemonNeverPreempts
<1>2. IInv /\ CapacityInv /\ [Next]_vars => CapacityInv'
    BY ConstantsAssumption, NextCapacity
<1> QED BY <1>1, <1>2, InductiveInvariant, PTL DEF Spec

(* Autonomous runs stay within the capacity, even when start_run had to wait. *)
THEOREM CapacityKept == Spec => []DaemonWithinCapacity
BY CapacityInvariant, PTL DEF CapacityInv

(* A coordinator with capacity one never waits for a run it cancelled. *)
THEOREM NoPreemption == Spec => []DaemonNeverPreempts
BY CapacityInvariant, PTL DEF CapacityInv


-----------------------------------------------------------------------------
(* RunLifecycle implements RunPromise: each step, seen from outside, is one move. *)

LEMMA CreateRunOpens ==
    ASSUME ConstantsAssumption, IInv, NEW a \in Actors, NEW s \in Sessions,
           CreateRun(a, s), UNCHANGED frame
    PROVE  Promised!Move
<1>1. PICK r \in RunIds : r = created + 1 /\ created \in Nat
    BY DEF CreateRun, IInv, TypeOK
<1>2. status[r] = "absent" /\ ledger[r] = "absent" /\ usage[r] = 0 /\ frame[r] = "none"
    BY <1>1, RunsOfIInv DEF RunInv, Recorded
<1>3. Promised!Open(r)
    BY <1>1, <1>2 DEF CreateRun, Promised!Open
<1> QED BY <1>3 DEF Promised!Move

LEMMA RegisterTaskRegisters ==
    ASSUME ConstantsAssumption, IInv, NEW a \in Actors, RegisterTask(a)
    PROVE  Promised!Move
<1>1. PICK r \in RunIds : r = actor[a].run /\ status[r] = "running" /\ ledger[r] = "absent"
    BY DEF RegisterTask, IInv, TypeOK, SliceInv, Idle
<1>2. Promised!Register(r)
    BY <1>1 DEF RegisterTask, Promised!Register
<1> QED BY <1>2 DEF Promised!Move

LEMMA MarkSucceededMoves ==
    ASSUME IInv, NEW r \in RunIds, MarkSucceeded(r)
    PROVE  Promised!Move
<1>1. /\ ledger[r] = "running" /\ status[r] = "running" /\ usage[r] = 0 /\ frame[r] = "none"
      /\ status' = [status EXCEPT ![r] = "succeeded"] /\ UNCHANGED <<ledger, usage, frame>>
    BY RunsOfIInv DEF MarkSucceeded, RunInv, PhaseFits, Billed, TurnPhases
<1>2. Promised!Succeed(r)
    BY <1>1 DEF Promised!Succeed, Promised!Undecided
<1> QED BY <1>2 DEF Promised!Move

LEMMA RecordUsageMoves ==
    ASSUME IInv, NEW r \in RunIds, RecordUsage(r)
    PROVE  [Promised!Move]_Promised!promised
<1>1. ledger[r] = "running" /\ status[r] = "succeeded" /\ usage[r] = 0 /\ frame[r] = "none"
    BY RunsOfIInv DEF RecordUsage, RunInv, PhaseFits, Billed, TurnPhases
<1>2. /\ UNCHANGED <<status, ledger>>
      /\ \/ UNCHANGED <<usage, frame>>
         \/ /\ usage' = [usage EXCEPT ![r] = @ + 1]
            /\ UNCHANGED frame \/ frame' = [frame EXCEPT ![r] = "done"]
    BY DEF RecordUsage, Send
<1>3. CASE UNCHANGED <<usage, frame>>
    BY <1>2, <1>3 DEF Promised!promised
<1>4. ASSUME usage' = [usage EXCEPT ![r] = @ + 1],
             UNCHANGED frame \/ frame' = [frame EXCEPT ![r] = "done"]
      PROVE  Promised!Move
  <2>1. Promised!Bill(r)
      BY <1>1, <1>2, <1>4 DEF Promised!Bill, Promised!Undecided, Promised!FrameOf
  <2> QED BY <2>1 DEF Promised!Move
<1> QED BY <1>2, <1>3, <1>4

LEMMA HandleExceptionMoves ==
    ASSUME IInv, NEW r \in RunIds, HandleException(r)
    PROVE  [Promised!Move]_Promised!promised
<1>1. /\ ledger[r] = "running" /\ frame[r] = "none"
      /\ \/ status[r] = "running" /\ usage[r] = 0
         \/ status[r] = "succeeded" /\ usage[r] \in {0, 1}
    BY RunsOfIInv DEF HandleException, RunInv, PhaseFits, Billed, IInv, TypeOK
<1>2. /\ UNCHANGED <<status, ledger, frame>>
      /\ UNCHANGED usage \/ usage' = [usage EXCEPT ![r] = @ + 1]
    BY DEF HandleException
<1>3. CASE UNCHANGED usage
    BY <1>2, <1>3 DEF Promised!promised
<1>4. CASE usage' = [usage EXCEPT ![r] = @ + 1]
  <2>1. Promised!Bill(r)
      BY <1>1, <1>2, <1>4 DEF Promised!Bill, Promised!Undecided
  <2> QED BY <2>1 DEF Promised!Move
<1> QED BY <1>2, <1>3, <1>4

LEMMA MarkFailedMoves ==
    ASSUME IInv, NEW r \in RunIds, MarkFailed(r)
    PROVE  Promised!Move
<1>1. /\ ledger[r] = "running" /\ frame[r] = "none" /\ usage[r] > 0
      /\ status[r] \in {"running", "succeeded"}
    BY RunsOfIInv DEF MarkFailed, RunInv, PhaseFits, Billed
<1>2. /\ status' = [status EXCEPT ![r] = "failed"] /\ UNCHANGED <<ledger, usage>>
      /\ UNCHANGED frame \/ frame' = [frame EXCEPT ![r] = "error"]
    BY DEF MarkFailed, Send
<1>3. Promised!Fail(r)
    BY <1>1, <1>2 DEF Promised!Fail, Promised!Undecided, Promised!FrameOf
<1> QED BY <1>3 DEF Promised!Move

LEMMA TaskCancelledMoves ==
    ASSUME IInv, NEW r \in RunIds, TaskCancelled(r)
    PROVE  Promised!Move
<1>1. /\ ledger[r] = "running"
      /\ \/ status[r] = "running" /\ frame[r] = "none" /\ usage[r] = 0
         \/ status[r] = "succeeded" /\ frame[r] = "done"
    BY RunsOfIInv DEF TaskCancelled, RunInv, PhaseFits, Billed, TurnPhases
<1>2. /\ status' = [status EXCEPT ![r] = "cancelled"] /\ UNCHANGED <<ledger, usage>>
      /\ UNCHANGED frame \/ frame' = [frame EXCEPT ![r] = "aborted"]
    BY DEF TaskCancelled, Send
<1>3. Promised!Withdraw(r)
    BY <1>1, <1>2 DEF Promised!Withdraw, Promised!FrameOf
<1> QED BY <1>3 DEF Promised!Move

LEMMA FinalizeMoves ==
    ASSUME IInv, NEW r \in RunIds, Finalize(r)
    PROVE  Promised!Move
<1>1. PICK v : /\ ledger' = [ledger EXCEPT ![r] = v]
               /\ coro[r] = "returned" => v = "succeeded"
               /\ coro[r] = "cancelled" => v = "cancelled"
               /\ coro[r] = "raised" => v = "failed"
               /\ UNCHANGED <<status, usage, frame>>
    BY DEF Finalize
<1>2. coro[r] \in Ended /\ PhaseFits(r) /\ BillFits(r)
    BY RunsOfIInv DEF Finalize, RunInv
<1>3. \/ v = "succeeded" /\ status[r] \in {"succeeded", "failed"}
      \/ v = "cancelled" /\ status[r] \in {"running", "cancelled", "failed"}
      \/ v = "failed" /\ status[r] \in {"running", "succeeded", "failed", "cancelled"}
    BY <1>1, <1>2 DEF Ended, PhaseFits, RunStatus
<1>4. v \in Promised!Outcomes[status[r]] /\ status[r] \in DOMAIN Promised!Outcomes
    BY <1>3 DEF Promised!Outcomes
<1>5. ledger[r] = "running" /\ (usage[r] = 2 => status[r] = "failed" \/ v = "failed")
    BY <1>1, <1>2, <1>3 DEF Ended, PhaseFits, BillFits
<1>6. Promised!Conclude(r)
    BY <1>1, <1>4, <1>5 DEF Promised!Conclude
<1> QED BY <1>6 DEF Promised!Move

LEMMA TaskStepMoves ==
    ASSUME IInv, NEW r \in RunIds, TaskStep(r)
    PROVE  [Promised!Move]_Promised!promised
<1>1. CASE \/ TaskStart(r) \/ CancelUnstarted(r) \/ TurnFinished(r) \/ TurnRaised(r)
           \/ SendOver(r) \/ SendCancelled(r)
    BY <1>1 DEF TaskStart, CancelUnstarted, TurnFinished, TurnRaised, SendOver, SendCancelled,
                files, Promised!promised
<1> QED
    BY <1>1, MarkSucceededMoves, RecordUsageMoves, HandleExceptionMoves, MarkFailedMoves,
       TaskCancelledMoves, FinalizeMoves DEF TaskStep

LEMMA StartRunMoves ==
    ASSUME ConstantsAssumption, IInv, NEW a \in Actors, NEW s \in Sessions, StartRun(a, s),
           UNCHANGED frame
    PROVE  [Promised!Move]_Promised!promised
<1>1. CASE CreateRun(a, s)
    BY <1>1, CreateRunOpens
<1>2. CASE StartAfterAbort(a, s)
    BY <1>2 DEF StartAfterAbort, files, Promised!promised
<1> QED BY <1>1, <1>2 DEF StartRun, StartAtOnce

LEMMA ActorStepMoves ==
    ASSUME ConstantsAssumption, IInv, NEW a \in Actors, ActorStep(a)
    PROVE  [Promised!Move]_Promised!promised
<1>1. CASE CreateAfterWait(a)
  <2>1. actor[a].pc = "waiting" /\ CreateRun(a, actor[a].session) /\ UNCHANGED frame
      BY <1>1 DEF CreateAfterWait, WaitOver
  <2>2. actor[a].session \in Sessions
      BY <2>1 DEF IInv, TypeOK, Idle
  <2> QED BY <2>1, <2>2, CreateRunOpens
<1>2. CASE RefuseAfterWait(a) \/ CreateRaises(a)
    BY <1>2 DEF RefuseAfterWait, CreateRaises, files, Promised!promised
<1>3. CASE RegisterTask(a)
    BY <1>3, RegisterTaskRegisters
<1> QED BY <1>1, <1>2, <1>3 DEF ActorStep

LEMMA CrashRestartLoses ==
    ASSUME CrashRestart
    PROVE  Promised!Move
<1>1. Promised!Lose
    BY DEF CrashRestart, RunsSurvive, RunsTorn, NoRecord, Promised!Lose, Promised!Nothing
<1> QED BY <1>1 DEF Promised!Move

(* The registry, the ledger, the bill and the closing frame of every run move only as      *)
(* RunPromise allows, whichever callers race, waits expire, stores fail, sends are         *)
(* cancelled or processes die.                                                             *)
THEOREM Implements == Spec => KeepsPromise
<1>1. Init => Promised!Begin
    BY DEF Init, NoRecord, Promised!Begin, Promised!Nothing
<1>2. ASSUME ConstantsAssumption, IInv, [Next]_vars
      PROVE  [Promised!Move]_Promised!promised
  <2>1. CASE \E a \in Actors : ActorStep(a)
      BY <1>2, <2>1, ActorStepMoves
  <2>2. CASE \E r \in RunIds : TaskStep(r)
      BY <1>2, <2>2, TaskStepMoves
  <2>3. ASSUME NEW s \in Sessions, Dispatch(s), UNCHANGED frame
        PROVE  [Promised!Move]_Promised!promised
      BY <1>2, <2>3, StartRunMoves DEF Dispatch
  <2>4. CASE \E s \in Sessions : HandleResume(s)
      BY <2>3, <2>4 DEF HandleResume, files, Promised!promised
  <2>5. CASE Environment
    <3>1. CASE \E c \in Clients, s \in Sessions : RunStart(c, s)
        BY <1>2, <3>1, StartRunMoves DEF RunStart
    <3>2. CASE \E s \in Sessions : DispatchSensorEvent(s)
        BY <2>3, <3>2 DEF DispatchSensorEvent
    <3>3. CASE UNCHANGED <<status, ledger, usage, frame>>
        BY <3>3 DEF Promised!promised
    <3> QED
        BY <2>5, <3>1, <3>2, <3>3, CrashRestartLoses DEF Environment, AbortRun, CancelLost, files
  <2>6. CASE UNCHANGED vars
      BY <2>6 DEF vars, files, Promised!promised
  <2> QED BY <1>2, <2>1, <2>2, <2>4, <2>5, <2>6 DEF Next
<1> QED BY <1>1, <1>2, ConstantsAssumption, InductiveInvariant, PTL
        DEF Spec, KeepsPromise, Promised!Promise

\* The facts of RunPromiseProofs, about the observables of RunLifecycle.
Told == INSTANCE RunPromiseProofs WITH
    Runs <- RunIds, record <- status, verdict <- ledger, bills <- usage, closing <- frame

LEMMA SamePromise == KeepsPromise => Told!Promise
<1>1. Promised!Begin => Told!Begin
    BY DEF Promised!Begin, Promised!Nothing, Told!Begin, Told!Nothing
<1>2. Promised!Move => Told!Move
    BY DEF Promised!Move, Promised!Open, Promised!Register, Promised!Succeed, Promised!Bill,
           Promised!Fail, Promised!Withdraw, Promised!Conclude, Promised!Lose,
           Promised!Nothing, Promised!Undecided, Promised!FrameOf, Promised!Outcomes,
           Told!Move, Told!Open, Told!Register, Told!Succeed, Told!Bill, Told!Fail,
           Told!Withdraw, Told!Conclude, Told!Lose, Told!Nothing, Told!Undecided,
           Told!FrameOf, Told!Outcomes
<1>3. [Promised!Move]_Promised!promised => [Told!Move]_Told!promised
    BY <1>2 DEF Promised!promised, Told!promised
<1> QED BY <1>1, <1>3, PTL DEF KeepsPromise, Promised!Promise, Told!Promise

(* The client, the registry, the ledger and the bill tell one story of each run, but for  *)
(* a success withdrawn while the client is told of it (_execute, _finalize, record_usage).*)
THEOREM TellsOneStory == Spec => []Told!OneStory
BY Implements, SamePromise, Told!PromiseTellsOneStory

(* What an outsider was told of a run stands, as long as the registry's file does         *)
(* (mark_succeeded, mark_failed, mark_cancelled).                                         *)
THEOREM WordStands == Spec => Told!TheWordStands
BY Implements, SamePromise, Told!PromiseStands

-----------------------------------------------------------------------------
(* RunLifecycle implements SessionRuns, where each session has one caller and cancelled  *)
(* runs end in time.                                                                     *)

\* A busy run is the newest of its session, and the only one a caller may wait for there.
BusyInv ==
    /\ \A r \in RunIds : Busy(r) => \A q \in RunIds : owner[q] = owner[r] => q <= r
    /\ \A a \in Actors : actor[a].pc = "waiting" =>
          \A q \in RunIds : Busy(q) /\ owner[q] = actor[a].session => q = actor[a].run

LEMMA RunningRecordsFinite ==
    ASSUME ConstantsAssumption
    PROVE  IsFiniteSet(RunningRecords)
<1>1. IsFiniteSet(RunIds)
    BY FS_Interval DEF ConstantsAssumption
<1> QED BY <1>1, FS_Subset DEF RunningRecords

LEMMA BusyHasSession ==
    ASSUME IInv, NEW r \in RunIds, status[r] = "running"
    PROVE  owner[r] \in Sessions /\ r <= created
BY RunsOfIInv DEF RunInv, Recorded

(* A step that neither starts nor ends a busy run. *)
LEMMA SameCount ==
    ASSUME UNCHANGED owner,
           \A q \in RunIds : status'[q] = "running" <=> status[q] = "running",
           \A q \in RunIds : Busy(q)' <=> Busy(q)
    PROVE  UNCHANGED <<RunningSessions, LiveSessions, RunningRecords>>
<1>1. \A s \in Sessions : RunningIn(s)' = RunningIn(s)
    BY DEF RunningIn
<1>2. UNCHANGED RunningSessions
    BY <1>1 DEF RunningSessions, HasRunningRun
<1> QED BY <1>2 DEF LiveSessions, RunningRecords

LEMMA SameCounted ==
    ASSUME UNCHANGED <<RunningSessions, LiveSessions, RunningRecords>>
    PROVE  [Counted!Change]_Counted!counted
BY DEF Counted!counted

(* Only a run that is created becomes busy. *)
LEMMA BusyInvKept ==
    ASSUME BusyInv, UNCHANGED owner, \A q \in RunIds : Busy(q)' => Busy(q),
           \A a \in Actors : actor'[a].pc = "waiting" => actor'[a] = actor[a]
    PROVE  BusyInv'
BY DEF BusyInv

(* No run is busy in a session whose newest running record has no task. *)
LEMMA NoBusyLeft ==
    ASSUME IInv, BusyInv, LoopFree, NEW s \in Sessions,
           \A r \in RunIds : IsLatestRunning(s, r) => coro[r] \notin Unfinished
    PROVE  \A q \in RunIds : owner[q] = s => ~Busy(q)
<1> SUFFICES ASSUME NEW q \in RunIds, owner[q] = s, Busy(q)
             PROVE  FALSE
    OBVIOUS
<1>1. status[q] = "running" /\ coro[q] \in Unfinished
    BY DEF Busy, HasTask, LoopFree
<1>2. IsLatestRunning(s, q)
    BY <1>1 DEF IsLatestRunning, RunningIn, BusyInv
<1> QED BY <1>1, <1>2

(* A run is created: one busy run more. *)
LEMMA CreateRunCounts ==
    ASSUME ConstantsAssumption, Exclusive, IInv, TurnInv, BusyInv, LoopFree,
           NEW a \in Actors, NEW s \in Reach[a], CreateRun(a, s),
           \A q \in RunIds : owner[q] = s => ~Busy(q)
    PROVE  BusyInv' /\ Counted!Begins(s) /\ s \in Sessions
<1> USE DEF IInv, TypeOK
<1>0. PICK r \in RunIds : r = created + 1
    BY DEF CreateRun, ConstantsAssumption
<1>1. /\ r \in RunIds /\ s \in Sessions /\ status[r] = "absent" /\ owner[r] = None
      /\ \A q \in RunIds : owner[q] \in Sessions => q < r
      /\ None \notin Sessions
  <2>1. \A q \in RunIds : Recorded(q)
      BY RunsOfIInv DEF RunInv
  <2>2. None \notin Sessions /\ Reach[a] \subseteq Sessions
      BY DEF ConstantsAssumption
  <2> QED BY <1>0, <2>1, <2>2 DEF Recorded
<1>2. /\ status' = [status EXCEPT ![r] = "running"]
      /\ owner' = [owner EXCEPT ![r] = s]
      /\ actor' = [actor EXCEPT ![a] = [pc |-> "creating", session |-> s, run |-> r]]
      /\ UNCHANGED coro
    BY <1>0 DEF CreateRun
<1>3. /\ status'[r] = "running" /\ owner'[r] = s
      /\ \A q \in RunIds : q # r => status'[q] = status[q] /\ owner'[q] = owner[q]
    BY <1>1, <1>2
<1>4. Busy(r)'
  <2>1. actor'[a].pc = "creating" /\ actor'[a].run = r
      BY <1>2
  <2> QED BY <1>3, <2>1 DEF Busy, HasTask
<1>5. ASSUME NEW q \in RunIds, q # r PROVE Busy(q)' <=> Busy(q)
  <2>1. \A b \in Actors : actor'[b].pc = "creating" => b = a
      BY <1>2 DEF LoopFree
  <2>2. actor'[a].run = r
      BY <1>2
  <2>3. HasTask(q)' <=> coro[q] \in Unfinished
      BY <1>2, <1>5, <2>1, <2>2 DEF HasTask
  <2>4. HasTask(q) <=> coro[q] \in Unfinished
      BY DEF HasTask, LoopFree
  <2> QED BY <1>3, <1>5, <2>3, <2>4 DEF Busy
<1>6. ~Busy(r)
    BY <1>1 DEF Busy
<1>7. BusyInv'
  <2>1. ASSUME NEW p \in RunIds, Busy(p)', NEW q \in RunIds, owner'[q] = owner'[p]
        PROVE  q <= p
    <3>1. CASE p = r
        BY <1>1, <1>3, <2>1, <3>1
    <3>2. CASE p # r
      <4>1. Busy(p) /\ owner'[p] = owner[p]
          BY <1>3, <1>5, <2>1, <3>2
      <4>2. owner[p] \in Sessions /\ owner[p] # s
          BY <4>1, BusyHasSession DEF Busy
      <4>3. owner[q] = owner[p]
          BY <1>1, <1>3, <2>1, <4>1, <4>2
      <4> QED BY <4>1, <4>3 DEF BusyInv
    <3> QED BY <3>1, <3>2
  <2>2. ASSUME NEW b \in Actors, actor'[b].pc = "waiting",
               NEW q \in RunIds, Busy(q)', owner'[q] = actor'[b].session
        PROVE  q = actor'[b].run
    <3>1. b # a /\ actor'[b] = actor[b] /\ actor[b].pc = "waiting"
        BY <1>2, <2>2
    <3>2. actor[b].session # s
      <4>1. actor[b].session \in Reach[b]
          BY <3>1 DEF TurnInv
      <4> QED BY <3>1, <4>1 DEF Exclusive
    <3>3. q # r /\ owner[q] = actor[b].session /\ Busy(q)
        BY <1>3, <1>5, <2>2, <3>1, <3>2
    <3> QED BY <2>2, <3>1, <3>3 DEF BusyInv
  <2> QED BY <2>1, <2>2 DEF BusyInv
<1>8. s \notin LiveSessions
    BY DEF LiveSessions
<1>9. LiveSessions' = LiveSessions \cup {s}
  <2>1. ASSUME NEW t \in LiveSessions' PROVE t \in LiveSessions \cup {s}
    <3>1. PICK q \in RunIds : Busy(q)' /\ t = owner'[q]
        BY <2>1 DEF LiveSessions
    <3>2. CASE q = r
        BY <1>3, <3>1, <3>2
    <3>3. CASE q # r
      <4>1. Busy(q) /\ owner[q] = t
          BY <1>3, <1>5, <3>1, <3>3
      <4> QED BY <4>1 DEF LiveSessions
    <3> QED BY <3>2, <3>3
  <2>2. ASSUME NEW t \in LiveSessions PROVE t \in LiveSessions'
    <3>1. PICK q \in RunIds : Busy(q) /\ t = owner[q]
        BY <2>2 DEF LiveSessions
    <3>2. q # r /\ Busy(q)' /\ owner'[q] = t
        BY <1>3, <1>5, <1>6, <3>1
    <3> QED BY <3>2 DEF LiveSessions
  <2>3. s \in LiveSessions'
      BY <1>1, <1>3, <1>4 DEF LiveSessions
  <2> QED BY <2>1, <2>2, <2>3
<1>10. RunningSessions' = RunningSessions \cup {s}
  <2>1. HasRunningRun(s)'
    <3>1. r \in RunningIn(s)' /\ \A q \in RunIds : owner'[q] = s => q <= r
        BY <1>1, <1>3 DEF RunningIn
    <3> QED BY <3>1 DEF HasRunningRun
  <2>2. ASSUME NEW t \in Sessions, t # s PROVE HasRunningRun(t)' <=> HasRunningRun(t)
    <3>1. RunningIn(t)' = RunningIn(t)
        BY <1>1, <1>3, <2>2 DEF RunningIn
    <3>2. \A q \in RunIds : owner'[q] = t <=> owner[q] = t
        BY <1>1, <1>3, <2>2
    <3> QED BY <3>1, <3>2 DEF HasRunningRun
  <2>3. \A t \in Sessions : t \in RunningSessions' <=> t = s \/ t \in RunningSessions
      BY <2>1, <2>2 DEF RunningSessions
  <2>4. RunningSessions \subseteq Sessions /\ RunningSessions' \subseteq Sessions
      BY DEF RunningSessions
  <2> QED BY <1>1, <2>3, <2>4
<1>11. Cardinality(RunningRecords)' = Cardinality(RunningRecords) + 1
  <2>1. RunningRecords' = RunningRecords \cup {r} /\ r \notin RunningRecords
      BY <1>1, <1>3 DEF RunningRecords
  <2> QED BY <2>1, RunningRecordsFinite, FS_AddElement
<1>12. Counted!Begins(s)
    BY <1>8, <1>9, <1>10, <1>11 DEF Counted!Begins
<1> QED BY <1>1, <1>7, <1>12

(* One busy run leaves its session without any. *)
LEMMA OneBusyLess ==
    ASSUME IInv, BusyInv, NEW r \in RunIds, Busy(r), UNCHANGED owner,
           ~Busy(r)', \A q \in RunIds : q # r => (Busy(q)' <=> Busy(q))
    PROVE  owner[r] \in LiveSessions /\ LiveSessions' = LiveSessions \ {owner[r]}
<1>1. ASSUME NEW q \in RunIds, Busy(q), owner[q] = owner[r] PROVE q = r
  <2>1. q <= r /\ r <= q
      BY <1>1 DEF BusyInv
  <2> QED BY <2>1
<1>2. owner[r] \in LiveSessions
    BY DEF LiveSessions
<1>3. ASSUME NEW t \in LiveSessions' PROVE t \in LiveSessions \ {owner[r]}
  <2>1. PICK q \in RunIds : Busy(q)' /\ t = owner'[q]
      BY <1>3 DEF LiveSessions
  <2>2. Busy(q) /\ t = owner[q] /\ q # r
      BY <2>1
  <2>3. t # owner[r]
      BY <1>1, <2>2
  <2> QED BY <2>2, <2>3 DEF LiveSessions
<1>4. ASSUME NEW t \in LiveSessions, t # owner[r] PROVE t \in LiveSessions'
  <2>1. PICK q \in RunIds : Busy(q) /\ t = owner[q]
      BY <1>4 DEF LiveSessions
  <2>2. Busy(q)' /\ t = owner'[q]
      BY <1>4, <2>1
  <2> QED BY <2>2 DEF LiveSessions
<1> QED BY <1>2, <1>3, <1>4

(* A busy run is marked: its record and its task agree, nothing stays behind. *)
LEMMA EndCounts ==
    ASSUME ConstantsAssumption, IInv, BusyInv, NEW r \in RunIds, Busy(r),
           UNCHANGED <<owner, actor>>, status'[r] # "running",
           \A q \in RunIds : q # r => status'[q] = status[q] /\ coro'[q] = coro[q]
    PROVE  BusyInv' /\ Counted!Ends(owner[r]) /\ owner[r] \in Sessions
<1>1. ~Busy(r)' /\ status[r] = "running"
    BY DEF Busy
<1>2. \A q \in RunIds : q # r => (Busy(q)' <=> Busy(q))
    BY DEF Busy, HasTask
<1>3. owner[r] \in Sessions
    BY <1>1, BusyHasSession
<1>4. owner[r] \in LiveSessions /\ LiveSessions' = LiveSessions \ {owner[r]}
    BY <1>1, <1>2, OneBusyLess
<1>5. RunningSessions' = RunningSessions \ {owner[r]}
  <2>1. ~HasRunningRun(owner[r])'
    <3>1. ASSUME NEW q \in RunIds, q \in RunningIn(owner[r])',
                 \A p \in RunIds : owner'[p] = owner[r] => p <= q
          PROVE  FALSE
      <4>1. q # r /\ owner[q] = owner[r]
          BY <3>1 DEF RunningIn
      <4>2. r <= q /\ q <= r
          BY <3>1, <4>1 DEF BusyInv
      <4> QED BY <4>1, <4>2
    <3>2. UNCHANGED owner[r]
        OBVIOUS
    <3>3. \A q : q \in RunningIn(owner[r])' => q \in RunIds
        BY DEF RunningIn
    <3> QED BY <3>1, <3>2, <3>3 DEF HasRunningRun
  <2>2. ASSUME NEW t \in Sessions, t # owner[r] PROVE HasRunningRun(t)' <=> HasRunningRun(t)
    <3>1. RunningIn(t)' = RunningIn(t)
        BY <2>2 DEF RunningIn
    <3> QED BY <3>1 DEF HasRunningRun
  <2>3. \A t \in Sessions : t \in RunningSessions' <=> t # owner[r] /\ t \in RunningSessions
      BY <2>1, <2>2 DEF RunningSessions
  <2>4. RunningSessions \subseteq Sessions /\ RunningSessions' \subseteq Sessions
      BY DEF RunningSessions
  <2> QED BY <2>3, <2>4
<1>6. Cardinality(RunningRecords)' = Cardinality(RunningRecords) - 1
  <2>1. RunningRecords' = RunningRecords \ {r} /\ r \in RunningRecords
      BY <1>1 DEF RunningRecords
  <2> QED BY <2>1, RunningRecordsFinite, FS_RemoveElement
<1>7. BusyInv'
    BY <1>1, <1>2, BusyInvKept
<1> QED BY <1>3, <1>4, <1>5, <1>6, <1>7 DEF Counted!Ends

(* The task of a run is gone while its record says running. *)
LEMMA StrandCounts ==
    ASSUME IInv, BusyInv, NEW r \in RunIds, Busy(r), ~Busy(r)', UNCHANGED <<owner, status>>,
           \A q \in RunIds : q # r => (Busy(q)' <=> Busy(q)),
           \A a \in Actors : actor'[a].pc = "waiting" => actor'[a] = actor[a]
    PROVE  BusyInv' /\ Counted!Strands(owner[r]) /\ owner[r] \in Sessions
<1>1. owner[r] \in LiveSessions /\ LiveSessions' = LiveSessions \ {owner[r]}
    BY OneBusyLess
<1>2. UNCHANGED <<RunningSessions, RunningRecords>>
    BY DEF RunningSessions, HasRunningRun, RunningIn, RunningRecords
<1>3. BusyInv'
    BY BusyInvKept
<1>4. owner[r] \in Sessions
    BY BusyHasSession DEF Busy
<1> QED BY <1>1, <1>2, <1>3, <1>4 DEF Counted!Strands

(* A step that changes neither who is busy nor which records say running. *)
LEMMA QuietStepCounts ==
    ASSUME BusyInv, UNCHANGED <<owner, actor>>,
           \A q \in RunIds : status'[q] = "running" <=> status[q] = "running",
           \A q \in RunIds :
              status[q] = "running" => (coro'[q] \in Unfinished <=> coro[q] \in Unfinished)
    PROVE  BusyInv' /\ [Counted!Change]_Counted!counted
<1>1. \A q \in RunIds : Busy(q)' <=> Busy(q)
    BY DEF Busy, HasTask
<1>2. BusyInv'
    BY <1>1, BusyInvKept
<1> QED BY <1>1, <1>2, SameCount, SameCounted

(* A mark other than running on the record of a run whose task is at work. *)
LEMMA MarkCounts ==
    ASSUME ConstantsAssumption, IInv, BusyInv, NEW r \in RunIds, coro[r] \in Unfinished,
           UNCHANGED <<owner, actor>>, status'[r] # "running",
           \A q \in RunIds : q # r => status'[q] = status[q] /\ coro'[q] = coro[q]
    PROVE  BusyInv' /\ [Counted!Change]_Counted!counted
<1>1. CASE status[r] = "running"
  <2>1. Busy(r)
      BY <1>1 DEF Busy, HasTask
  <2>2. BusyInv' /\ Counted!Ends(owner[r]) /\ owner[r] \in Sessions
      BY <2>1, EndCounts
  <2> QED BY <2>2 DEF Counted!Change
<1>2. CASE status[r] # "running"
    BY <1>2, QuietStepCounts
<1> QED BY <1>1, <1>2

(* The task of a run at work moves on, or ends, and leaves the record as it is. *)
LEMMA UnmarkedCounts ==
    ASSUME IInv, BusyInv, NEW r \in RunIds, coro[r] \in Unfinished,
           UNCHANGED <<owner, actor, status>>, \A a \in Actors : actor[a].pc # "creating",
           \A q \in RunIds : q # r => coro'[q] = coro[q]
    PROVE  BusyInv' /\ [Counted!Change]_Counted!counted
<1>1. \A q \in RunIds : q # r => (Busy(q)' <=> Busy(q))
    BY DEF Busy, HasTask
<1>2. CASE status[r] = "running" /\ coro'[r] \notin Unfinished
  <2>1. Busy(r) /\ ~Busy(r)'
      BY <1>2 DEF Busy, HasTask
  <2>2. BusyInv' /\ Counted!Strands(owner[r]) /\ owner[r] \in Sessions
      BY <1>1, <2>1, StrandCounts
  <2> QED BY <2>2 DEF Counted!Change
<1>3. CASE ~(status[r] = "running" /\ coro'[r] \notin Unfinished)
    BY <1>3, QuietStepCounts
<1> QED BY <1>2, <1>3

LEMMA TaskStepCounts ==
    ASSUME ConstantsAssumption, IInv, BusyInv, NEW r \in RunIds, TaskStep(r) \/ CancelLost(r)
    PROVE  BusyInv' /\ [Counted!Change]_Counted!counted
<1> USE DEF IInv, TypeOK
<1>1. /\ UNCHANGED <<owner, actor>> /\ \A a \in Actors : actor[a].pc # "creating"
      /\ \A q \in RunIds : q # r => status'[q] = status[q] /\ coro'[q] = coro[q]
    BY OneRunSteps
<1>2. CASE \/ TaskStart(r) \/ CancelUnstarted(r) \/ TurnFinished(r) \/ TurnRaised(r)
           \/ RecordUsage(r) \/ HandleException(r) \/ SendOver(r) \/ SendCancelled(r)
  <2>1. coro[r] \in Unfinished /\ UNCHANGED status
    <3>1. CASE TaskStart(r) \/ CancelUnstarted(r) \/ TurnFinished(r) \/ TurnRaised(r)
        BY <3>1 DEF TaskStart, CancelUnstarted, TurnFinished, TurnRaised, files, Unfinished,
                    TurnPhases
    <3>2. CASE RecordUsage(r) \/ HandleException(r)
        BY <3>2 DEF RecordUsage, HandleException, Unfinished, MidSlice
    <3>3. CASE SendOver(r) \/ SendCancelled(r)
        BY <3>3 DEF SendOver, SendCancelled, Unfinished, Sending
    <3> QED BY <1>2, <3>1, <3>2, <3>3
  <2> QED BY <1>1, <2>1, UnmarkedCounts
<1>3. CASE MarkSucceeded(r) \/ MarkFailed(r) \/ TaskCancelled(r)
  <2>1. coro[r] \in Unfinished /\ status'[r] # "running"
    <3>1. CASE MarkSucceeded(r)
        BY <3>1 DEF MarkSucceeded, Unfinished, MidSlice
    <3>2. CASE MarkFailed(r)
        BY <3>2 DEF MarkFailed, Unfinished, MidSlice
    <3>3. CASE TaskCancelled(r)
        BY <3>3 DEF TaskCancelled, Unfinished, TurnPhases, Sending
    <3> QED BY <1>3, <3>1, <3>2, <3>3
  <2> QED BY <1>1, <2>1, MarkCounts
<1>4. CASE Finalize(r)
  <2>1. /\ UNCHANGED status
        /\ coro[r] \notin Unfinished /\ coro'[r] \notin Unfinished
      BY <1>4 DEF Finalize, Ended, Unfinished, TurnPhases, MidSlice, Sending
  <2> QED BY <1>1, <2>1, QuietStepCounts
<1>5. CASE CancelLost(r)
    BY <1>5, QuietStepCounts DEF CancelLost, files
<1> QED BY <1>2, <1>3, <1>4, <1>5 DEF TaskStep

(* start_run: its first part, and the part after the wait. *)
LEMMA StartRunCounts ==
    ASSUME ConstantsAssumption, Exclusive, IInv, TurnInv, BusyInv,
           NEW a \in Actors, NEW s \in Sessions, StartRun(a, s)
    PROVE  BusyInv' /\ [Counted!Change]_Counted!counted
<1>1. LoopFree /\ actor[a].pc = "idle" /\ s \in Reach[a]
    BY DEF StartRun
<1>2. CASE StartAtOnce(a, s)
  <2>1. \A q \in RunIds : owner[q] = s => ~Busy(q)
      BY <1>1, <1>2, NoBusyLeft DEF StartAtOnce
  <2>2. BusyInv' /\ Counted!Begins(s)
      BY <1>1, <1>2, <2>1, CreateRunCounts DEF StartAtOnce
  <2> QED BY <2>2 DEF Counted!Change
<1>3. CASE StartAfterAbort(a, s)
  <2>1. PICK r \in RunIds :
            /\ IsLatestRunning(s, r) /\ coro[r] \in Unfinished
            /\ actor' = [actor EXCEPT ![a] = [pc |-> "waiting", session |-> s, run |-> r]]
      BY <1>3 DEF StartAfterAbort
  <2>2. UNCHANGED <<status, owner, coro>>
      BY <1>3 DEF StartAfterAbort, files
  <2>3. \A b \in Actors : b # a => actor'[b] = actor[b]
      BY <2>1 DEF IInv, TypeOK
  <2>4. \A b \in Actors : actor[b].pc # "creating" /\ actor'[b].pc # "creating"
      BY <1>1, <2>1, <2>3 DEF LoopFree, IInv, TypeOK
  <2>5. \A q \in RunIds : Busy(q)' <=> Busy(q)
      BY <2>2, <2>4 DEF Busy, HasTask
  <2>6. Busy(r) /\ owner[r] = s
      BY <2>1 DEF Busy, HasTask, IsLatestRunning, RunningIn
  <2>7. ASSUME NEW q \in RunIds, Busy(q), owner[q] = s PROVE q = r
    <3>1. r <= q
        BY <2>6, <2>7 DEF BusyInv
    <3>2. q <= r
        BY <2>1, <2>7 DEF IsLatestRunning, RunningIn, Busy
    <3> QED BY <3>1, <3>2
  <2>8. ASSUME NEW b \in Actors, actor'[b].pc = "waiting",
               NEW q \in RunIds, Busy(q)', owner'[q] = actor'[b].session
        PROVE  q = actor'[b].run
    <3>1. CASE b = a
      <4>1. actor'[b].session = s /\ actor'[b].run = r
          BY <2>1, <3>1 DEF IInv, TypeOK
      <4> QED BY <2>2, <2>5, <2>7, <2>8, <4>1
    <3>2. CASE b # a
        BY <2>2, <2>3, <2>5, <2>8, <3>2 DEF BusyInv
    <3> QED BY <3>1, <3>2
  <2>9. BusyInv'
      BY <2>2, <2>5, <2>8 DEF BusyInv
  <2> QED BY <2>2, <2>5, <2>9, SameCount, SameCounted
<1> QED BY <1>2, <1>3 DEF StartRun
LEMMA ActorStepCounts ==
    ASSUME ConstantsAssumption, Exclusive, ~WaitMayTimeOut, IInv, TurnInv, BusyInv,
           NEW a \in Actors, ActorStep(a)
    PROVE  BusyInv' /\ [Counted!Change]_Counted!counted
<1>0. Ended \cap Unfinished = {} /\ "none" \notin Unfinished /\ "scheduled" \in Unfinished
    BY DEF Ended, Unfinished, TurnPhases, MidSlice, Sending
<1>1. CASE CreateAfterWait(a)
  <2>1. PICK s : s = actor[a].session
      OBVIOUS
  <2>2. /\ LoopFree /\ actor[a].pc = "waiting" /\ coro[actor[a].run] \notin Unfinished
        /\ CreateRun(a, s)
      BY <1>0, <1>1, <2>1 DEF CreateAfterWait, WaitOver, WrittenOff
  <2>3. s \in Reach[a]
      BY <2>1, <2>2 DEF TurnInv
  <2>4. ASSUME NEW q \in RunIds, owner[q] = s PROVE ~Busy(q)
    <3>1. Busy(q) => q = actor[a].run
        BY <2>1, <2>2, <2>4 DEF BusyInv
    <3> QED BY <2>2, <3>1 DEF Busy, HasTask, LoopFree
  <2>5. BusyInv' /\ Counted!Begins(s) /\ s \in Sessions
      BY <2>2, <2>3, <2>4, CreateRunCounts
  <2> QED BY <2>5 DEF Counted!Change
<1>2. CASE RefuseAfterWait(a)
  <2>1. /\ UNCHANGED <<status, owner, coro>> /\ actor' = [actor EXCEPT ![a] = Idle]
        /\ \A b \in Actors : actor[b].pc # "creating"
      BY <1>2 DEF RefuseAfterWait, WaitOver, LoopFree, files
  <2>2. \A b \in Actors : actor'[b] = actor[b] \/ actor'[b] = Idle
      BY <2>1 DEF IInv, TypeOK
  <2>3. /\ \A b \in Actors : actor'[b].pc # "creating"
        /\ \A b \in Actors : actor'[b].pc = "waiting" => actor'[b] = actor[b]
      BY <2>1, <2>2 DEF Idle
  <2>4. \A q \in RunIds : Busy(q)' <=> Busy(q)
      BY <2>1, <2>3 DEF Busy, HasTask
  <2>5. BusyInv'
      BY <2>1, <2>3, <2>4, BusyInvKept
  <2> QED BY <2>1, <2>4, <2>5, SameCount, SameCounted
<1>3. CASE RegisterTask(a)
  <2>1. PICK r \in RunIds : r = actor[a].run
      BY <1>3 DEF RegisterTask, IInv, TypeOK, Idle
  <2>2. /\ actor[a].pc = "creating"
        /\ coro' = [coro EXCEPT ![r] = "scheduled"]
        /\ actor' = [actor EXCEPT ![a] = Idle]
        /\ UNCHANGED <<status, owner>>
      BY <1>3, <2>1 DEF RegisterTask
  <2>3. /\ coro'[r] = "scheduled" /\ \A q \in RunIds : q # r => coro'[q] = coro[q]
        /\ \A b \in Actors : b # a => actor[b].pc # "creating" /\ actor'[b] = actor[b]
        /\ actor'[a] = Idle
      BY <2>2 DEF IInv, TypeOK, SliceInv
  <2>4. \A b \in Actors : actor'[b].pc # "creating"
      BY <2>3 DEF Idle
  <2>5. HasTask(r) /\ HasTask(r)'
      BY <1>0, <2>1, <2>2, <2>3 DEF HasTask
  <2>6. \A q \in RunIds : q # r => (HasTask(q)' <=> HasTask(q))
      BY <2>1, <2>3, <2>4 DEF HasTask
  <2>7. \A q \in RunIds : Busy(q)' <=> Busy(q)
      BY <2>2, <2>5, <2>6 DEF Busy
  <2>8. \A b \in Actors : actor'[b].pc = "waiting" => actor'[b] = actor[b]
      BY <2>3 DEF Idle
  <2>9. BusyInv'
      BY <2>2, <2>7, <2>8, BusyInvKept
  <2> QED BY <2>2, <2>7, <2>9, SameCount, SameCounted
<1>4. CASE CreateRaises(a)
  <2>1. PICK r \in RunIds : r = actor[a].run
      BY <1>4 DEF CreateRaises, IInv, TypeOK, Idle
  <2>2. /\ actor[a].pc = "creating" /\ actor' = [actor EXCEPT ![a] = Idle]
        /\ UNCHANGED <<status, owner, coro>>
      BY <1>4 DEF CreateRaises
  <2>3. /\ status[r] = "running" /\ coro[r] = "none" /\ actor'[a] = Idle
        /\ \A b \in Actors : b # a => actor[b].pc # "creating" /\ actor'[b] = actor[b]
      BY <2>1, <2>2 DEF IInv, TypeOK, SliceInv
  <2>4. /\ \A b \in Actors : actor'[b].pc # "creating"
        /\ \A b \in Actors : actor'[b].pc = "waiting" => actor'[b] = actor[b]
      BY <2>3 DEF Idle
  <2>5. Busy(r) /\ ~Busy(r)'
      BY <1>0, <2>1, <2>2, <2>3, <2>4 DEF Busy, HasTask
  <2>6. \A q \in RunIds : q # r => (Busy(q)' <=> Busy(q))
      BY <2>1, <2>2, <2>3, <2>4 DEF Busy, HasTask
  <2>7. BusyInv' /\ Counted!Strands(owner[r]) /\ owner[r] \in Sessions
      BY <2>2, <2>4, <2>5, <2>6, StrandCounts
  <2> QED BY <2>7 DEF Counted!Change
<1> QED BY <1>1, <1>2, <1>3, <1>4 DEF ActorStep

(* The process dies: no run is at work, every record is as it was or gone. *)
LEMMA CrashRestartCounts ==
    ASSUME CrashRestart
    PROVE  BusyInv' /\ Counted!Dies
<1>1. /\ \A r \in RunIds : coro'[r] = "none"
      /\ \A a \in Actors : actor'[a].pc = "idle"
    BY DEF CrashRestart, Idle
<1>2. \A r \in RunIds : ~Busy(r)'
    BY <1>1 DEF Busy, HasTask, Unfinished, TurnPhases, MidSlice, Sending
<1>3. LiveSessions' = {}
    BY <1>2 DEF LiveSessions
<1>4. BusyInv'
    BY <1>1, <1>2 DEF BusyInv
<1>5. CASE RunsSurvive
  <2>1. UNCHANGED <<RunningSessions, RunningRecords>>
      BY <1>5 DEF RunsSurvive, RunningSessions, HasRunningRun, RunningIn, RunningRecords
  <2> QED BY <1>3, <1>4, <2>1 DEF Counted!Dies
<1>6. CASE RunsTorn
  <2>1. RunningRecords' = {} /\ RunningSessions' = {}
      BY <1>6 DEF RunsTorn, NoRecord, RunningSessions, HasRunningRun, RunningIn, RunningRecords
  <2> QED BY <1>3, <1>4, <2>1, FS_EmptySet DEF Counted!Dies
<1> QED BY <1>5, <1>6 DEF CrashRestart

LEMMA NextCounts ==
    ASSUME ConstantsAssumption, Exclusive, ~WaitMayTimeOut, IInv, TurnInv, BusyInv, [Next]_vars
    PROVE  BusyInv' /\ [Counted!Change]_Counted!counted
<1> DEFINE Goal == BusyInv' /\ [Counted!Change]_Counted!counted
<1>1. ASSUME NEW a \in Actors, NEW s \in Sessions, StartRun(a, s) PROVE Goal
    BY <1>1, StartRunCounts
<1>2. ASSUME UNCHANGED <<status, owner, coro, actor>> PROVE Goal
    BY <1>2, QuietStepCounts
<1>3. ASSUME NEW a \in Actors, ActorStep(a) PROVE Goal
    BY <1>3, ActorStepCounts
<1>4. ASSUME NEW r \in RunIds, TaskStep(r) \/ CancelLost(r) PROVE Goal
    BY <1>4, TaskStepCounts
<1>5. ASSUME CrashRestart PROVE Goal
    BY <1>5, CrashRestartCounts DEF Counted!Change
<1>6. CASE Environment
  <2>1. CASE \E c \in Clients, s \in Sessions : RunStart(c, s)
      BY <1>1, <2>1 DEF RunStart, Actors
  <2>2. CASE \E c \in Clients, r \in RunIds : AbortRun(c, r)
      BY <1>2, <2>2 DEF AbortRun, files
  <2>3. CASE \E s \in Sessions : DispatchSensorEvent(s)
      BY <1>1, <2>3 DEF DispatchSensorEvent, Dispatch, Actors
  <2> QED BY <1>4, <1>5, <1>6, <2>1, <2>2, <2>3 DEF Environment
<1>7. ASSUME NEW s \in Sessions, HandleResume(s) PROVE Goal
    BY <1>1, <1>2, <1>7 DEF HandleResume, Dispatch, Actors, files
<1>8. CASE UNCHANGED vars
    BY <1>2, <1>8 DEF vars, files, memory
<1> QED BY <1>3, <1>4, <1>6, <1>7, <1>8 DEF Next

LEMMA InitCounts == Init => BusyInv /\ Counted!Begin
<1> SUFFICES ASSUME Init PROVE BusyInv /\ Counted!Begin
    OBVIOUS
<1>1. /\ \A r \in RunIds : status[r] = "absent"
      /\ \A a \in Actors : actor[a].pc = "idle"
    BY DEF Init, Idle, NoRecord
<1>2. BusyInv
    BY <1>1 DEF BusyInv, Busy
<1>3. RunningRecords = {} /\ LiveSessions = {} /\ RunningSessions = {}
    BY <1>1 DEF RunningRecords, LiveSessions, RunningSessions, Busy, HasRunningRun, RunningIn
<1> QED BY <1>2, <1>3, FS_EmptySet DEF Counted!Begin

(* Where each session has one caller and cancelled runs end in time, BusyInv holds. *)
THEOREM BusyInvariant ==
    ASSUME Exclusive, ~WaitMayTimeOut
    PROVE  Spec => []BusyInv
<1>1. ApartInv => TurnInv
    BY DEF ApartInv
<1>2. IInv /\ TurnInv /\ BusyInv /\ [Next]_vars => BusyInv'
    BY ConstantsAssumption, NextCounts
<1> QED BY <1>1, <1>2, InitCounts, InductiveInvariant, ApartInvariant, PTL DEF Spec

\* Of the running records of a session at most one has a task.
OneAtWork == \A q, r \in RunIds : Busy(q) /\ Busy(r) /\ owner[q] = owner[r] => q = r

(* What PHASE_02 says of the runs of a session, that a new one first cancels and awaits   *)
(* the one before, holds under these conditions of the runs that have a task (start_run:  *)
(* abort_run, wait_for_run, create); with two callers it does not (OneRunningPerSession). *)
THEOREM OneRunAtWork ==
    ASSUME Exclusive, ~WaitMayTimeOut
    PROVE  Spec => []OneAtWork
<1>1. BusyInv => OneAtWork
  <2> SUFFICES ASSUME BusyInv, NEW q \in RunIds, NEW r \in RunIds,
                      Busy(q), Busy(r), owner[q] = owner[r]
               PROVE  q = r
      BY DEF OneAtWork
  <2>1. q <= r /\ r <= q
      BY DEF BusyInv
  <2> QED BY <2>1
<1> QED BY <1>1, BusyInvariant, PTL

(* RunLifecycle implements SessionRuns, as long as no two callers start runs of one       *)
(* session and a cancelled run ends before start_run stops waiting for it: the autonomous  *)
(* coordinator counts by records that change only as it takes them to.                     *)
THEOREM CountsTheRuns ==
    ASSUME Exclusive, ~WaitMayTimeOut
    PROVE  Spec => CountsRuns
<1>1. ApartInv => TurnInv
    BY DEF ApartInv
<1>2. IInv /\ TurnInv /\ BusyInv /\ [Next]_vars => [Counted!Change]_Counted!counted
    BY ConstantsAssumption, NextCounts
<1> QED BY <1>1, <1>2, InitCounts, BusyInvariant, InductiveInvariant, ApartInvariant, PTL
        DEF Spec, CountsRuns, Counted!Counting

\* The facts of SessionRunsProofs, about the runs of RunLifecycle.
Tally == INSTANCE SessionRunsProofs WITH
    running <- RunningSessions, live <- LiveSessions, active <- Cardinality(RunningRecords)

LEMMA SameCounting == CountsRuns => Tally!Counting
<1>1. Counted!Begin => Tally!Begin
    BY DEF Counted!Begin, Tally!Begin
<1>2. Counted!Change => Tally!Change
    BY DEF Counted!Change, Counted!Begins, Counted!Ends, Counted!Strands, Counted!Dies,
           Counted!BeginsStranded, Counted!DiesBeginning, Tally!Change, Tally!Begins,
           Tally!Ends, Tally!Strands, Tally!BeginsStranded, Tally!Dies, Tally!DiesBeginning
<1>3. [Counted!Change]_Counted!counted => [Tally!Change]_Tally!counted
    BY <1>2 DEF Counted!counted, Tally!counted
<1> QED BY <1>1, <1>3, PTL DEF CountsRuns, Counted!Counting, Tally!Counting

(* No run at work escapes the two guards of the coordinator: its session is seen to be    *)
(* running and its record is in the count (_has_running_run, _has_dispatch_capacity).     *)
THEOREM RunsAreSeen ==
    ASSUME Exclusive, ~WaitMayTimeOut
    PROVE  Spec => []Tally!CountsTheLive
BY CountsTheRuns, SameCounting, Tally!LiveIsCounted

(* A record that outlived its run takes a place of autonomous_max_concurrent_runs, and no *)
(* step, a restart included, gives one back, unless a crash tears runs.json and every     *)
(* record is gone (nothing reconciles RunRegistry with the tasks).                        *)
THEOREM PlacesAreLost ==
    ASSUME Exclusive, ~WaitMayTimeOut
    PROVE  Spec => Tally!NeverGivenBack
BY CountsTheRuns, SameCounting, Tally!CapacityIsLost

-----------------------------------------------------------------------------
(* The task of a run winds down: what TaskEnds rests on. *)

\* How many phases at most are ahead of a task.
Ahead(r) ==
    CASE coro[r] = "scheduled"              -> 8
      [] coro[r] = "working"                -> 7
      [] coro[r] = "finishing"              -> 6
      [] coro[r] = "recording"              -> 5
      [] coro[r] \in {"emitting", "excepting"} -> 4
      [] coro[r] = "failing"                -> 3
      [] coro[r] \in {"erroring", "aborting"}  -> 2
      [] coro[r] \in Ended                  -> 1
      [] OTHER                              -> 0

\* A step leaves the task of run r fewer phases.
WindsDown(r) == Ahead(r)' < Ahead(r)

\* No run that was registered sets its task back, and a task without a phase ahead is gone.
NeverSetBack ==
    [][\A r \in RunIds : ledger[r] # "absent" => coro'[r] = coro[r] \/ WindsDown(r)]_vars

LEMMA TaskStepWindsDown ==
    ASSUME IInv, NEW r \in RunIds, TaskStep(r)
    PROVE  WindsDown(r) /\ \A q \in RunIds : q # r => coro'[q] = coro[q]
<1> USE DEF IInv, TypeOK
<1>0. \A q \in RunIds : q # r => coro'[q] = coro[q]
    BY OneRunSteps
<1>1. CASE TaskStart(r) \/ CancelUnstarted(r) \/ TurnFinished(r) \/ TurnRaised(r)
  <2>1. \/ coro[r] = "scheduled" /\ coro'[r] \in {"working", "excepting", "raised", "cancelled"}
        \/ coro[r] = "working" /\ coro'[r] \in {"finishing", "excepting"}
    <3>1. CASE TaskStart(r)
        BY <3>1 DEF TaskStart
    <3>2. CASE CancelUnstarted(r)
        BY <3>2 DEF CancelUnstarted
    <3>3. CASE TurnFinished(r) \/ TurnRaised(r)
        BY <3>3 DEF TurnFinished, TurnRaised
    <3> QED BY <1>1, <3>1, <3>2, <3>3
  <2> QED BY <1>0, <2>1 DEF WindsDown, Ahead, Ended
<1>2. CASE MarkSucceeded(r)
  <2>1. coro[r] = "finishing" /\ coro'[r] \in {"recording", "excepting"}
      BY <1>2 DEF MarkSucceeded
  <2> QED BY <1>0, <2>1 DEF WindsDown, Ahead, Ended
<1>3. CASE RecordUsage(r)
  <2>1. ASSUME Send(r, "done", "emitting", "returned")
        PROVE  coro'[r] \in {"emitting", "excepting"} \cup Ended
      BY <2>1, SendForm DEF Ended
  <2>2. ASSUME coro' = [coro EXCEPT ![r] = "excepting"]
        PROVE  coro'[r] \in {"emitting", "excepting"} \cup Ended
      BY <2>2
  <2>3. coro[r] = "recording" /\ coro'[r] \in {"emitting", "excepting"} \cup Ended
      BY <1>3, <2>1, <2>2 DEF RecordUsage
  <2> QED BY <1>0, <2>3 DEF WindsDown, Ahead, Ended
<1>4. CASE HandleException(r)
  <2>1. coro[r] = "excepting" /\ coro'[r] \in {"failing"} \cup Ended
      BY <1>4, LeaveForm DEF HandleException, Ended
  <2> QED BY <1>0, <2>1 DEF WindsDown, Ahead, Ended
<1>5. CASE MarkFailed(r)
  <2>1. coro[r] = "failing" /\ coro'[r] \in {"erroring"} \cup Ended
      BY <1>5, LeaveForm, SendForm DEF MarkFailed, Ended
  <2> QED BY <1>0, <2>1 DEF WindsDown, Ahead, Ended
<1>6. CASE TaskCancelled(r)
  <2>1. coro[r] \in {"working", "emitting"} /\ coro'[r] \in {"aborting"} \cup Ended
      BY <1>6, LeaveForm, SendForm DEF TaskCancelled, Ended
  <2> QED BY <1>0, <2>1 DEF WindsDown, Ahead, Ended
<1>7. CASE SendOver(r) \/ SendCancelled(r)
  <2>1. coro[r] \in {"emitting", "erroring", "aborting"} /\ coro'[r] \in Ended
    <3>1. CASE SendOver(r)
        BY <3>1, LeaveForm DEF SendOver, Sending, Ended
    <3>2. CASE SendCancelled(r)
        BY <3>2, LeaveForm DEF SendCancelled, Ended
    <3> QED BY <1>7, <3>1, <3>2
  <2> QED BY <1>0, <2>1 DEF WindsDown, Ahead, Ended
<1>8. CASE Finalize(r)
  <2>1. coro[r] \in Ended /\ coro'[r] = "none"
      BY <1>8 DEF Finalize
  <2> QED BY <1>0, <2>1 DEF WindsDown, Ahead, Ended
<1> QED BY <1>1, <1>2, <1>3, <1>4, <1>5, <1>6, <1>7, <1>8 DEF TaskStep

(* A task that was started is never set back or started again, a restart of the process   *)
(* included, and each of its steps leaves it fewer phases: it takes at most eight          *)
(* (_execute, TaskLedger._finalize; the fairness of the event loop is left to TaskEnds).   *)
THEOREM TasksWindDown == Spec => NeverSetBack
<1> DEFINE Down == \A r \in RunIds : ledger[r] # "absent" => coro'[r] = coro[r] \/ WindsDown(r)
<1>1. ASSUME IInv, [Next]_vars PROVE [Down]_vars
  <2> USE <1>1
  <2>1. CASE UNCHANGED coro
      BY <2>1
  <2>2. ASSUME NEW a \in Actors, NEW s, StartRun(a, s) PROVE UNCHANGED coro
      BY <2>2 DEF StartRun, StartAtOnce, StartAfterAbort, CreateRun
  <2>3. ASSUME NEW a \in Actors, ActorStep(a) PROVE Down
    <3>1. CASE CreateAfterWait(a) \/ RefuseAfterWait(a)
        BY <2>1, <3>1 DEF CreateAfterWait, CreateRun, RefuseAfterWait
    <3>3. CASE CreateRaises(a)
        BY <2>1, <3>3 DEF CreateRaises
    <3>2. CASE RegisterTask(a)
        BY <3>2 DEF RegisterTask, IInv, TypeOK, SliceInv
    <3> QED BY <2>3, <3>1, <3>2, <3>3 DEF ActorStep
  <2>4. ASSUME NEW r \in RunIds, TaskStep(r) PROVE Down
      BY <2>4, TaskStepWindsDown
  <2>5. ASSUME CrashRestart PROVE Down
    <3>1. ASSUME NEW r \in RunIds PROVE coro'[r] = coro[r] \/ WindsDown(r)
      <4>1. coro'[r] = "none" /\ coro[r] \in Phases
          BY <2>5 DEF CrashRestart, IInv, TypeOK
      <4>2. Ahead(r)' = 0
          BY <4>1 DEF Ahead, Ended
      <4>3. coro[r] # "none" => Ahead(r) > 0
          BY <4>1 DEF Ahead, Ended, Phases, Unfinished, TurnPhases, MidSlice, Sending
      <4> QED BY <4>1, <4>2, <4>3 DEF WindsDown
    <3> QED BY <3>1
  <2>6. CASE Environment
      BY <2>1, <2>2, <2>5, <2>6
         DEF Environment, RunStart, AbortRun, DispatchSensorEvent, Dispatch, CancelLost, Actors
  <2>7. ASSUME NEW s \in Sessions, HandleResume(s) PROVE Down
      BY <2>1, <2>2, <2>7 DEF HandleResume, Dispatch, Actors
  <2>8. CASE UNCHANGED vars
      BY <2>8 DEF vars
  <2> QED BY <2>3, <2>4, <2>6, <2>7, <2>8 DEF Next
<1> QED BY <1>1, InductiveInvariant, PTL DEF Spec, NeverSetBack
=============================================================================
