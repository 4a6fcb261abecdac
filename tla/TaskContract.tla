---------------------------- MODULE TaskContract ----------------------------
(***************************************************************************)
(* One task contract of DS Agent, edited by several clients: agent tools,  *)
(* HTTP routes, the command line, Telegram and the automatic verifier.     *)
(* Every use case loads the whole aggregate, works on its copy and saves   *)
(* it with the version it loaded.  Rendering and dispatching a delivery    *)
(* pack take long and act on the outside before the save; a client may die *)
(* at any point and lose its copy.                                         *)
(***************************************************************************)
EXTENDS Naturals, FiniteSets

CONSTANTS
  Clients,          \* callers of the use cases
  Editors,          \* those that do more than render and dispatch packs
  Runs, NoRun,      \* runs of the agent, and the absent run id
  Slots,            \* the audiences a delivery pack may have an artifact for
  Channels,         \* delivery channels
  Configured,       \* <<slot, channel>> pairs: the channels the artifacts are configured with
  Permitted,        \* <<slot, channel>> pairs the delivery policy lets through
  ManualSlots,      \* slots with dispatch_mode manual_review
  MissionSlots,     \* audiences whose artifacts the mission pack requires
  MissionChannels,  \* channels the mission pack requires
  Reviewers,        \* kinds of verdicts recorded in the instance besides the automatic one
  Grades,           \* results a verdict may have in the instance
  Patchable,        \* contract fields a patch may change in the instance
  GivenPacks,       \* packs that record_delivery_pack may be given
  RenderOutcomes,   \* what the narrative verifier may say: "pass", "rejected"
  MaxVersion, MaxPacks, MaxOverlaps   \* bounds

ASSUME RunAssumption == NoRun \notin Runs
ASSUME MissionAssumption == MissionSlots \subseteq Slots /\ MissionChannels \subseteq Channels
ASSUME ClientAssumption == Editors \subseteq Clients
ASSUME VerdictAssumption ==
  Reviewers \subseteq {"orchestrator", "legacy"} /\ Grades \subseteq {"pass", "warn", "fail", "gap"}
ASSUME BoundAssumption == MaxVersion \in Nat \ {0} /\ MaxPacks \in Nat /\ MaxOverlaps \in Nat
ASSUME OutcomeAssumption == RenderOutcomes \subseteq {"pass", "rejected"}

VARIABLES
  stored,      \* the aggregate in the database
  cl,          \* what each client is doing, with its copy of the aggregate
  nextPack,    \* the next delivery pack id
  logged,      \* keys the dispatch log has a "sent" record of
  sent,        \* history: how often (up to twice) an artifact went out on a channel
  doubt,       \* history: keys with a send that no record may show in time
  recorded,    \* history: packs that record_delivery_pack wrote as given
  renderings,  \* history: <<pack, slot>> pairs that a stored pack had rendered
  closedPack,  \* history: the delivery pack a mission's contract was closed with
  overlaps     \* history: saves written between the check and the write of another

vars == <<stored, cl, nextPack, logged, sent, doubt, recorded, renderings, closedPack, overlaps>>

-----------------------------------------------------------------------------
Statuses == {"none", "draft", "agreed", "in_progress", "review", "closed", "abandoned"}
Results == {"none", "pass", "warn", "fail", "gap"}
PackIds == 1..MaxPacks
Keys == PackIds \X Slots \X Channels

\* A verdict; "gap" is one whose metadata lists a required check of the mission that
\* did not pass.  Only the effective verdict is kept (see Effective), with the runs
\* that have a verdict of the automatic verifier.
Verdict == [kind : {"none", "auto", "orchestrator", "legacy"},
            run : Runs \cup {NoRun}, result : Results]
NoVerdict == [kind |-> "none", run |-> NoRun, result |-> "none"]

PackStatus == {"none", "draft", "rendered", "rejected", "dispatched"}
Pack == [id : {0} \cup PackIds, artifacts : SUBSET Slots, rendered : SUBSET Slots,
         delivered : SUBSET Slots, status : PackStatus]
NoPack == [id |-> 0, artifacts |-> {}, rendered |-> {}, delivered |-> {}, status |-> "none"]
ASSUME GivenAssumption ==
  GivenPacks \subseteq {p \in Pack : p.status # "none" /\ p.rendered \cup p.delivered \subseteq p.artifacts}

Bundle == [status : Statuses, version : 0..MaxVersion, deliverables : SUBSET Slots,
           minPass : BOOLEAN, mission : BOOLEAN, verdict : Verdict, autoRuns : SUBSET Runs,
           pack : Pack]
NoBundle == [status |-> "none", version |-> 0, deliverables |-> {}, minPass |-> FALSE,
             mission |-> FALSE, verdict |-> NoVerdict, autoRuns |-> {},
             pack |-> NoPack]

Phases == {"idle", "viewed", "verifying", "rendering", "dispatching", "sending",
           "saving", "writing"}
Client == [pc : Phases, expected : 0..MaxVersion, run : Runs \cup {NoRun}, b : Bundle,
           slot : Slots \cup {NoRun}, todo : SUBSET Keys, key : Keys \cup {NoRun},
           reached : SUBSET Slots, refused : BOOLEAN, approved : BOOLEAN, closes : BOOLEAN]
Idle == [pc |-> "idle", expected |-> 0, run |-> NoRun, b |-> NoBundle, slot |-> NoRun,
         todo |-> {}, key |-> NoRun, reached |-> {}, refused |-> FALSE, approved |-> FALSE,
         closes |-> FALSE]

-----------------------------------------------------------------------------
(* The rules of the aggregate.                                             *)

Allowed == [none        |-> {},
            draft       |-> {"agreed", "abandoned"},
            agreed      |-> {"in_progress", "abandoned"},
            in_progress |-> {"in_progress", "review"},
            review      |-> {"in_progress", "closed", "abandoned"},
            closed      |-> {},
            abandoned   |-> {}]

\* The verdict the gates look at: the latest of category "orchestrator", or else the
\* latest of all.
Effective(old, new) ==
  IF new.kind = "legacy" /\ old.kind \in {"auto", "orchestrator"} THEN old ELSE new

ReadyForReviewAnyVerdict(b, run) ==
  /\ b.verdict.kind # "none" /\ b.verdict.result # "gap"
  /\ b.mission => MissionSlots \subseteq b.deliverables
ReadyForReview(b, run) ==
  /\ b.verdict.kind = "auto"
  /\ run # NoRun => b.verdict.run = run
  /\ b.verdict.result # "gap"
  /\ b.mission => MissionSlots \subseteq b.deliverables

MissionSatisfiedByFlags(b) == MissionSlots \subseteq b.deliverables \cap b.pack.delivered

\* The mission's artifacts are declared and delivered, and its channels have records
\* under the pack of the contract.
MissionSatisfied(b) ==
  /\ MissionSlots \subseteq b.deliverables \cap b.pack.delivered
  /\ \A ch \in MissionChannels : \E s \in Slots : <<b.pack.id, s, ch>> \in logged

ReadyToClose(b) ==
  /\ b.verdict.kind # "none"
  /\ b.verdict.result \notin {"fail", "gap"}
  /\ b.minPass => b.verdict.result = "pass"
  /\ b.pack.id # 0
  /\ b.pack.status # "rejected"
  /\ b.pack.artifacts # {}
  /\ b.pack.artifacts \subseteq b.pack.delivered
  /\ b.mission => MissionSatisfied(b)

ValidTransition(b, target, run) ==
  /\ target \in Allowed[b.status]
  /\ b.status = "draft" /\ target = "agreed" => b.deliverables # {}
  /\ b.status = "in_progress" /\ target = "review" => ReadyForReview(b, run)
  /\ target = "closed" => ReadyToClose(b)

Touched(b) == [b EXCEPT !.version = @ + 1]

-----------------------------------------------------------------------------
(* Loading, and the use cases that only edit the copy.  The client goes on *)
(* to save the edited copy b.                                              *)

\* The contract exists and can be read (and its version has not met the bound).
Readable == stored.status # "none" /\ stored.version < MaxVersion

Loads(c) == cl[c].pc = "idle" /\ Readable

SaveAs(c, b, closes) ==
  cl' = [cl EXCEPT ![c] = [Idle EXCEPT !.pc = "saving", !.b = Touched(b), !.closes = closes]]
ToSave(c, b) == SaveAs(c, b, FALSE)

Outside == <<logged, sent, doubt>>
Saved == <<renderings, closedPack, overlaps>>

NewContract(d, n) ==
  [status |-> "draft", version |-> 1, deliverables |-> d, minPass |-> FALSE, mission |-> n,
   verdict |-> NoVerdict, autoRuns |-> {}, pack |-> NoPack]

\* CreateTaskContractUseCase: an INSERT of a new aggregate, version 1.
Create(c) ==
  /\ cl[c].pc = "idle" /\ stored.status = "none"
  /\ \E d \in SUBSET Slots, n \in BOOLEAN : stored' = NewContract(d, n)
  /\ UNCHANGED <<cl, nextPack, Outside, recorded, Saved>>

\* A client reads the contract; its next update or closing names the version it saw.
View(c) ==
  /\ Loads(c)
  /\ cl' = [cl EXCEPT ![c].pc = "viewed", ![c].expected = stored.version]
  /\ UNCHANGED <<stored, nextPack, Outside, recorded, Saved>>

VersionConflict(c) ==
  /\ cl[c].pc = "viewed" /\ stored.version # cl[c].expected
  /\ cl' = [cl EXCEPT ![c] = Idle]
  /\ UNCHANGED <<stored, nextPack, Outside, recorded, Saved>>

Viewed(c) == cl[c].pc = "viewed" /\ stored.version = cl[c].expected /\ Readable

\* The patched contract: no status forbids a patch.
Patched(b, d, m, n) == [b EXCEPT !.deliverables = d, !.minPass = m, !.mission = n]
MayPatch(b, d, m, n) ==
  /\ d # b.deliverables => "deliverables" \in Patchable
  /\ m # b.minPass => "definition_of_done" \in Patchable
  /\ n # b.mission => "mission" \in Patchable

\* UpdateTaskContractUseCase: a patch (of nothing, or of what no gate reads, among others),
\* then perhaps a transition of the patched contract.
Update(c) ==
  /\ Viewed(c)
  /\ \E d \in SUBSET Slots, m \in BOOLEAN, n \in BOOLEAN :
       LET e == Patched(stored, d, m, n)
       IN  /\ MayPatch(stored, d, m, n)
           /\ \/ ToSave(c, e)
              \/ \E target \in Statuses, run \in Runs \cup {NoRun} :
                   /\ ValidTransition(e, target, run)
                   /\ SaveAs(c, [e EXCEPT !.status = target], target = "closed")
  /\ UNCHANGED <<stored, nextPack, Outside, recorded, Saved>>

\* CloseTaskContractUseCase: the gates of the transition, but no run to compare.
Close(c) ==
  /\ Viewed(c)
  /\ ValidTransition(stored, "closed", NoRun)
  /\ SaveAs(c, [stored EXCEPT !.status = "closed"], TRUE)
  /\ UNCHANGED <<stored, nextPack, Outside, recorded, Saved>>

\* The transition raises, or the client makes no call.
UpdateRefused(c) ==
  /\ Viewed(c)
  /\ cl' = [cl EXCEPT ![c] = Idle]
  /\ UNCHANGED <<stored, nextPack, Outside, recorded, Saved>>

\* AddAssumptionUseCase, VerifyAssumptionUseCase: an edit of what no gate reads.
EditAssumption(c) ==
  /\ Loads(c)
  /\ ToSave(c, stored)
  /\ UNCHANGED <<stored, nextPack, Outside, recorded, Saved>>

WithVerdict(b, v) ==
  [b EXCEPT !.verdict = Effective(@, v),
            !.autoRuns = IF v.kind = "auto" THEN @ \cup {v.run} ELSE @]

\* RecordReviewVerdictUseCase of a person or of run_verifier: no status forbids it.
RecordReviewVerdict(c) ==
  /\ Loads(c)
  /\ \E k \in Reviewers, r \in Grades :
       ToSave(c, WithVerdict(stored, [kind |-> k, run |-> NoRun, result |-> r]))
  /\ UNCHANGED <<stored, nextPack, Outside, recorded, Saved>>

\* AutoVerifierHook.on_final_response: the verifier is awaited, then its verdict, or
\* "warn" after a timeout or an error, is recorded on whatever the contract is by then.
StartVerifier(c) ==
  /\ Loads(c) /\ stored.status = "in_progress"
  /\ \E r \in Runs : cl' = [cl EXCEPT ![c].pc = "verifying", ![c].run = r]
  /\ UNCHANGED <<stored, nextPack, Outside, recorded, Saved>>

RecordAutoVerdict(c) ==
  /\ cl[c].pc = "verifying" /\ Readable
  /\ \E r \in Grades :
       ToSave(c, WithVerdict(stored, [kind |-> "auto", run |-> cl[c].run, result |-> r]))
  /\ UNCHANGED <<stored, nextPack, Outside, recorded, Saved>>

-----------------------------------------------------------------------------
(* Delivery packs.                                                         *)

NewPack(s) == [id |-> nextPack, artifacts |-> s, rendered |-> {}, delivered |-> {},
               status |-> "draft"]

BuildDeliveryPack(c) ==
  /\ Loads(c) /\ nextPack <= MaxPacks
  /\ \E s \in SUBSET stored.deliverables :
       /\ s # {}
       /\ ToSave(c, [stored EXCEPT !.pack = NewPack(s)])
  /\ nextPack' = nextPack + 1
  /\ UNCHANGED <<stored, Outside, recorded, Saved>>

\* RecordDeliveryPackUseCase writes the pack it is given.
RecordDeliveryPack(c) ==
  /\ Loads(c) /\ nextPack <= MaxPacks
  /\ \E g \in GivenPacks : ToSave(c, [stored EXCEPT !.pack = [g EXCEPT !.id = nextPack]])
  /\ nextPack' = nextPack + 1
  /\ recorded' = recorded \cup {nextPack}
  /\ UNCHANGED <<stored, Outside, Saved>>

\* RenderDeliveryArtifactUseCase loads the aggregate and then renders, in a thread.
StartRender(c) ==
  /\ Loads(c)
  /\ \E s \in stored.pack.artifacts :
       cl' = [cl EXCEPT ![c].pc = "rendering", ![c].slot = s, ![c].b = stored]
  /\ UNCHANGED <<stored, nextPack, Outside, recorded, Saved>>

RenderedRaw(p, s, outcome) ==
  [p EXCEPT !.rendered = @ \cup {s}, !.delivered = p.rendered \cup {s}, !.status = outcome]

\* The items are rebuilt from the artifacts: whatever has a rendered_uri counts as
\* delivered.  The status is that of this one rendering.
Rendered(p, s, outcome) ==
  [p EXCEPT !.rendered = @ \cup {s},
            !.delivered = p.rendered \cup {s},
            !.status = IF outcome = "rejected" THEN "rejected" ELSE "rendered"]

FinishRender(c) ==
  /\ cl[c].pc = "rendering"
  /\ \E outcome \in RenderOutcomes :
       ToSave(c, [cl[c].b EXCEPT !.pack = Rendered(@, cl[c].slot, outcome)])
  /\ UNCHANGED <<stored, nextPack, Outside, recorded, Saved>>

\* The selected artifacts of pack p on the selected channels, or on all, that they are
\* configured with.
Selected(p, s, chs) ==
  {k \in Keys : k[1] = p.id /\ k[2] \in s /\ k[3] \in chs /\ <<k[2], k[3]>> \in Configured}

StartDispatch(c) ==
  /\ Loads(c) /\ stored.pack.id # 0 /\ stored.pack.status # "rejected"
  /\ \E s \in SUBSET stored.pack.artifacts, chs \in SUBSET Channels, ok \in BOOLEAN :
       /\ s # {} /\ (chs = Channels \/ Selected(stored.pack, s, chs) # {})
       /\ cl' = [cl EXCEPT ![c] = [Idle EXCEPT !.pc = "dispatching", !.b = stored,
                                 !.todo = Selected(stored.pack, s, chs), !.approved = ok]]
  /\ UNCHANGED <<stored, nextPack, Outside, recorded, Saved>>

OneMore(n) == IF n = 2 THEN 2 ELSE n + 1

PolicyAllowsUnrendered(p, k, approved) ==
  <<k[2], k[3]>> \in Permitted /\ (k[2] \in ManualSlots => approved)
PolicyAllows(p, k, approved) ==
  /\ k[2] \in p.rendered
  /\ <<k[2], k[3]>> \in Permitted
  /\ k[2] \in ManualSlots => approved

Receipt(c, k, success) ==
  cl' = [cl EXCEPT ![c].todo = @ \ {k}, ![c].pc = "dispatching", ![c].key = NoRun,
                   ![c].reached = IF success THEN @ \cup {k[2]} ELSE @,
                   ![c].refused = @ \/ ~success]

DuplicateOfAnyPack(c) ==
  /\ cl[c].pc = "dispatching"
  /\ \E k \in cl[c].todo, l \in logged : k[2] = l[2] /\ k[3] = l[3] /\ Receipt(c, k, TRUE)
  /\ UNCHANGED <<stored, nextPack, Outside, recorded, Saved>>

\* The log already has a "sent" record of the key: the receipt is a "duplicate".
Duplicate(c) ==
  /\ cl[c].pc = "dispatching"
  /\ \E k \in cl[c].todo : k \in logged /\ Receipt(c, k, TRUE)
  /\ UNCHANGED <<stored, nextPack, Outside, recorded, Saved>>

\* The policy or a missing adapter refuses.
Blocked(c) ==
  /\ cl[c].pc = "dispatching"
  /\ \E k \in cl[c].todo \ logged : Receipt(c, k, FALSE)
  /\ UNCHANGED <<stored, nextPack, Outside, recorded, Saved>>

InFlight(k) == \E c \in Clients : cl[c].pc = "sending" /\ cl[c].key = k

AttemptAgain(c) ==
  /\ cl[c].pc = "dispatching"
  /\ \E k \in cl[c].todo :
       /\ PolicyAllows(cl[c].b.pack, k, cl[c].approved)
       /\ doubt' = IF InFlight(k) THEN doubt \cup {k} ELSE doubt
       /\ cl' = [cl EXCEPT ![c].pc = "sending", ![c].key = k]
  /\ UNCHANGED <<stored, nextPack, logged, sent, recorded, Saved>>

\* The log has no "sent" record of the key, the policy agrees and the adapter is called.
Attempt(c) ==
  /\ cl[c].pc = "dispatching"
  /\ \E k \in cl[c].todo \ logged :
       /\ PolicyAllows(cl[c].b.pack, k, cl[c].approved)
       /\ doubt' = IF InFlight(k) THEN doubt \cup {k} ELSE doubt
       /\ cl' = [cl EXCEPT ![c].pc = "sending", ![c].key = k]
  /\ UNCHANGED <<stored, nextPack, logged, sent, recorded, Saved>>

GoesOut(k) == sent' = [sent EXCEPT ![k] = OneMore(@)]

\* The adapter returns and the record is appended.
Sent(c) ==
  /\ cl[c].pc = "sending"
  /\ GoesOut(cl[c].key)
  /\ logged' = logged \cup {cl[c].key}
  /\ Receipt(c, cl[c].key, TRUE)
  /\ UNCHANGED <<stored, nextPack, doubt, recorded, Saved>>

\* What is left of a call whose answer nobody gets: it reached the receiver, or not.
NoAnswer(k) == \/ UNCHANGED <<sent, doubt>>
               \/ GoesOut(k) /\ doubt' = doubt \cup {k}

\* The adapter raises.
SendFailed(c) ==
  /\ cl[c].pc = "sending"
  /\ NoAnswer(cl[c].key)
  /\ Receipt(c, cl[c].key, FALSE)
  /\ UNCHANGED <<stored, nextPack, logged, recorded, Saved>>

\* An artifact counts as delivered once one of its channels took it; the pack is
\* dispatched when nothing that was selected was refused.
Dispatched(p, reached, refused) ==
  [p EXCEPT !.delivered = @ \cup reached,
            !.status = IF reached # {} /\ ~refused THEN "dispatched" ELSE @]

FinishDispatch(c) ==
  /\ cl[c].pc = "dispatching" /\ cl[c].todo = {}
  /\ ToSave(c, [cl[c].b EXCEPT !.pack = Dispatched(@, cl[c].reached, cl[c].refused)])
  /\ UNCHANGED <<stored, nextPack, Outside, recorded, Saved>>

-----------------------------------------------------------------------------
(* SqliteTaskContractStore.save_bundle.                                    *)

Commit(b, closes) ==
  /\ stored' = b
  /\ renderings' = renderings \cup {<<b.pack.id, s>> : s \in b.pack.rendered}
  /\ closedPack' = IF closes /\ b.mission THEN b.pack.id ELSE closedPack

\* The version read before the write is not the one the client loaded.
SaveConflict(c) ==
  /\ cl[c].pc = "saving" /\ stored.version # cl[c].b.version - 1
  /\ cl' = [cl EXCEPT ![c] = Idle]
  /\ UNCHANGED <<stored, nextPack, Outside, recorded, Saved>>

CheckVersionBlind(c) ==
  /\ cl[c].pc = "saving"
  /\ cl' = [cl EXCEPT ![c].pc = "writing"]
  /\ UNCHANGED <<stored, nextPack, Outside, recorded, Saved>>

\* The SELECT of the version is no part of the transaction that the INSERT opens, and
\* the lock is one of the store object: each client has a store of its own.
CheckVersion(c) ==
  /\ cl[c].pc = "saving" /\ stored.version = cl[c].b.version - 1
  /\ cl' = [cl EXCEPT ![c].pc = "writing"]
  /\ UNCHANGED <<stored, nextPack, Outside, recorded, Saved>>

Others(c) == {d \in Clients \ {c} : cl[d].pc = "writing"}

\* INSERT OR REPLACE and COMMIT.
Write(c) ==
  /\ cl[c].pc = "writing"
  /\ overlaps' = IF Others(c) = {} THEN overlaps ELSE overlaps + 1
  /\ overlaps' <= MaxOverlaps
  /\ Commit(cl[c].b, cl[c].closes)
  /\ cl' = [cl EXCEPT ![c] = Idle]
  /\ UNCHANGED <<nextPack, Outside, recorded>>

\* The process of a client dies, or its use case raises (a rendering that fails).
Die(c) ==
  /\ cl[c].pc # "idle"
  /\ IF cl[c].pc = "sending" THEN NoAnswer(cl[c].key) ELSE UNCHANGED <<sent, doubt>>
  /\ cl' = [cl EXCEPT ![c] = Idle]
  /\ UNCHANGED <<stored, nextPack, logged, recorded, Saved>>

-----------------------------------------------------------------------------
Init ==
  /\ stored = NoBundle
  /\ cl \in [Clients -> {Idle}]
  /\ nextPack = 1
  /\ logged = {} /\ doubt = {} /\ recorded = {} /\ renderings = {} /\ overlaps = 0
  /\ sent \in [Keys -> {0}]
  /\ closedPack = 0

Edits(c) == \/ Create(c) \/ View(c) \/ VersionConflict(c) \/ Update(c) \/ Close(c)
            \/ UpdateRefused(c) \/ EditAssumption(c)
            \/ RecordReviewVerdict(c) \/ StartVerifier(c) \/ RecordAutoVerdict(c)
            \/ BuildDeliveryPack(c) \/ RecordDeliveryPack(c)
Delivers(c) == \/ StartRender(c)
               \/ FinishRender(c) \/ StartDispatch(c) \/ Duplicate(c) \/ Blocked(c)
               \/ Attempt(c) \/ Sent(c) \/ SendFailed(c) \/ FinishDispatch(c)
Saves(c) == SaveConflict(c) \/ CheckVersion(c) \/ Write(c) \/ Die(c)

Next == \/ \E c \in Editors : Edits(c)
        \/ \E c \in Clients : Delivers(c) \/ Saves(c)

Spec == Init /\ [][Next]_vars

-----------------------------------------------------------------------------
(* Properties.                                                             *)

\* The variables keep their types.
TypeOK ==
  /\ stored \in Bundle
  /\ cl \in [Clients -> Client]
  /\ nextPack \in 1..(MaxPacks + 1)
  /\ logged \subseteq Keys
  /\ sent \in [Keys -> 0..2]
  /\ doubt \subseteq Keys
  /\ recorded \subseteq PackIds
  /\ renderings \subseteq ({0} \cup PackIds) \X Slots
  /\ closedPack \in {0} \cup PackIds
  /\ overlaps \in 0..MaxOverlaps

\* A contract in review or closed carries a verdict of the automatic verifier for a run,
\* although verdicts, renderings and dispatches of other clients are saved between.
ReviewHasAutoVerdict == stored.status \in {"review", "closed"} => stored.autoRuns # {}

\* Every delivered artifact of a pack the application built was rendered in that pack, as
\* it was once stored (a later save may have lost the rendering): a receipt of another
\* pack, or of the same audience in a pack that was replaced, does not count.
DeliveredWasRendered ==
  stored.pack.id \notin recorded => {stored.pack.id} \X stored.pack.delivered \subseteq renderings

\* A pack the application marks dispatched went out to somebody.
DispatchedWasSent ==
  stored.pack.status = "dispatched" /\ stored.pack.id \notin recorded =>
    \E s \in Slots, ch \in Channels : sent[<<stored.pack.id, s, ch>>] > 0

\* A dispatch that is repeated (after a conflict, a partial success, a new rendering)
\* sends no artifact to a channel twice, except where a sender died before it logged, an
\* answer was lost, or two dispatches overlapped.
SentOnce == \A k \in Keys : sent[k] > 1 => k \in doubt

\* A mission's contract was closed with a pack that went out on every channel the
\* mission requires, whatever saves of others overlap with the closing.
ClosedWasSent ==
  closedPack # 0 =>
    \A ch \in MissionChannels : \E s \in Slots : sent[<<closedPack, s, ch>>] > 0

\* A closed or abandoned contract stays so.
TerminalIsFinal ==
  [][stored.status \in {"closed", "abandoned"} => stored'.status = stored.status]_vars

\* Until a save is written in the window of another, the stored aggregate goes one version
\* after the other and one edge of the table at a time, and loses no recorded verdict: the
\* version check finds every stale copy.
Promised == INSTANCE ContractPromise WITH
  status <- stored.status, version <- stored.version, autoRuns <- stored.autoRuns,
  overlap <- overlaps > 0
KeepsPromise == Promised!Promise
=============================================================================
