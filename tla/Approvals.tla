----------------------------- MODULE Approvals -----------------------------
(***************************************************************************)
(* The approval bus: questions of the agent and semantic proposals that    *)
(* wait for an operator, one JSON file each (JsonApprovalStore), the       *)
(* surfaces that answer them (WebSocket approval.submit and                *)
(* approval.resolve, Telegram, `ds-agent semantic proposal`), the ask_user *)
(* tool that polls the file, the review and application of the proposal an *)
(* approval stands for, and the grant an approval may leave behind.        *)
(*                                                                         *)
(* Two operating-system processes share the files: "api", one event loop   *)
(* for WebSocket, Telegram and agent, whose handlers run without an await, *)
(* and "cli".  A handler is split at every file or database access the     *)
(* other process or a crash can come between; `op` is where it stands and  *)
(* what it holds in its hands.                                             *)
(***************************************************************************)
EXTENDS Naturals, FiniteSets

CONSTANTS
    Questions,   \* approvals created by ask_user
    Proposals,   \* approvals of kind semantic_proposal, one per proposal
    MaxCrashes,  \* bound on the crashes of either process
    MaxSaves     \* bound on the writes of one proposal into the semantic memory

ASSUME ApprovalsAssumption ==
    /\ Questions \cap Proposals = {}
    /\ MaxCrashes \in Nat
    /\ MaxSaves \in Nat

Ids       == Questions \cup Proposals
Processes == {"api", "cli"}

\* "approve" stands for the default reply, "apply" for any other, which for a
\* proposal is the word "apply"; "reject" comes with a reason nothing depends on.
Answers   == {"approve", "apply", "reject"}
Verdict(answer) == IF answer = "reject" THEN "rejected" ELSE "approved"

VARIABLES
    \* --- files and database ---
    rec,       \* the approval file: status and response
    proposal,  \* status of the semantic proposal
    eligible,  \* its auto_apply_eligible flag
    saves,     \* how often it was written into the semantic memory
    grants,    \* number of grants issued from the approval
    \* --- memory of the processes ---
    op,        \* the handler each process is in
    waiter,    \* the ask_user call of a question
    \* --- outside ---
    given,     \* history: the answers operators gave, and where
    acted,     \* history: the answer ask_user returned
    crashes    \* crashes so far

vars == <<rec, proposal, eligible, saves, grants, op, waiter, given, acted, crashes>>

Unreadable == {"absent", "torn"}   \* no file, or one that a crash left half written
Resolved   == {"approved", "rejected"}
Records    == [status : Unreadable \cup {"pending"} \cup Resolved,
               response : Answers \cup {"none"}]
Statuses   == {"pending", "approved", "rejected", "applied"}
Steps      == {"listed", "metadata", "review", "reviewed", "apply", "save",
               "saved", "outcome", "grant"}

Idle == [step |-> "idle"]

\* What a handler holds: the approval, the operator's answer, whether it allows beyond
\* this once, the approval record and the proposal status it has read.
Contexts == [step : Steps, id : Ids, answer : Answers, scope : BOOLEAN,
             held : Records, seen : Statuses]

TypeOK ==
    /\ rec \in [Ids -> Records]
    /\ proposal \in [Proposals -> Statuses]
    /\ eligible \in [Proposals -> BOOLEAN]
    /\ saves \in [Proposals -> 0 .. MaxSaves]
    /\ grants \in [Ids -> Nat]
    /\ op \in [Processes -> Contexts \cup {Idle}]
    /\ waiter \in [Questions -> {"none", "waiting", "answered", "gone"}]
    /\ given \in [Ids -> SUBSET [answer : Answers, by : Processes]]
    /\ acted \in [Questions -> Answers \cup {"none"}]
    /\ crashes \in 0 .. MaxCrashes

Init ==
    /\ rec = [a \in Ids |-> [status |-> "absent", response |-> "none"]]
    /\ proposal = [a \in Proposals |-> "pending"]
    /\ eligible \in [Proposals -> BOOLEAN]
    /\ saves = [a \in Proposals |-> 0]
    /\ grants = [a \in Ids |-> 0]
    /\ op = [p \in Processes |-> Idle]
    /\ waiter = [a \in Questions |-> "none"]
    /\ given = [a \in Ids |-> {}]
    /\ acted = [a \in Questions |-> "none"]
    /\ crashes = 0

-----------------------------------------------------------------------------
(* Helpers *)

At(p, step) == op[p].step = step
GoTo(p, step) == op' = [op EXCEPT ![p].step = step]
Carry(p, step, status) == op' = [op EXCEPT ![p].step = step, ![p].seen = status]
Leave(p) == op' = [op EXCEPT ![p] = Idle]

Readable(a) == rec[a].status \notin Unreadable

\* What JsonApprovalStore.resolve writes: the given status, whatever the old one was.
Answered(answer) == [status |-> Verdict(answer), response |-> answer]

Give(p, a, answer) == given' = [given EXCEPT ![a] = @ \cup {[answer |-> answer, by |-> p]}]

\* The handler of p goes on to `step` with this in its hands.
Hold(p, step, a, answer, scope, held, seen) ==
    op' = [op EXCEPT ![p] = [step |-> step, id |-> a, answer |-> answer,
                             scope |-> scope, held |-> held, seen |-> seen]]

\* SemanticProposalStatus.can_transition_to
CanMove(a, from, to) ==
    \/ from = to
    \/ from = "pending" /\ to \in {"approved", "rejected"}
    \/ from = "approved" /\ to = "applied"
    \/ from = "pending" /\ to = "applied" /\ eligible[a]

-----------------------------------------------------------------------------
(* The agent *)

\* JsonApprovalStore.create, by ask_user or by the semantic write-back hook
Create(a) ==
    /\ At("api", "idle")
    /\ rec[a].status = "absent"
    /\ rec' = [rec EXCEPT ![a].status = "pending"]
    /\ waiter' = [q \in Questions |-> IF q = a THEN "waiting" ELSE waiter[q]]
    /\ UNCHANGED <<proposal, eligible, saves, grants, op, given, acted, crashes>>

\* Mutants: the poll returns the default of a pending question; it looks for approvals
\* only.
PollWith(a, seen, reply) ==
    /\ At("api", "idle")
    /\ waiter[a] = "waiting"
    /\ rec[a].status \in seen
    /\ waiter' = [waiter EXCEPT ![a] = "answered"]
    /\ acted' = [acted EXCEPT ![a] = reply]
    /\ UNCHANGED <<rec, proposal, eligible, saves, grants, op, given, crashes>>

PollDefault(a) ==
    PollWith(a, Resolved \cup {"pending"},
             IF rec[a].response = "none" THEN "approve" ELSE rec[a].response)
PollApproved(a) == PollWith(a, {"approved"}, rec[a].response)

\* wait_for_resolution finds a status other than pending, and ask_user returns it.
Poll(a) ==
    /\ At("api", "idle")
    /\ waiter[a] = "waiting"
    /\ rec[a].status \in Resolved
    /\ waiter' = [waiter EXCEPT ![a] = "answered"]
    /\ acted' = [acted EXCEPT ![a] = IF rec[a].status = "rejected" THEN "reject"
                                                                 ELSE rec[a].response]
    /\ UNCHANGED <<rec, proposal, eligible, saves, grants, op, given, crashes>>

\* The tool's 300 s are over, or the run is aborted: the approval stays as it is.
StopWaiting(a) ==
    /\ At("api", "idle")
    /\ waiter[a] = "waiting"
    /\ waiter' = [waiter EXCEPT ![a] = "gone"]
    /\ UNCHANGED <<rec, proposal, eligible, saves, grants, op, given, acted, crashes>>

-----------------------------------------------------------------------------
(* The api process answers *)

\* Mutant: the submit handler does not look at the status.
SubmitAgain(a, answer, scope) ==
    /\ At("api", "idle")
    /\ Readable(a)
    /\ scope => answer # "reject"
    /\ rec' = [rec EXCEPT ![a] = Answered(answer)]
    /\ Give("api", a, answer)
    /\ Hold("api", "metadata", a, answer, scope, Answered(answer), "pending")
    /\ UNCHANGED <<proposal, eligible, saves, grants, waiter, acted, crashes>>

\* SubmitApprovalUseCase.execute up to resolve, from the WebSocket or from an inline
\* button of Telegram; scope: it allows for the session or the workspace.
Submit(a, answer, scope) ==
    /\ At("api", "idle")
    /\ rec[a].status = "pending"
    /\ scope => answer # "reject"
    /\ rec' = [rec EXCEPT ![a] = Answered(answer)]
    /\ Give("api", a, answer)
    /\ Hold("api", "metadata", a, answer, scope, Answered(answer), "pending")
    /\ UNCHANGED <<proposal, eligible, saves, grants, waiter, acted, crashes>>

\* AppState.resolve_approval: no test of the status; a proposal is reviewed again.
ResolveApproval(a, answer) ==
    /\ At("api", "idle")
    /\ Readable(a)
    /\ rec' = [rec EXCEPT ![a] = Answered(answer)]
    /\ Give("api", a, answer)
    /\ IF a \in Proposals
       THEN Hold("api", "review", a, answer, FALSE, Answered(answer), "pending")
       ELSE UNCHANGED op
    /\ UNCHANGED <<proposal, eligible, saves, grants, waiter, acted, crashes>>

\* /approve and /reject of Telegram, for any id; a plain message does the same for the
\* latest pending approval of its chat.  A proposal is not reviewed.
TelegramAnswer(a, answer) ==
    /\ At("api", "idle")
    /\ Readable(a)
    /\ rec' = [rec EXCEPT ![a] = Answered(answer)]
    /\ Give("api", a, answer)
    /\ UNCHANGED <<proposal, eligible, saves, grants, op, waiter, acted, crashes>>

-----------------------------------------------------------------------------
(* The cli process answers: list, then act on the records listed *)

\* _list_records; "approve" is a placeholder, the answer comes with CliAct.
CliList(a) ==
    /\ At("cli", "idle")
    /\ a \in Proposals
    /\ Hold("cli", "listed", a, "approve", FALSE, rec[a], proposal[a])
    /\ UNCHANGED <<rec, proposal, eligible, saves, grants, waiter, given, acted, crashes>>

\* _execute_pending_approval_action: the approval was pending when it was listed.
CliResolve(answer) ==
    LET a == op["cli"].id IN
    /\ At("cli", "listed")
    /\ op["cli"].held.status = "pending"
    /\ IF Readable(a)
       THEN /\ rec' = [rec EXCEPT ![a] = Answered(answer)]
            /\ Give("cli", a, answer)
            /\ Hold("cli", "review", a, answer, FALSE, Answered(answer), "pending")
       ELSE Leave("cli") /\ UNCHANGED <<rec, given>>
    /\ UNCHANGED <<proposal, eligible, saves, grants, waiter, acted, crashes>>

\* _execute_direct_proposal_action: it was not; the proposal alone is acted upon.
CliDirect(answer) ==
    LET a == op["cli"].id
        held == op["cli"].held
        seen == op["cli"].seen
    IN
    /\ At("cli", "listed")
    /\ held.status # "pending"
    /\ Give("cli", a, answer)
    /\ Hold("cli",
            IF answer = "apply" /\ (seen # "pending" \/ eligible[a]) THEN "apply" ELSE "review",
            a, answer, FALSE,
            IF held.status \in Unreadable THEN held ELSE [held EXCEPT !.response = answer],
            seen)
    /\ UNCHANGED <<rec, proposal, eligible, saves, grants, waiter, acted, crashes>>

-----------------------------------------------------------------------------
(* The rest of a handler, in either process *)

\* SubmitApprovalUseCase: replace the file by the record in hand, with the decision.
WriteMetadata(p) ==
    /\ At(p, "metadata")
    /\ rec' = [rec EXCEPT ![op[p].id] = op[p].held]
    /\ CASE op[p].id \in Proposals -> GoTo(p, "review")
         [] op[p].id \in Questions /\ op[p].scope -> GoTo(p, "grant")
         [] op[p].id \in Questions /\ ~op[p].scope -> Leave(p)
    /\ UNCHANGED <<proposal, eligible, saves, grants, waiter, given, acted, crashes>>

\* Mutant: the transition is not validated.
ReviewUnchecked(p) ==
    /\ At(p, "review")
    /\ Carry(p, "reviewed", proposal[op[p].id])
    /\ UNCHANGED <<rec, proposal, eligible, saves, grants, waiter, given, acted, crashes>>

\* ReviewSemanticProposalUseCase: read the proposal; a transition that is not allowed
\* raises, and the handler ends with the error.
ReadForReview(p) ==
    LET a == op[p].id IN
    /\ At(p, "review")
    /\ IF CanMove(a, proposal[a], Verdict(op[p].answer))
       THEN Carry(p, "reviewed", proposal[a])
       ELSE Leave(p)
    /\ UNCHANGED <<rec, proposal, eligible, saves, grants, waiter, given, acted, crashes>>

\* Mutants: every review approves; the answer is written for the status.
WriteStatus(p, new) ==
    /\ At(p, "reviewed")
    /\ proposal' = [proposal EXCEPT ![op[p].id] = new]
    /\ GoTo(p, IF op[p].answer = "apply" THEN "apply" ELSE "outcome")
    /\ UNCHANGED <<rec, eligible, saves, grants, waiter, given, acted, crashes>>

ReviewApproves(p) == WriteStatus(p, "approved")
ReviewRaw(p) == WriteStatus(p, op[p].answer)

\* ... and write it back, unconditionally.
WriteReview(p) ==
    /\ At(p, "reviewed")
    /\ proposal' = [proposal EXCEPT ![op[p].id] = Verdict(op[p].answer)]
    /\ GoTo(p, IF op[p].answer = "apply" THEN "apply" ELSE "outcome")
    /\ UNCHANGED <<rec, eligible, saves, grants, waiter, given, acted, crashes>>

\* ApplySemanticProposalUseCase: read the proposal; it must be approved or eligible.
ReadForApply(p) ==
    LET a == op[p].id IN
    /\ At(p, "apply")
    /\ IF proposal[a] = "approved" \/ eligible[a]
       THEN Carry(p, "save", proposal[a])
       ELSE Leave(p)
    /\ UNCHANGED <<rec, proposal, eligible, saves, grants, waiter, given, acted, crashes>>

\* Write its payload into the semantic memory; or raise (no such metric).
Save(p) ==
    LET a == op[p].id IN
    /\ At(p, "save")
    /\ \/ /\ saves[a] < MaxSaves
          /\ saves' = [saves EXCEPT ![a] = @ + 1]
          /\ GoTo(p, "saved")
       \/ Leave(p) /\ UNCHANGED saves
    /\ UNCHANGED <<rec, proposal, eligible, grants, waiter, given, acted, crashes>>

\* Mutant: the proposal is not marked applied.
MarkForgotten(p) ==
    /\ At(p, "saved")
    /\ GoTo(p, "outcome")
    /\ UNCHANGED <<rec, proposal, eligible, saves, grants, waiter, given, acted, crashes>>

\* Mark it applied, from the status that was read before the write.
MarkApplied(p) ==
    LET a == op[p].id IN
    /\ At(p, "saved")
    /\ IF CanMove(a, op[p].seen, "applied")
       THEN proposal' = [proposal EXCEPT ![a] = "applied"] /\ GoTo(p, "outcome")
       ELSE Leave(p) /\ UNCHANGED proposal
    /\ UNCHANGED <<rec, eligible, saves, grants, waiter, given, acted, crashes>>

\* Replace the file by the record in hand, with the outcome.  The cli skips it when
\* its list showed no approval.
WriteOutcome(p) ==
    LET o == op[p] IN
    /\ At(p, "outcome")
    /\ rec' = [rec EXCEPT ![o.id] = IF o.held.status \in Unreadable THEN @ ELSE o.held]
    /\ IF o.scope THEN GoTo(p, "grant") ELSE Leave(p)
    /\ UNCHANGED <<proposal, eligible, saves, grants, waiter, given, acted, crashes>>

\* AppState._issue_approval_grant_for; a failure is logged and ignored.
IssueGrant(p) ==
    LET a == op[p].id IN
    /\ At(p, "grant")
    /\ grants' = [grants EXCEPT ![a] = @ + 1] \/ UNCHANGED grants
    /\ Leave(p)
    /\ UNCHANGED <<rec, proposal, eligible, saves, waiter, given, acted, crashes>>

\* A process dies.  The file it was writing may stay half written (write_text), and
\* a half-written file is not read again.  The cli writes only a file it has listed.
Crash(p) ==
    /\ crashes < MaxCrashes
    /\ crashes' = crashes + 1
    /\ Leave(p)
    /\ IF p = "api"
       THEN waiter' = [q \in Questions |->
                          IF waiter[q] = "waiting" THEN "gone" ELSE waiter[q]]
       ELSE UNCHANGED waiter
    /\ \/ UNCHANGED rec
       \/ \E a \in Ids :
             /\ p = "cli" => /\ ~At("cli", "idle") /\ op["cli"].id = a
                             /\ op["cli"].held.status \notin Unreadable
             /\ rec' = [rec EXCEPT ![a] = [status |-> "torn", response |-> "none"]]
    /\ UNCHANGED <<proposal, eligible, saves, grants, given, acted>>

-----------------------------------------------------------------------------

Operator ==
    \/ \E a \in Ids, answer \in Answers :
          \/ \E scope \in BOOLEAN : Submit(a, answer, scope)
          \/ ResolveApproval(a, answer)
          \/ TelegramAnswer(a, answer)
    \/ \E a \in Ids : CliList(a)
    \/ \E answer \in Answers : CliResolve(answer) \/ CliDirect(answer)

Handler(p) ==
    \/ WriteMetadata(p) \/ ReadForReview(p) \/ WriteReview(p)
    \/ ReadForApply(p) \/ Save(p) \/ MarkApplied(p)
    \/ WriteOutcome(p) \/ IssueGrant(p)

Next ==
    \/ \E a \in Ids : Create(a)
    \/ \E a \in Questions : Poll(a) \/ StopWaiting(a)
    \/ Operator
    \/ \E p \in Processes : Handler(p) \/ Crash(p)

Spec == Init /\ [][Next]_vars

\* A handler that runs comes to its end.  The poll is a timer of the event loop: its
\* turn comes between two handlers, however many there are, hence strong fairness.
Fairness ==
    /\ \A p \in Processes : WF_vars(Handler(p))
    /\ \A a \in Questions : SF_vars(Poll(a))

FairSpec == Spec /\ Fairness

-----------------------------------------------------------------------------
(* Safety *)

Asked(a, answer) == \E g \in given[a] : g.answer = answer

\* The agent acts on a verdict an operator gave to that very question, whichever
\* surfaces answered it, and however often, before the poll saw it (ask_user).
AgentActsOnAnswer ==
    \A q \in Questions :
        acted[q] # "none" => Asked(q, acted[q])

\* A proposal is in no state that no operator asked for, and nothing enters the
\* semantic memory without an operator's "apply" (resolve_semantic_proposal_approval).
ProposalAsked ==
    \A a \in Proposals :
        /\ proposal[a] = "approved" => Asked(a, "approve") \/ Asked(a, "apply")
        /\ proposal[a] = "rejected" => Asked(a, "reject")
        /\ saves[a] > 0 \/ proposal[a] = "applied" => Asked(a, "apply")

\* All answers to an approval came from the event loop, one after the other.
OneProcess(a) == \A g \in given[a] : g.by = "api"

\* As long as the cli keeps out, a proposal is written into the semantic memory once,
\* and once more at most for each crash, repeated answers and failed writes included;
\* and a rejected one never (ApplySemanticProposalUseCase against the second answer).
SavedOnce ==
    \A a \in Proposals : OneProcess(a) =>
        /\ saves[a] <= 1 + crashes
        /\ proposal[a] = "rejected" => saves[a] = 0

\* An approval leaves at most one grant, however it is answered and re-answered
\* (submit_approval tests the status, nothing else that resets it exists).
OneGrant == \A a \in Ids : grants[a] <= 1

-----------------------------------------------------------------------------
(* What a step may never do *)

\* Under the same condition a review is final: a later answer never reopens, reverts
\* or overturns it.
ReviewIsFinal ==
    [][\A a \in Proposals : OneProcess(a)' =>
          /\ proposal[a] \in {"rejected", "applied"} => proposal'[a] = proposal[a]
          /\ proposal[a] = "approved" => proposal'[a] \in {"approved", "applied"}]_vars

-----------------------------------------------------------------------------
(* Liveness *)

\* A question that is answered reaches the agent that waits for it, unless the wait
\* ends first (wait_for_resolution).
AnswerReachesAgent ==
    \A q \in Questions :
        waiter[q] = "waiting" /\ rec[q].status \in Resolved ~> waiter[q] # "waiting"

-----------------------------------------------------------------------------
(* What the approval bus promises *)

\* Nothing is done in an operator's name that no operator asked for, and nothing is
\* done too often (ask_user, resolve_semantic_proposal_approval, submit_approval).
Promised == INSTANCE ApprovalPromise WITH review <- proposal
KeepsPromise == Promised!Promise

-----------------------------------------------------------------------------
(* The inductive strengthening the proofs use *)

\* What a handler holds: the answer it carries out was given to it, the record it will
\* write is no longer pending, only the event loop grants or deals with questions.
OpInv ==
    \A p \in Processes :
        LET o == op[p] IN
        /\ o.step \notin {"idle", "listed"} =>
              /\ [answer |-> o.answer, by |-> p] \in given[o.id]
              /\ o.held.status # "pending"
        /\ o.step = "listed" => p = "cli"
        /\ o.step \in {"listed", "review", "reviewed", "apply", "save", "saved", "outcome"}
              => o.id \in Proposals
        /\ o.step \in {"metadata", "grant"} => p = "api"
        /\ o.step = "metadata" => o.held = Answered(o.answer)
        /\ o.step = "grant" => o.scope
        /\ o.step \in {"apply", "save", "saved"} => o.answer = "apply"

\* The file of a question holds an answer that was given.
RecordInv ==
    \A q \in Questions :
        rec[q].status \in Resolved =>
            Asked(q, rec[q].response) /\ rec[q] = Answered(rec[q].response)

\* A grant, and a handler that will issue one, leave no way back to a pending file.
GrantInv ==
    /\ \A p \in Processes :
          LET o == op[p] IN
          o.step # "idle" => (o.scope =>
              p = "api" /\ grants[o.id] = 0 /\ rec[o.id].status \notin {"absent", "pending"})
    /\ \A a \in Ids : grants[a] > 0 => rec[a].status \notin {"absent", "pending"}

\* While the cli keeps out of a proposal, the status a handler of the event loop has
\* read is the status it overwrites; a write into the semantic memory that is not yet
\* marked is the handler's own or was orphaned by a crash.
ApiInv ==
    \A a \in Proposals : OneProcess(a) =>
        LET o == op["api"]
            mine(steps) == o.step \in steps /\ o.id = a
        IN
        /\ mine({"reviewed"}) => CanMove(a, proposal[a], Verdict(o.answer))
        /\ mine({"apply", "save", "saved"}) => proposal[a] = "approved"
        /\ mine({"save", "saved"}) => o.seen = "approved"
        /\ proposal[a] \in {"pending", "rejected"} => saves[a] = 0
        /\ proposal[a] = "approved" /\ ~mine({"saved"}) => saves[a] <= crashes
        /\ saves[a] <= 1 + crashes

IInv ==
    /\ TypeOK /\ OpInv /\ RecordInv /\ GrantInv /\ ApiInv
    /\ AgentActsOnAnswer /\ ProposalAsked /\ OneGrant

=============================================================================
