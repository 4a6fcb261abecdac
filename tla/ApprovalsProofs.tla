-------------------------- MODULE ApprovalsProofs --------------------------
(***************************************************************************)
(* Theorems about Approvals, for every value of its constants: one lemma   *)
(* per action shows that it keeps IInv.  The lemmas HoldOp to LeaveOp say  *)
(* once what becomes of the record a handler carries.                      *)
(***************************************************************************)
EXTENDS Approvals, TLAPS

(* What the other process holds does not change. *)
Others(p) == \A q \in Processes : q # p => op'[q] = op[q]

USE DEF Ids, At, Answered, Idle, Readable, Give, Others

(* A handler that is not idle has a context. *)
LEMMA HasContext ==
    ASSUME TypeOK, NEW p \in Processes, op[p].step # "idle"
    PROVE  /\ op[p] \in Contexts
           /\ op[p].step \in Steps /\ op[p].id \in Ids /\ op[p].answer \in Answers
           /\ op[p].scope \in BOOLEAN /\ op[p].held \in Records /\ op[p].seen \in Statuses
BY DEF TypeOK, Contexts

(* Hold: a new context. *)
LEMMA HoldOp ==
    ASSUME TypeOK, NEW p \in Processes, NEW c \in Contexts, op' = [op EXCEPT ![p] = c]
    PROVE  /\ op' \in [Processes -> Contexts \cup {Idle}]
           /\ Others(p)
           /\ op'[p] = c
BY DEF TypeOK

(* Carry: another step, another status. *)
LEMMA CarryOp ==
    ASSUME TypeOK, NEW p \in Processes, op[p].step # "idle", NEW s \in Steps,
           NEW seen \in Statuses, Carry(p, s, seen)
    PROVE  /\ op' \in [Processes -> Contexts \cup {Idle}]
           /\ Others(p)
           /\ op'[p].step = s /\ op'[p].id = op[p].id /\ op'[p].answer = op[p].answer
           /\ op'[p].scope = op[p].scope /\ op'[p].held = op[p].held /\ op'[p].seen = seen
<1>1. op[p] \in Contexts
    BY HasContext
<1>2. op'[p] = [op[p] EXCEPT !.step = s, !.seen = seen]
    BY DEF TypeOK, Carry
<1>3. op'[p] = [step |-> s, id |-> op[p].id, answer |-> op[p].answer,
                scope |-> op[p].scope, held |-> op[p].held, seen |-> seen]
    BY <1>1, <1>2 DEF Contexts
<1>4. op'[p] \in Contexts
    BY <1>1, <1>3 DEF Contexts
<1> QED BY <1>4 DEF TypeOK, Carry

(* GoTo: another step. *)
LEMMA GoToOp ==
    ASSUME TypeOK, NEW p \in Processes, op[p].step # "idle", NEW s \in Steps, GoTo(p, s)
    PROVE  /\ op' \in [Processes -> Contexts \cup {Idle}]
           /\ Others(p)
           /\ op'[p].step = s /\ op'[p].id = op[p].id /\ op'[p].answer = op[p].answer
           /\ op'[p].scope = op[p].scope /\ op'[p].held = op[p].held
           /\ op'[p].seen = op[p].seen
<1>1. op[p] \in Contexts
    BY HasContext
<1>2. op'[p] = [op[p] EXCEPT !.step = s]
    BY DEF TypeOK, GoTo
<1>3. op'[p] = [step |-> s, id |-> op[p].id, answer |-> op[p].answer,
                scope |-> op[p].scope, held |-> op[p].held, seen |-> op[p].seen]
    BY <1>1, <1>2 DEF Contexts
<1>4. op'[p] \in Contexts
    BY <1>1, <1>3 DEF Contexts
<1> QED BY <1>4 DEF TypeOK, GoTo

(* Leave: nothing. *)
LEMMA LeaveOp ==
    ASSUME TypeOK, NEW p \in Processes, Leave(p)
    PROVE  /\ op' \in [Processes -> Contexts \cup {Idle}]
           /\ Others(p)
           /\ op'[p] = [step |-> "idle"]
BY DEF TypeOK, Leave

(* The initial state. *)
LEMMA InitIInv ==
    ASSUME ApprovalsAssumption, Init
    PROVE  IInv
<1> USE DEF Init, Processes
<1>1. TypeOK
    BY DEF TypeOK, Records, Unreadable, Statuses
<1>2. OpInv /\ RecordInv /\ GrantInv
    BY DEF OpInv, RecordInv, GrantInv, Resolved
<1>3. ApiInv
    BY DEF ApiInv
<1>4. AgentActsOnAnswer /\ ProposalAsked /\ OneGrant
    BY DEF AgentActsOnAnswer, ProposalAsked, OneGrant
<1> QED BY <1>1, <1>2, <1>3, <1>4 DEF IInv

(* An answer given to an approval and written to its file leaves the files of the *)
(* questions with answers that were given.                                        *)
LEMMA AnswerKeepsRecordInv ==
    ASSUME TypeOK, RecordInv, NEW p \in Processes, NEW a \in Ids, NEW answer \in Answers,
           rec' = [rec EXCEPT ![a] = Answered(answer)], Give(p, a, answer)
    PROVE  RecordInv'
<1> USE DEF TypeOK
<1> SUFFICES ASSUME NEW q \in Questions, rec'[q].status \in Resolved
             PROVE  Asked(q, rec[q].response)' /\ (rec[q] = Answered(rec[q].response))'
    BY DEF RecordInv
<1>1. CASE q = a
  <2>1. rec'[q] = [status |-> Verdict(answer), response |-> answer]
      BY <1>1
  <2>2. [answer |-> answer, by |-> p] \in given'[q]
      BY <1>1
  <2> QED BY <2>1, <2>2 DEF Asked
<1>2. CASE q # a
  <2>1. rec'[q] = rec[q] /\ given'[q] = given[q]
      BY <1>2
  <2> QED BY <2>1 DEF RecordInv, Asked
<1> QED BY <1>1, <1>2

(* An approval is created. *)
LEMMA CreateIInv ==
    ASSUME ApprovalsAssumption, IInv, NEW a \in Ids, Create(a)
    PROVE  IInv'
<1> USE DEF IInv, TypeOK, Create
<1>1. TypeOK'
    BY DEF Contexts, Records, Resolved, Statuses, Steps, Processes
<1>2. OpInv'
    BY DEF OpInv
<1>3. RecordInv'
    BY DEF RecordInv, Asked, Resolved
<1>4. GrantInv'
    BY DEF GrantInv
<1>5. ApiInv'
    BY DEF ApiInv, OneProcess
<1>6. AgentActsOnAnswer'
    BY DEF AgentActsOnAnswer, Asked
<1>7. ProposalAsked'
    BY DEF ProposalAsked, Asked
<1>8. OneGrant'
    BY DEF OneGrant
<1> QED BY <1>1, <1>2, <1>3, <1>4, <1>5, <1>6, <1>7, <1>8

(* The agent reads the answer. *)
LEMMA PollIInv ==
    ASSUME ApprovalsAssumption, IInv, NEW a \in Questions, Poll(a)
    PROVE  IInv'
<1> USE DEF IInv, TypeOK, Poll
<1>1. TypeOK'
    BY DEF Records, Answers
<1>2. OpInv'
    BY DEF OpInv
<1>3. RecordInv'
    BY DEF RecordInv, Asked
<1>4. GrantInv'
    BY DEF GrantInv
<1>5. ApiInv'
    BY DEF ApiInv, OneProcess
<1>6. AgentActsOnAnswer'
    BY DEF AgentActsOnAnswer, RecordInv, Asked, Verdict
<1>7. ProposalAsked'
    BY DEF ProposalAsked, Asked
<1>8. OneGrant'
    BY DEF OneGrant
<1> QED BY <1>1, <1>2, <1>3, <1>4, <1>5, <1>6, <1>7, <1>8

(* The agent stops waiting. *)
LEMMA StopWaitingIInv ==
    ASSUME ApprovalsAssumption, IInv, NEW a \in Questions, StopWaiting(a)
    PROVE  IInv'
<1> USE DEF IInv, TypeOK, StopWaiting
<1>1. TypeOK'
    OBVIOUS
<1>2. OpInv'
    BY DEF OpInv
<1>3. RecordInv'
    BY DEF RecordInv, Asked
<1>4. GrantInv'
    BY DEF GrantInv
<1>5. ApiInv'
    BY DEF ApiInv, OneProcess
<1>6. AgentActsOnAnswer'
    BY DEF AgentActsOnAnswer, Asked
<1>7. ProposalAsked'
    BY DEF ProposalAsked, Asked
<1>8. OneGrant'
    BY DEF OneGrant
<1> QED BY <1>1, <1>2, <1>3, <1>4, <1>5, <1>6, <1>7, <1>8

(* A pending approval is answered through the use case. *)
LEMMA SubmitIInv ==
    ASSUME ApprovalsAssumption, IInv, NEW a \in Ids, NEW answer \in Answers,
           NEW scope \in BOOLEAN, Submit(a, answer, scope)
    PROVE  IInv'
<1>t. TypeOK /\ OpInv
    BY DEF IInv
<1>a. [status |-> Verdict(answer), response |-> answer] \in Records
    BY DEF Records, Resolved, Verdict
<1>0. /\ op' \in [Processes -> Contexts \cup {Idle}]
      /\ Others("api")
      /\ op'["api"].step = "metadata" /\ op'["api"].id = a /\ op'["api"].answer = answer
      /\ op'["api"].scope = scope /\ op'["api"].held = Answered(answer)
  <2> DEFINE c == [step |-> "metadata", id |-> a, answer |-> answer, scope |-> scope,
                  held |-> Answered(answer), seen |-> "pending"]
  <2>1. c \in Contexts
      BY <1>a DEF Contexts, Steps, Statuses
  <2>2. op' = [op EXCEPT !["api"] = c]
      BY DEF Submit, Hold
  <2>3. op'["api"] = c /\ op' \in [Processes -> Contexts \cup {Idle}] /\ Others("api")
      BY <1>t, <2>1, <2>2, HoldOp DEF Processes
  <2> QED BY <2>3
<1> USE DEF IInv, TypeOK, Submit
<1>1. TypeOK'
    BY <1>a, <1>0
<1>2. OpInv'
    BY <1>0 DEF OpInv, Verdict
<1>3. RecordInv'
    BY AnswerKeepsRecordInv DEF Processes
<1>4. GrantInv'
    BY <1>0 DEF GrantInv, Verdict
<1>5. ApiInv'
    BY <1>0 DEF ApiInv, OneProcess
<1>6. AgentActsOnAnswer'
    BY DEF AgentActsOnAnswer, Asked
<1>7. ProposalAsked'
    BY DEF ProposalAsked, Asked
<1>8. OneGrant'
    BY DEF OneGrant
<1> QED BY <1>1, <1>2, <1>3, <1>4, <1>5, <1>6, <1>7, <1>8

(* An approval is resolved over the WebSocket. *)
LEMMA ResolveApprovalIInv ==
    ASSUME ApprovalsAssumption, IInv, NEW a \in Ids, NEW answer \in Answers,
           ResolveApproval(a, answer)
    PROVE  IInv'
<1>t. TypeOK /\ OpInv
    BY DEF IInv
<1>a. [status |-> Verdict(answer), response |-> answer] \in Records
    BY DEF Records, Resolved, Verdict
<1>0. /\ op' \in [Processes -> Contexts \cup {Idle}]
      /\ Others("api")
      /\ \/ /\ a \in Proposals
            /\ op'["api"].step = "review" /\ op'["api"].id = a /\ op'["api"].answer = answer
            /\ op'["api"].scope = FALSE /\ op'["api"].held = Answered(answer)
         \/ op'["api"] = op["api"]
  <2>1. CASE a \in Proposals
    <3> DEFINE c == [step |-> "review", id |-> a, answer |-> answer, scope |-> FALSE,
                    held |-> Answered(answer), seen |-> "pending"]
    <3>1. c \in Contexts
        BY <1>a DEF Contexts, Steps, Statuses
    <3>2. op' = [op EXCEPT !["api"] = c]
        BY <2>1 DEF ResolveApproval, Hold
    <3>3. op'["api"] = c /\ op' \in [Processes -> Contexts \cup {Idle}] /\ Others("api")
        BY <1>t, <3>1, <3>2, HoldOp DEF Processes
    <3> QED BY <2>1, <3>3
  <2>2. CASE a \notin Proposals
      BY <1>t, <2>2 DEF ResolveApproval, TypeOK
  <2> QED BY <2>1, <2>2
<1> USE DEF IInv, TypeOK, ResolveApproval
<1>1. TypeOK'
    BY <1>a, <1>0 DEF Processes
<1>2. OpInv'
    BY <1>0 DEF OpInv, Verdict
<1>3. RecordInv'
    BY AnswerKeepsRecordInv DEF Processes
<1>4. GrantInv'
    BY <1>0 DEF GrantInv, Verdict
<1>5. ApiInv'
    BY <1>0 DEF ApiInv, OneProcess
<1>6. AgentActsOnAnswer'
    BY DEF AgentActsOnAnswer, Asked
<1>7. ProposalAsked'
    BY DEF ProposalAsked, Asked
<1>8. OneGrant'
    BY DEF OneGrant
<1> QED BY <1>1, <1>2, <1>3, <1>4, <1>5, <1>6, <1>7, <1>8

(* An approval is answered from Telegram. *)
LEMMA TelegramAnswerIInv ==
    ASSUME ApprovalsAssumption, IInv, NEW a \in Ids, NEW answer \in Answers,
           TelegramAnswer(a, answer)
    PROVE  IInv'
<1>t. TypeOK /\ OpInv
    BY DEF IInv
<1>a. [status |-> Verdict(answer), response |-> answer] \in Records
    BY DEF Records, Resolved, Verdict
<1> USE DEF IInv, TypeOK, TelegramAnswer
<1>1. TypeOK'
    BY <1>a DEF Processes
<1>2. OpInv'
    BY DEF OpInv
<1>3. RecordInv'
    BY AnswerKeepsRecordInv DEF Processes
<1>4. GrantInv'
    BY DEF GrantInv, Verdict
<1>5. ApiInv'
    BY DEF ApiInv, OneProcess
<1>6. AgentActsOnAnswer'
    BY DEF AgentActsOnAnswer, Asked
<1>7. ProposalAsked'
    BY DEF ProposalAsked, Asked
<1>8. OneGrant'
    BY DEF OneGrant
<1> QED BY <1>1, <1>2, <1>3, <1>4, <1>5, <1>6, <1>7, <1>8

(* The cli lists a proposal with its approval. *)
LEMMA CliListIInv ==
    ASSUME ApprovalsAssumption, IInv, NEW a \in Ids, CliList(a)
    PROVE  IInv'
<1>t. TypeOK /\ OpInv
    BY DEF IInv
<1>0. /\ op' \in [Processes -> Contexts \cup {Idle}]
      /\ Others("cli")
      /\ op'["cli"].step = "listed" /\ op'["cli"].id = a /\ op'["cli"].scope = FALSE
  <2> DEFINE c == [step |-> "listed", id |-> a, answer |-> "approve", scope |-> FALSE,
                  held |-> rec[a], seen |-> proposal[a]]
  <2>1. c \in Contexts
      BY <1>t DEF CliList, Contexts, Steps, Answers, TypeOK
  <2>2. op' = [op EXCEPT !["cli"] = c]
      BY DEF CliList, Hold
  <2>3. op'["cli"] = c /\ op' \in [Processes -> Contexts \cup {Idle}] /\ Others("cli")
      BY <1>t, <2>1, <2>2, HoldOp DEF Processes
  <2> QED BY <2>3
<1> USE DEF IInv, TypeOK, CliList
<1>1. TypeOK'
    BY <1>0
<1>2. OpInv'
    BY <1>0 DEF OpInv
<1>3. RecordInv'
    BY DEF RecordInv, Asked
<1>4. GrantInv'
    BY <1>0 DEF GrantInv
<1>5. ApiInv'
    BY <1>0 DEF ApiInv, OneProcess, CanMove, Processes
<1>6. AgentActsOnAnswer'
    BY DEF AgentActsOnAnswer, Asked
<1>7. ProposalAsked'
    BY DEF ProposalAsked, Asked
<1>8. OneGrant'
    BY DEF OneGrant
<1> QED BY <1>1, <1>2, <1>3, <1>4, <1>5, <1>6, <1>7, <1>8

(* The cli resolves an approval. *)
LEMMA CliResolveIInv ==
    ASSUME ApprovalsAssumption, IInv, NEW answer \in Answers, CliResolve(answer)
    PROVE  IInv'
<1>t. TypeOK /\ OpInv
    BY DEF IInv
<1> DEFINE a == op["cli"].id
<1>a. [status |-> Verdict(answer), response |-> answer] \in Records
    BY DEF Records, Resolved, Verdict
<1>b. op["cli"] \in Contexts /\ a \in Ids /\ a \in Proposals
    BY <1>t, HasContext DEF CliResolve, Processes, OpInv
<1>0. /\ op' \in [Processes -> Contexts \cup {Idle}]
      /\ Others("cli")
      /\ \/ /\ op'["cli"].step = "review" /\ op'["cli"].id = a /\ op'["cli"].answer = answer
            /\ op'["cli"].scope = FALSE /\ op'["cli"].held = Answered(answer)
            /\ rec' = [rec EXCEPT ![a] = Answered(answer)]
            /\ given' = [given EXCEPT ![a] = @ \cup {[answer |-> answer, by |-> "cli"]}]
         \/ op'["cli"] = [step |-> "idle"] /\ UNCHANGED <<rec, given>>
      /\ UNCHANGED <<proposal, eligible, saves, grants, waiter, acted, crashes>>
  <2>1. CASE Readable(a)
    <3> DEFINE c == [step |-> "review", id |-> a, answer |-> answer, scope |-> FALSE,
                    held |-> Answered(answer), seen |-> "pending"]
    <3>1. c \in Contexts
        BY <1>a, <1>b DEF Contexts, Steps, Statuses
    <3>2. op' = [op EXCEPT !["cli"] = c]
        BY <2>1 DEF CliResolve, Hold
    <3>3. op'["cli"] = c /\ op' \in [Processes -> Contexts \cup {Idle}] /\ Others("cli")
        BY <1>t, <3>1, <3>2, HoldOp DEF Processes
    <3> QED BY <2>1, <3>3 DEF CliResolve
  <2>2. CASE ~Readable(a)
      BY <1>t, <2>2, LeaveOp DEF CliResolve, Processes
  <2> QED BY <2>1, <2>2
<1>d. /\ rec' \in [Ids -> Records]
      /\ given' \in [Ids -> SUBSET [answer : Answers, by : Processes]]
      /\ \A b \in Ids : given[b] \subseteq given'[b]
      /\ \A b \in Ids : rec'[b] = rec[b] \/ rec'[b].status \in Resolved
      /\ op'["cli"].step = "review" => [answer |-> answer, by |-> "cli"] \in given'[a]
  <2>1. CASE UNCHANGED <<rec, given>> /\ op'["cli"].step = "idle"
      BY <1>t, <2>1 DEF TypeOK
  <2>2. CASE /\ rec' = [rec EXCEPT ![a] = Answered(answer)]
             /\ given' = [given EXCEPT ![a] = @ \cup {[answer |-> answer, by |-> "cli"]}]
      BY <1>t, <1>a, <1>b, <2>2 DEF TypeOK, Verdict, Resolved, Processes
  <2> QED BY <1>0, <2>1, <2>2
<1>e. \A q \in Processes : op[q].step # "idle" => op[q].id \in Ids
    BY <1>t, HasContext
<1> HIDE DEF a
<1> USE DEF IInv, TypeOK
<1>1. TypeOK'
    BY <1>0, <1>d
<1>2. OpInv'
    BY <1>b, <1>0, <1>e DEF OpInv, Verdict
<1>3. RecordInv'
    BY <1>0, <1>d DEF RecordInv, Asked, Verdict, Resolved
<1>4. GrantInv'
    BY <1>0, <1>e DEF GrantInv, Verdict, Processes, Resolved
<1>5. ApiInv'
    BY <1>0 DEF ApiInv, OneProcess, CanMove, Processes
<1>6. AgentActsOnAnswer'
    BY <1>0 DEF AgentActsOnAnswer, Asked
<1>7. ProposalAsked'
    BY <1>0 DEF ProposalAsked, Asked
<1>8. OneGrant'
    BY <1>0 DEF OneGrant
<1> QED BY <1>1, <1>2, <1>3, <1>4, <1>5, <1>6, <1>7, <1>8

(* The cli acts on a proposal directly. *)
LEMMA CliDirectIInv ==
    ASSUME ApprovalsAssumption, IInv, NEW answer \in Answers, CliDirect(answer)
    PROVE  IInv'
<1>t. TypeOK /\ OpInv
    BY DEF IInv
<1> DEFINE a == op["cli"].id
           h == op["cli"].held
           held == IF h.status \in Unreadable THEN h ELSE [h EXCEPT !.response = answer]
           s == IF answer = "apply" /\ (op["cli"].seen # "pending" \/ eligible[a])
                THEN "apply" ELSE "review"
<1>b. op["cli"] \in Contexts /\ a \in Ids /\ a \in Proposals
    BY <1>t, HasContext DEF CliDirect, Processes, OpInv
<1>c. held \in Records /\ held.status = h.status
    BY <1>b DEF Contexts, Records
<1>0. /\ op' \in [Processes -> Contexts \cup {Idle}]
      /\ Others("cli")
      /\ op'["cli"].step = s /\ op'["cli"].id = a /\ op'["cli"].answer = answer
      /\ op'["cli"].scope = FALSE /\ op'["cli"].held = held
  <2> DEFINE c == [step |-> s, id |-> a, answer |-> answer, scope |-> FALSE,
                  held |-> held, seen |-> op["cli"].seen]
  <2>1. c \in Contexts
      BY <1>b, <1>c DEF Contexts, Steps
  <2>2. op' = [op EXCEPT !["cli"] = c]
      BY DEF CliDirect, Hold
  <2>3. op'["cli"] = c /\ op' \in [Processes -> Contexts \cup {Idle}] /\ Others("cli")
      BY <1>t, <2>1, <2>2, HoldOp DEF Processes
  <2> QED BY <2>3
<1> USE DEF IInv, TypeOK, CliDirect
<1>1. TypeOK'
    BY <1>b, <1>0
<1>2. OpInv'
    BY <1>c, <1>0 DEF OpInv, Records, Processes, Unreadable
<1>3. RecordInv'
    BY DEF RecordInv, Asked
<1>4. GrantInv'
    BY <1>0 DEF GrantInv
<1>5. ApiInv'
    BY <1>0 DEF ApiInv, OneProcess, CanMove, Processes
<1>6. AgentActsOnAnswer'
    BY DEF AgentActsOnAnswer, Asked
<1>7. ProposalAsked'
    BY DEF ProposalAsked, Asked
<1>8. OneGrant'
    BY DEF OneGrant
<1> QED BY <1>1, <1>2, <1>3, <1>4, <1>5, <1>6, <1>7, <1>8

(* The decision is written to the file. *)
LEMMA WriteMetadataIInv ==
    ASSUME ApprovalsAssumption, IInv, NEW p \in Processes, WriteMetadata(p)
    PROVE  IInv'
<1>t. TypeOK /\ OpInv
    BY DEF IInv
<1>a. /\ op[p] \in Contexts
      /\ op[p].step \in Steps /\ op[p].id \in Ids /\ op[p].answer \in Answers
      /\ op[p].scope \in BOOLEAN /\ op[p].held \in Records /\ op[p].seen \in Statuses
    BY <1>t, HasContext DEF WriteMetadata
<1>0. /\ op' \in [Processes -> Contexts \cup {Idle}]
      /\ Others(p)
      /\ \/ /\ op[p].id \in Proposals
            /\ op'[p].step = "review" /\ op'[p].id = op[p].id /\ op'[p].answer = op[p].answer
            /\ op'[p].scope = op[p].scope /\ op'[p].held = op[p].held
         \/ /\ op[p].scope
            /\ op'[p].step = "grant" /\ op'[p].id = op[p].id /\ op'[p].answer = op[p].answer
            /\ op'[p].scope = op[p].scope /\ op'[p].held = op[p].held
         \/ op'[p] = [step |-> "idle"]
    BY <1>t, <1>a, GoToOp, LeaveOp DEF WriteMetadata, Steps
<1> USE DEF IInv, TypeOK, WriteMetadata
<1>1. TypeOK'
    BY <1>a, <1>0
<1>2. OpInv'
    BY <1>0 DEF OpInv
<1>3. RecordInv'
    BY DEF RecordInv, OpInv, Asked, Processes
<1>4. GrantInv'
    BY <1>0 DEF GrantInv, OpInv, Verdict, Processes
<1>5. ApiInv'
    BY <1>0 DEF ApiInv, OneProcess, CanMove, Processes
<1>6. AgentActsOnAnswer'
    BY DEF AgentActsOnAnswer, Asked
<1>7. ProposalAsked'
    BY DEF ProposalAsked, Asked
<1>8. OneGrant'
    BY DEF OneGrant
<1> QED BY <1>1, <1>2, <1>3, <1>4, <1>5, <1>6, <1>7, <1>8

(* The proposal is read for its review. *)
LEMMA ReadForReviewIInv ==
    ASSUME ApprovalsAssumption, IInv, NEW p \in Processes, ReadForReview(p)
    PROVE  IInv'
<1>t. TypeOK /\ OpInv
    BY DEF IInv
<1>a. /\ op[p] \in Contexts
      /\ op[p].step \in Steps /\ op[p].id \in Ids /\ op[p].answer \in Answers
      /\ op[p].scope \in BOOLEAN /\ op[p].held \in Records /\ op[p].seen \in Statuses
    BY <1>t, HasContext DEF ReadForReview
<1>0. /\ op' \in [Processes -> Contexts \cup {Idle}]
      /\ Others(p)
      /\ \/ /\ CanMove(op[p].id, proposal[op[p].id], Verdict(op[p].answer))
            /\ op'[p].step = "reviewed" /\ op'[p].id = op[p].id /\ op'[p].answer = op[p].answer
            /\ op'[p].scope = op[p].scope /\ op'[p].held = op[p].held
         \/ op'[p] = [step |-> "idle"]
  <2>1. CASE CanMove(op[p].id, proposal[op[p].id], Verdict(op[p].answer))
    <3>1. Carry(p, "reviewed", proposal[op[p].id])
        BY <2>1 DEF ReadForReview
    <3>2. proposal[op[p].id] \in Statuses
        BY <1>t DEF ReadForReview, TypeOK, OpInv
    <3> QED BY <1>t, <1>a, <2>1, <3>1, <3>2, CarryOp DEF Steps
  <2>2. CASE ~CanMove(op[p].id, proposal[op[p].id], Verdict(op[p].answer))
      BY <1>t, <2>2, LeaveOp DEF ReadForReview
  <2> QED BY <2>1, <2>2
<1> USE DEF IInv, TypeOK, ReadForReview
<1>1. TypeOK'
    BY <1>0
<1>2. OpInv'
    BY <1>0 DEF OpInv
<1>3. RecordInv'
    BY DEF RecordInv, Asked
<1>4. GrantInv'
    BY <1>0 DEF GrantInv
<1>5. ApiInv'
    BY <1>0 DEF ApiInv, OneProcess, CanMove, Processes
<1>6. AgentActsOnAnswer'
    BY DEF AgentActsOnAnswer, Asked
<1>7. ProposalAsked'
    BY DEF ProposalAsked, Asked
<1>8. OneGrant'
    BY DEF OneGrant
<1> QED BY <1>1, <1>2, <1>3, <1>4, <1>5, <1>6, <1>7, <1>8

(* The review is written. *)
LEMMA WriteReviewIInv ==
    ASSUME ApprovalsAssumption, IInv, NEW p \in Processes, WriteReview(p)
    PROVE  IInv'
<1>t. TypeOK /\ OpInv
    BY DEF IInv
<1>a. /\ op[p] \in Contexts
      /\ op[p].step \in Steps /\ op[p].id \in Ids /\ op[p].answer \in Answers
      /\ op[p].scope \in BOOLEAN /\ op[p].held \in Records /\ op[p].seen \in Statuses
    BY <1>t, HasContext DEF WriteReview
<1>0. /\ op' \in [Processes -> Contexts \cup {Idle}]
      /\ Others(p)
      /\ \/ /\ op'[p].step = "apply" /\ op[p].answer = "apply"
            /\ op'[p].id = op[p].id /\ op'[p].answer = op[p].answer
            /\ op'[p].scope = op[p].scope /\ op'[p].held = op[p].held
         \/ /\ op'[p].step = "outcome" /\ op'[p].id = op[p].id /\ op'[p].answer = op[p].answer
            /\ op'[p].scope = op[p].scope /\ op'[p].held = op[p].held
    BY <1>t, GoToOp DEF WriteReview, Steps
<1> USE DEF IInv, TypeOK, WriteReview
<1>1. TypeOK'
    BY <1>0 DEF Statuses, Verdict
<1>2. OpInv'
    BY <1>0 DEF OpInv
<1>3. RecordInv'
    BY DEF RecordInv, Asked
<1>4. GrantInv'
    BY <1>0 DEF GrantInv
<1>5. ApiInv'
    BY <1>0 DEF ApiInv, OpInv, OneProcess, CanMove, Verdict, Processes
<1>6. AgentActsOnAnswer'
    BY DEF AgentActsOnAnswer, Asked
<1>7. ProposalAsked'
    BY DEF ProposalAsked, OpInv, Asked, Verdict, Answers, Processes
<1>8. OneGrant'
    BY DEF OneGrant
<1> QED BY <1>1, <1>2, <1>3, <1>4, <1>5, <1>6, <1>7, <1>8

(* The proposal is read for its application. *)
LEMMA ReadForApplyIInv ==
    ASSUME ApprovalsAssumption, IInv, NEW p \in Processes, ReadForApply(p)
    PROVE  IInv'
<1>t. TypeOK /\ OpInv
    BY DEF IInv
<1>a. /\ op[p] \in Contexts
      /\ op[p].step \in Steps /\ op[p].id \in Ids /\ op[p].answer \in Answers
      /\ op[p].scope \in BOOLEAN /\ op[p].held \in Records /\ op[p].seen \in Statuses
    BY <1>t, HasContext DEF ReadForApply
<1>0. /\ op' \in [Processes -> Contexts \cup {Idle}]
      /\ Others(p)
      /\ \/ /\ proposal[op[p].id] = "approved" \/ eligible[op[p].id]
            /\ op'[p].seen = proposal[op[p].id]
            /\ op'[p].step = "save" /\ op'[p].id = op[p].id /\ op'[p].answer = op[p].answer
            /\ op'[p].scope = op[p].scope /\ op'[p].held = op[p].held
         \/ op'[p] = [step |-> "idle"]
  <2>1. CASE proposal[op[p].id] = "approved" \/ eligible[op[p].id]
    <3>1. Carry(p, "save", proposal[op[p].id])
        BY <2>1 DEF ReadForApply
    <3>2. proposal[op[p].id] \in Statuses
        BY <1>t DEF ReadForApply, TypeOK, OpInv
    <3> QED BY <1>t, <1>a, <2>1, <3>1, <3>2, CarryOp DEF Steps
  <2>2. CASE ~(proposal[op[p].id] = "approved" \/ eligible[op[p].id])
      BY <1>t, <2>2, LeaveOp DEF ReadForApply
  <2> QED BY <2>1, <2>2
<1> USE DEF IInv, TypeOK, ReadForApply
<1>1. TypeOK'
    BY <1>0
<1>2. OpInv'
    BY <1>0 DEF OpInv
<1>3. RecordInv'
    BY DEF RecordInv, Asked
<1>4. GrantInv'
    BY <1>0 DEF GrantInv
<1>5. ApiInv'
    BY <1>0 DEF ApiInv, OneProcess, CanMove, Processes
<1>6. AgentActsOnAnswer'
    BY DEF AgentActsOnAnswer, Asked
<1>7. ProposalAsked'
    BY DEF ProposalAsked, Asked
<1>8. OneGrant'
    BY DEF OneGrant
<1> QED BY <1>1, <1>2, <1>3, <1>4, <1>5, <1>6, <1>7, <1>8

(* The payload is written into the semantic memory. *)
LEMMA SaveIInv ==
    ASSUME ApprovalsAssumption, IInv, NEW p \in Processes, Save(p)
    PROVE  IInv'
<1>t. TypeOK /\ OpInv
    BY DEF IInv
<1>a. /\ op[p] \in Contexts
      /\ op[p].step \in Steps /\ op[p].id \in Ids /\ op[p].answer \in Answers
      /\ op[p].scope \in BOOLEAN /\ op[p].held \in Records /\ op[p].seen \in Statuses
    BY <1>t, HasContext DEF Save
<1>0. /\ op' \in [Processes -> Contexts \cup {Idle}]
      /\ Others(p)
      /\ \/ /\ saves[op[p].id] < MaxSaves
            /\ saves' = [saves EXCEPT ![op[p].id] = @ + 1]
            /\ op'[p].seen = op[p].seen
            /\ op'[p].step = "saved" /\ op'[p].id = op[p].id /\ op'[p].answer = op[p].answer
            /\ op'[p].scope = op[p].scope /\ op'[p].held = op[p].held
         \/ op'[p] = [step |-> "idle"] /\ UNCHANGED saves
    BY <1>t, GoToOp, LeaveOp DEF Save, Steps
<1> USE DEF IInv, TypeOK, Save
<1>1. TypeOK'
    BY <1>0
<1>2. OpInv'
    BY <1>0 DEF OpInv
<1>3. RecordInv'
    BY DEF RecordInv, Asked
<1>4. GrantInv'
    BY <1>0 DEF GrantInv
<1>5. ApiInv'
    BY <1>0 DEF ApiInv, OpInv, OneProcess, CanMove, Processes
<1>6. AgentActsOnAnswer'
    BY DEF AgentActsOnAnswer, Asked
<1>7. ProposalAsked'
    BY DEF ProposalAsked, OpInv, Asked, Processes
<1>8. OneGrant'
    BY DEF OneGrant
<1> QED BY <1>1, <1>2, <1>3, <1>4, <1>5, <1>6, <1>7, <1>8

(* The proposal is marked applied. *)
LEMMA MarkAppliedIInv ==
    ASSUME ApprovalsAssumption, IInv, NEW p \in Processes, MarkApplied(p)
    PROVE  IInv'
<1>t. TypeOK /\ OpInv
    BY DEF IInv
<1>a. /\ op[p] \in Contexts
      /\ op[p].step \in Steps /\ op[p].id \in Ids /\ op[p].answer \in Answers
      /\ op[p].scope \in BOOLEAN /\ op[p].held \in Records /\ op[p].seen \in Statuses
    BY <1>t, HasContext DEF MarkApplied
<1>0. /\ op' \in [Processes -> Contexts \cup {Idle}]
      /\ Others(p)
      /\ \/ /\ CanMove(op[p].id, op[p].seen, "applied")
            /\ proposal' = [proposal EXCEPT ![op[p].id] = "applied"]
            /\ op'[p].step = "outcome" /\ op'[p].id = op[p].id /\ op'[p].answer = op[p].answer
            /\ op'[p].scope = op[p].scope /\ op'[p].held = op[p].held
         \/ op'[p] = [step |-> "idle"] /\ UNCHANGED proposal
    BY <1>t, GoToOp, LeaveOp DEF MarkApplied, Steps
<1> USE DEF IInv, TypeOK, MarkApplied
<1>1. TypeOK'
    BY <1>0 DEF Statuses
<1>2. OpInv'
    BY <1>0 DEF OpInv
<1>3. RecordInv'
    BY DEF RecordInv, Asked
<1>4. GrantInv'
    BY <1>0 DEF GrantInv
<1>5. ApiInv'
    BY <1>0 DEF ApiInv, OpInv, OneProcess, CanMove, Processes
<1>6. AgentActsOnAnswer'
    BY DEF AgentActsOnAnswer, Asked
<1>7. ProposalAsked'
    BY DEF ProposalAsked, OpInv, Asked, Processes
<1>8. OneGrant'
    BY DEF OneGrant
<1> QED BY <1>1, <1>2, <1>3, <1>4, <1>5, <1>6, <1>7, <1>8

(* The outcome is written to the file. *)
LEMMA WriteOutcomeIInv ==
    ASSUME ApprovalsAssumption, IInv, NEW p \in Processes, WriteOutcome(p)
    PROVE  IInv'
<1>t. TypeOK /\ OpInv
    BY DEF IInv
<1>a. /\ op[p] \in Contexts
      /\ op[p].step \in Steps /\ op[p].id \in Ids /\ op[p].answer \in Answers
      /\ op[p].scope \in BOOLEAN /\ op[p].held \in Records /\ op[p].seen \in Statuses
    BY <1>t, HasContext DEF WriteOutcome
<1>0. /\ op' \in [Processes -> Contexts \cup {Idle}]
      /\ Others(p)
      /\ \/ /\ op[p].scope
            /\ op'[p].step = "grant" /\ op'[p].id = op[p].id /\ op'[p].answer = op[p].answer
            /\ op'[p].scope = op[p].scope /\ op'[p].held = op[p].held
         \/ op'[p] = [step |-> "idle"]
    BY <1>t, GoToOp, LeaveOp DEF WriteOutcome, Steps
<1> USE DEF IInv, TypeOK, WriteOutcome
<1>1. TypeOK'
    BY <1>a, <1>0
<1>2. OpInv'
    BY <1>0 DEF GrantInv, OpInv
<1>3. RecordInv'
    BY DEF RecordInv, OpInv, Asked, Processes
<1>4. GrantInv'
    BY <1>0 DEF GrantInv, OpInv, Processes, Unreadable
<1>5. ApiInv'
    BY <1>0 DEF ApiInv, OneProcess, CanMove, Processes
<1>6. AgentActsOnAnswer'
    BY DEF AgentActsOnAnswer, Asked
<1>7. ProposalAsked'
    BY DEF ProposalAsked, Asked
<1>8. OneGrant'
    BY DEF OneGrant
<1> QED BY <1>1, <1>2, <1>3, <1>4, <1>5, <1>6, <1>7, <1>8

(* A grant is issued. *)
LEMMA IssueGrantIInv ==
    ASSUME ApprovalsAssumption, IInv, NEW p \in Processes, IssueGrant(p)
    PROVE  IInv'
<1>t. TypeOK /\ OpInv
    BY DEF IInv
<1>a. /\ op[p] \in Contexts
      /\ op[p].step \in Steps /\ op[p].id \in Ids /\ op[p].answer \in Answers
      /\ op[p].scope \in BOOLEAN /\ op[p].held \in Records /\ op[p].seen \in Statuses
    BY <1>t, HasContext DEF IssueGrant
<1>0. /\ op' \in [Processes -> Contexts \cup {Idle}]
      /\ Others(p)
      /\ op'[p] = [step |-> "idle"]
    BY <1>t, LeaveOp DEF IssueGrant
<1>b. \A a \in Ids : \/ grants'[a] = grants[a]
                     \/ a = op[p].id /\ grants'[a] = grants[a] + 1
  <2>1. CASE grants' = grants
      BY <2>1
  <2>2. CASE grants' = [grants EXCEPT ![op[p].id] = @ + 1]
      BY <2>2
  <2> QED BY <2>2 DEF IssueGrant
<1>c. grants' \in [Ids -> Nat]
    BY <1>t DEF IssueGrant, TypeOK
<1>d. op[p].scope
    BY <1>t DEF IssueGrant, OpInv
<1> USE DEF IInv, TypeOK, IssueGrant
<1>1. TypeOK'
    BY <1>0
<1>2. OpInv'
    BY <1>0 DEF OpInv
<1>3. RecordInv'
    BY DEF RecordInv, Asked
<1>4. GrantInv'
    BY <1>0, <1>d DEF GrantInv
<1>5. ApiInv'
    BY <1>0 DEF ApiInv, OneProcess, CanMove, Processes
<1>6. AgentActsOnAnswer'
    BY DEF AgentActsOnAnswer, Asked
<1>7. ProposalAsked'
    BY DEF ProposalAsked, Asked
<1>8. OneGrant'
    BY <1>d DEF OneGrant, GrantInv
<1> QED BY <1>1, <1>2, <1>3, <1>4, <1>5, <1>6, <1>7, <1>8

(* A process dies. *)
LEMMA CrashIInv ==
    ASSUME ApprovalsAssumption, IInv, NEW p \in Processes, Crash(p)
    PROVE  IInv'
<1>t. TypeOK /\ OpInv
    BY DEF IInv
<1>0. /\ op' \in [Processes -> Contexts \cup {Idle}]
      /\ Others(p)
      /\ op'[p] = [step |-> "idle"]
    BY <1>t, LeaveOp DEF Crash
<1>b. \/ UNCHANGED rec
      \/ \E b \in Ids : rec' = [rec EXCEPT ![b] = [status |-> "torn", response |-> "none"]]
    BY DEF Crash
<1>e. \A q \in Processes : op[q].step # "idle" => op[q].id \in Ids
    BY <1>t, HasContext
<1> USE DEF IInv, TypeOK, Crash
<1>1. TypeOK'
  <2>1. rec' \in [Ids -> Records]
    <3>1. CASE \E b \in Ids : rec' = [rec EXCEPT ![b] = [status |-> "torn", response |-> "none"]]
      <4>1. [status |-> "torn", response |-> "none"] \in Records
          BY DEF Records, Unreadable
      <4> QED BY <3>1, <4>1
    <3>2. CASE UNCHANGED rec
        BY <3>2
    <3> QED BY <1>b, <3>1, <3>2
  <2>2. waiter' \in [Questions -> {"none", "waiting", "answered", "gone"}]
      OBVIOUS
  <2>3. crashes' \in 0 .. MaxCrashes
      OBVIOUS
  <2> QED BY <1>0, <2>1
<1>2. OpInv'
    BY <1>0 DEF OpInv
<1>3. RecordInv'
    BY DEF RecordInv, Asked, Resolved
<1>4. GrantInv'
  <2>1. ASSUME NEW a \in Ids
        PROVE  rec'[a] = rec[a] \/ rec'[a].status = "torn"
    <3>1. CASE \E b \in Ids : rec' = [rec EXCEPT ![b] = [status |-> "torn", response |-> "none"]]
        OBVIOUS
    <3>2. CASE UNCHANGED rec
        OBVIOUS
    <3> QED OBVIOUS
  <2> QED BY <1>0, <1>e DEF GrantInv
<1>5. ApiInv'
    BY <1>0 DEF ApiInv, OneProcess, CanMove, Processes
<1>6. AgentActsOnAnswer'
    BY DEF AgentActsOnAnswer, Asked
<1>7. ProposalAsked'
    BY DEF ProposalAsked, Asked
<1>8. OneGrant'
    BY DEF OneGrant
<1> QED BY <1>1, <1>2, <1>3, <1>4, <1>5, <1>6, <1>7, <1>8

(* Every step preserves the invariant. *)
LEMMA NextIInv ==
    ASSUME ApprovalsAssumption, IInv, [Next]_vars
    PROVE  IInv'
<1>1. CASE Next
    BY <1>1, CreateIInv, PollIInv, StopWaitingIInv, SubmitIInv, ResolveApprovalIInv,
       TelegramAnswerIInv, CliListIInv, CliResolveIInv, CliDirectIInv, WriteMetadataIInv,
       ReadForReviewIInv, WriteReviewIInv, ReadForApplyIInv, SaveIInv, MarkAppliedIInv,
       WriteOutcomeIInv, IssueGrantIInv, CrashIInv
       DEF Next, Operator, Handler
<1>2. CASE UNCHANGED vars
    BY <1>2
       DEF vars, IInv, TypeOK, OpInv, RecordInv, GrantInv, ApiInv, AgentActsOnAnswer,
           ProposalAsked, OneGrant, OneProcess, CanMove, Asked
<1> QED BY <1>1, <1>2

(* The inductive invariant always holds. *)
THEOREM InductiveInvariant ==
    ASSUME ApprovalsAssumption
    PROVE  Spec => []IInv
BY InitIInv, NextIInv, PTL DEF Spec

(* Every variable keeps its type. *)
THEOREM TypeCorrect ==
    ASSUME ApprovalsAssumption
    PROVE  Spec => []TypeOK
<1>1. IInv => TypeOK
    BY DEF IInv
<1> QED BY <1>1, InductiveInvariant, PTL

(* The agent acts on an answer that was given to its question, on whatever surfaces and *)
(* however often the question was answered (ask_user, wait_for_resolution).             *)
THEOREM ActsOnAnswer ==
    ASSUME ApprovalsAssumption
    PROVE  Spec => []AgentActsOnAnswer
<1>1. IInv => AgentActsOnAnswer
    BY DEF IInv
<1> QED BY <1>1, InductiveInvariant, PTL

(* A proposal is in no state that no operator asked for (resolve_semantic_proposal_approval). *)
THEOREM ProposalsAsked ==
    ASSUME ApprovalsAssumption
    PROVE  Spec => []ProposalAsked
<1>1. IInv => ProposalAsked
    BY DEF IInv
<1> QED BY <1>1, InductiveInvariant, PTL

(* An approval leaves at most one grant (submit_approval). *)
THEOREM GrantedOnce ==
    ASSUME ApprovalsAssumption
    PROVE  Spec => []OneGrant
<1>1. IInv => OneGrant
    BY DEF IInv
<1> QED BY <1>1, InductiveInvariant, PTL

(* While the cli keeps out, a proposal is written once, and once more for each crash *)
(* (ApplySemanticProposalUseCase).                                                    *)
THEOREM WrittenOnce ==
    ASSUME ApprovalsAssumption
    PROVE  Spec => []SavedOnce
<1>1. IInv => SavedOnce
    BY DEF IInv, ApiInv, SavedOnce
<1> QED BY <1>1, InductiveInvariant, PTL

(* No step overturns a review while the cli keeps out (transition_to against the *)
(* unconditional update of the repository).                                       *)
THEOREM ReviewFinal ==
    ASSUME ApprovalsAssumption
    PROVE  Spec => ReviewIsFinal
<1> DEFINE Final(a) ==
               /\ proposal[a] \in {"rejected", "applied"} => proposal'[a] = proposal[a]
               /\ proposal[a] = "approved" => proposal'[a] \in {"approved", "applied"}
           A == \A a \in Proposals : OneProcess(a)' => Final(a)
<1>1. ASSUME IInv, [Next]_vars PROVE [A]_vars
  <2> SUFFICES ASSUME Next, NEW a \in Proposals, OneProcess(a)'
               PROVE  Final(a)
      BY <1>1
  <2> USE <1>1 DEF IInv, TypeOK
  <2>1. CASE UNCHANGED proposal
      BY <2>1
  <2>2. ASSUME NEW p \in Processes, WriteReview(p)
        PROVE  Final(a)
    <3>1. CASE op[p].id = a
      <4>0. [answer |-> op[p].answer, by |-> p] \in given'[a]
          BY <2>2, <3>1 DEF WriteReview, OpInv
      <4>1. p = "api"
          BY <4>0 DEF OneProcess
      <4>2. CanMove(a, proposal[a], Verdict(op[p].answer))
          BY <2>2, <3>1, <4>1 DEF WriteReview, ApiInv, OneProcess
      <4>3. proposal'[a] = Verdict(op[p].answer)
          BY <2>2, <3>1 DEF WriteReview
      <4> QED BY <4>2, <4>3 DEF CanMove
    <3>2. CASE op[p].id # a
        BY <2>2, <3>2 DEF WriteReview
    <3> QED BY <3>1, <3>2
  <2>3. ASSUME NEW p \in Processes, MarkApplied(p)
        PROVE  Final(a)
    <3>1. CASE op[p].id = a
      <4>0. [answer |-> op[p].answer, by |-> p] \in given'[a]
          BY <2>3, <3>1 DEF MarkApplied, OpInv
      <4>1. p = "api"
          BY <4>0 DEF OneProcess
      <4>2. proposal[a] = "approved"
          BY <2>3, <3>1, <4>1 DEF MarkApplied, ApiInv, OneProcess
      <4>3. proposal'[a] \in {"approved", "applied"}
          BY <2>3, <4>2 DEF MarkApplied
      <4> QED BY <4>2, <4>3
    <3>2. CASE op[p].id # a
        BY <2>3, <3>2 DEF MarkApplied
    <3> QED BY <3>1, <3>2
  <2>4. \/ UNCHANGED proposal
        \/ \E p \in Processes : WriteReview(p) \/ MarkApplied(p)
      BY
         DEF Next, Operator, Handler, Create, Poll, StopWaiting, Submit, ResolveApproval,
             TelegramAnswer, CliList, CliResolve, CliDirect, WriteMetadata, ReadForReview,
             ReadForApply, Save, WriteOutcome, IssueGrant, Crash
  <2> QED BY <2>2, <2>3, <2>4
<1> QED BY <1>1, InductiveInvariant, PTL DEF Spec, ReviewIsFinal

-----------------------------------------------------------------------------
(* Approvals implements ApprovalPromise.                                     *)

\* What the promise needs besides IInv.  A question is asked once and acted upon once;
\* a handler that is to mark a proposal has written it; one that may grant carries no
\* rejection.
OnceInv ==
    /\ \A q \in Questions :
          /\ rec[q].status = "absent" => waiter[q] = "none"
          /\ waiter[q] # "answered" => acted[q] = "none"
    /\ \A p \in Processes :
          /\ op[p].step = "saved" => saves[op[p].id] > 0
          /\ op[p].step # "idle" => (op[p].scope => op[p].answer # "reject")

LEMMA InitOnce ==
    ASSUME Init
    PROVE  OnceInv
BY DEF Init, OnceInv

(* The files and the waiters of the questions. *)
LEMMA NextAskedOnce ==
    ASSUME ApprovalsAssumption, IInv, OnceInv, Next, NEW q \in Questions
    PROVE  /\ rec'[q].status = "absent" => waiter'[q] = "none"
           /\ waiter'[q] # "answered" => acted'[q] = "none"
<1> DEFINE Goal == /\ rec'[q].status = "absent" => waiter'[q] = "none"
                   /\ waiter'[q] # "answered" => acted'[q] = "none"
<1> USE DEF IInv, TypeOK, OnceInv
<1>1. ASSUME NEW a \in Ids, Create(a) PROVE Goal
    BY <1>1 DEF Create, Records
<1>2. ASSUME NEW a \in Questions, Poll(a) PROVE Goal
    BY <1>2 DEF Poll, Resolved
<1>3. ASSUME NEW a \in Questions, StopWaiting(a) PROVE Goal
    BY <1>3 DEF StopWaiting
<1>4. CASE UNCHANGED <<waiter, acted>> /\ (rec'[q].status = "absent" => rec[q].status = "absent")
    BY <1>4
<1>5. ASSUME NEW a \in Ids, NEW answer \in Answers,
             rec' = [rec EXCEPT ![a] = Answered(answer)]
      PROVE  rec'[q].status = "absent" => rec[q].status = "absent"
    BY <1>5 DEF Verdict
<1>6. CASE Operator
  <2>1. ASSUME NEW a \in Ids, NEW answer \in Answers, NEW scope \in BOOLEAN,
               Submit(a, answer, scope)
        PROVE  Goal
      BY <1>4, <1>5, <2>1 DEF Submit
  <2>2. ASSUME NEW a \in Ids, NEW answer \in Answers,
               ResolveApproval(a, answer) \/ TelegramAnswer(a, answer)
        PROVE  Goal
      BY <1>4, <1>5, <2>2 DEF ResolveApproval, TelegramAnswer
  <2>3. ASSUME NEW answer \in Answers, CliResolve(answer) PROVE Goal
    <3>1. op["cli"].id \in Ids
        BY <2>3, HasContext DEF CliResolve, Processes
    <3> QED BY <1>4, <1>5, <2>3, <3>1 DEF CliResolve
  <2>4. CASE (\E a \in Ids : CliList(a)) \/ (\E answer \in Answers : CliDirect(answer))
      BY <1>4, <2>4 DEF CliList, CliDirect
  <2> QED BY <1>6, <2>1, <2>2, <2>3, <2>4 DEF Operator
<1>7. ASSUME NEW p \in Processes, Handler(p) PROVE Goal
  <2>1. CASE WriteMetadata(p)
    <3>1. op[p].held = Answered(op[p].answer) /\ op[p].id \in Ids /\ op[p].answer \in Answers
        BY <2>1, HasContext DEF WriteMetadata, OpInv
    <3> QED BY <1>4, <1>5, <2>1, <3>1 DEF WriteMetadata
  <2>2. CASE WriteOutcome(p)
    <3>1. op[p].id \in Proposals
        BY <2>2 DEF WriteOutcome, OpInv
    <3> QED BY <1>4, <2>2, <3>1 DEF WriteOutcome, ApprovalsAssumption
  <2>3. CASE UNCHANGED <<rec, waiter, acted>>
      BY <1>4, <2>3
  <2> QED
      BY <1>7, <2>1, <2>2, <2>3
         DEF Handler, ReadForReview, WriteReview, ReadForApply, Save, MarkApplied, IssueGrant
<1>8. ASSUME NEW p \in Processes, Crash(p) PROVE Goal
    BY <1>8 DEF Crash
<1> QED BY <1>1, <1>2, <1>3, <1>6, <1>7, <1>8 DEF Next

(* What the handlers carry. *)
LEMMA NextCarriedOnce ==
    ASSUME ApprovalsAssumption, IInv, OnceInv, Next, NEW q \in Processes
    PROVE  /\ op'[q].step = "saved" => saves'[op'[q].id] > 0
           /\ op'[q].step # "idle" => (op'[q].scope => op'[q].answer # "reject")
<1> DEFINE Goal == /\ op'[q].step = "saved" => saves'[op'[q].id] > 0
                   /\ op'[q].step # "idle" => (op'[q].scope => op'[q].answer # "reject")
<1> USE DEF IInv, TypeOK, OnceInv
<1>1. CASE UNCHANGED <<op, saves>>
    BY <1>1
<1>2. ASSUME NEW p \in Processes, NEW a \in Ids, NEW answer, NEW scope, NEW held, NEW seen,
             NEW step, step # "saved", scope => answer # "reject",
             Hold(p, step, a, answer, scope, held, seen), UNCHANGED saves
      PROVE  Goal
    BY <1>2 DEF Hold
<1>3. ASSUME NEW p \in Processes, Leave(p), UNCHANGED saves PROVE Goal
    BY <1>3, LeaveOp
<1>4. CASE Operator
  <2>1. ASSUME NEW a \in Ids, NEW answer \in Answers, NEW scope \in BOOLEAN,
               Submit(a, answer, scope)
        PROVE  Goal
      BY <1>2, <2>1 DEF Submit, Processes
  <2>2. ASSUME NEW a \in Ids, NEW answer \in Answers, ResolveApproval(a, answer) PROVE Goal
      BY <1>1, <1>2, <2>2 DEF ResolveApproval, Processes
  <2>3. ASSUME NEW a \in Ids, NEW answer \in Answers, TelegramAnswer(a, answer) PROVE Goal
      BY <1>1, <2>3 DEF TelegramAnswer
  <2>4. ASSUME NEW a \in Ids, CliList(a) PROVE Goal
      BY <1>2, <2>4 DEF CliList, Processes
  <2>5. ASSUME NEW answer \in Answers, CliResolve(answer) PROVE Goal
    <3>1. op["cli"].id \in Ids
        BY <2>5, HasContext DEF CliResolve, Processes
    <3> QED BY <1>2, <1>3, <2>5, <3>1 DEF CliResolve, Processes
  <2>6. ASSUME NEW answer \in Answers, CliDirect(answer) PROVE Goal
    <3>1. op["cli"].id \in Ids
        BY <2>6, HasContext DEF CliDirect, Processes
    <3>2. PICK step :
             step = IF answer = "apply" /\ (op["cli"].seen # "pending" \/ eligible[op["cli"].id])
                      THEN "apply" ELSE "review"
        OBVIOUS
    <3>3. PICK held :
             held = IF op["cli"].held.status \in Unreadable
                      THEN op["cli"].held ELSE [op["cli"].held EXCEPT !.response = answer]
        OBVIOUS
    <3>4. /\ Hold("cli", step, op["cli"].id, answer, FALSE, held, op["cli"].seen)
          /\ UNCHANGED saves
        BY <2>6, <3>2, <3>3 DEF CliDirect
    <3>5. step # "saved"
        BY <3>2
    <3> QED BY <1>2, <3>1, <3>4, <3>5 DEF Processes
  <2> QED BY <1>4, <2>1, <2>2, <2>3, <2>4, <2>5, <2>6 DEF Operator
<1>5. ASSUME NEW p \in Processes, NEW step \in Steps, op[p].step # "idle", GoTo(p, step),
             \/ step # "saved" /\ UNCHANGED saves
             \/ op[p].id \in Proposals /\ saves' = [saves EXCEPT ![op[p].id] = @ + 1]
      PROVE  Goal
  <2>1. /\ Others(p)
        /\ op'[p].step = step /\ op'[p].id = op[p].id /\ op'[p].answer = op[p].answer
        /\ op'[p].scope = op[p].scope
      BY <1>5, GoToOp
  <2>2. CASE q = p
      BY <1>5, <2>1, <2>2
  <2>3. CASE q # p
    <3>1. \A a \in Proposals : saves[a] > 0 => saves'[a] > 0
        BY <1>5, ApprovalsAssumption
    <3>2. op[q].step = "saved" => op[q].id \in Proposals
        BY DEF OpInv
    <3> QED BY <2>1, <2>3, <3>1, <3>2
  <2> QED BY <2>2, <2>3
<1>6. ASSUME NEW p \in Processes, NEW step \in Steps, op[p].step # "idle", step # "saved",
             NEW seen \in Statuses, Carry(p, step, seen), UNCHANGED saves
      PROVE  Goal
  <2>1. /\ Others(p)
        /\ op'[p].step = step /\ op'[p].id = op[p].id /\ op'[p].answer = op[p].answer
        /\ op'[p].scope = op[p].scope
      BY <1>6, CarryOp
  <2> QED BY <1>6, <2>1
<1>7. ASSUME NEW p \in Processes, Handler(p) PROVE Goal
  <2>1. CASE WriteMetadata(p)
    <3>1. GoTo(p, "review") \/ GoTo(p, "grant") \/ Leave(p)
        BY <2>1, HasContext DEF WriteMetadata
    <3> QED BY <1>3, <1>5, <2>1, <3>1 DEF WriteMetadata, Steps
  <2>2. CASE ReadForReview(p)
      BY <1>3, <1>6, <2>2 DEF ReadForReview, Steps, OpInv
  <2>3. CASE WriteReview(p)
      BY <1>5, <2>3 DEF WriteReview, Steps
  <2>4. CASE ReadForApply(p)
      BY <1>3, <1>6, <2>4 DEF ReadForApply, Steps, OpInv
  <2>5. CASE Save(p)
      BY <1>3, <1>5, <2>5 DEF Save, Steps, OpInv
  <2>6. CASE MarkApplied(p)
      BY <1>3, <1>5, <2>6 DEF MarkApplied, Steps
  <2>7. CASE WriteOutcome(p)
      BY <1>3, <1>5, <2>7 DEF WriteOutcome, Steps
  <2>8. CASE IssueGrant(p)
      BY <1>3, <2>8 DEF IssueGrant
  <2> QED BY <1>7, <2>1, <2>2, <2>3, <2>4, <2>5, <2>6, <2>7, <2>8 DEF Handler
<1>8. ASSUME NEW p \in Processes, Crash(p) PROVE Goal
    BY <1>3, <1>8 DEF Crash
<1>9. ASSUME NEW a \in Ids, Create(a) PROVE Goal
    BY <1>1, <1>9 DEF Create
<1>10. ASSUME NEW a \in Questions, Poll(a) \/ StopWaiting(a) PROVE Goal
    BY <1>1, <1>10 DEF Poll, StopWaiting
<1> QED BY <1>4, <1>7, <1>8, <1>9, <1>10 DEF Next

LEMMA NextOnce ==
    ASSUME ApprovalsAssumption, IInv, OnceInv, [Next]_vars
    PROVE  OnceInv'
<1>1. CASE Next
    BY <1>1, NextAskedOnce, NextCarriedOnce DEF OnceInv
<1>2. CASE UNCHANGED vars
    BY <1>2 DEF OnceInv, vars
<1> QED BY <1>1, <1>2

\* What the promise shows of a state.
Seen == <<given, acted, proposal, saves, grants, crashes>>

LEMMA QuietMoves ==
    ASSUME UNCHANGED Seen
    PROVE  [Promised!Move]_Promised!promised
BY DEF Seen, Promised!promised

LEMMA GiveMoves ==
    ASSUME NEW p \in Processes, NEW a \in Ids, NEW answer \in Answers, Give(p, a, answer),
           UNCHANGED <<acted, proposal, saves, grants, crashes>>
    PROVE  Promised!Move
<1>1. [answer |-> answer, by |-> p] \in Promised!Given
    BY DEF Answers, Processes, Promised!Given
<1>2. Promised!Answer(a)
    BY <1>1 DEF Promised!Answer
<1> QED BY <1>2 DEF Promised!Move, Promised!Ids

(* The agent acts. *)
LEMMA PollMoves ==
    ASSUME IInv, OnceInv, NEW q \in Questions, Poll(q)
    PROVE  Promised!Move
<1> DEFINE reply == IF rec[q].status = "rejected" THEN "reject" ELSE rec[q].response
<1>1. Asked(q, rec[q].response) /\ rec[q] = Answered(rec[q].response)
    BY DEF IInv, RecordInv, Poll
<1>2. reply = rec[q].response
  <2>1. rec[q].status = Verdict(rec[q].response)
      BY <1>1
  <2> QED BY <2>1 DEF Verdict
<1>3. \E g \in given[q] : g.answer = reply
    BY <1>1, <1>2 DEF Asked
<1>4. acted[q] = "none"
    BY DEF OnceInv, Poll
<1>5. Promised!Act(q)
    BY <1>3, <1>4 DEF Poll, Promised!Act
<1> QED BY <1>5 DEF Promised!Move

(* An operator answers. *)
LEMMA OperatorMoves ==
    ASSUME IInv, Operator
    PROVE  [Promised!Move]_Promised!promised
<1>1. ASSUME NEW a \in Ids, NEW answer \in Answers, NEW scope \in BOOLEAN,
             Submit(a, answer, scope) \/ ResolveApproval(a, answer) \/ TelegramAnswer(a, answer)
      PROVE  Promised!Move
    BY <1>1, GiveMoves DEF Submit, ResolveApproval, TelegramAnswer, Processes
<1>2. CASE \E a \in Ids : CliList(a)
    BY <1>2, QuietMoves DEF CliList, Seen
<1>3. ASSUME NEW answer \in Answers, CliResolve(answer) \/ CliDirect(answer)
      PROVE  [Promised!Move]_Promised!promised
  <2>1. op["cli"].id \in Ids
      BY <1>3, HasContext DEF IInv, CliResolve, CliDirect, Processes
  <2> QED
      BY <1>3, <2>1, GiveMoves, QuietMoves DEF CliResolve, CliDirect, Processes, Seen
<1> QED BY <1>1, <1>2, <1>3 DEF Operator

(* What a handler carries out was asked of it, in the process it runs in. *)
LEMMA CarriesAnswer ==
    ASSUME IInv, NEW p \in Processes, op[p].step \notin {"idle", "listed"}
    PROVE  /\ op[p].id \in Ids /\ op[p].answer \in Answers
           /\ [answer |-> op[p].answer, by |-> p] \in given[op[p].id]
           /\ Promised!Asked(op[p].id, {op[p].answer})
           /\ Promised!OneProcess(op[p].id) => p = "api" /\ OneProcess(op[p].id)
<1>1. op[p].id \in Ids /\ op[p].answer \in Answers
    BY HasContext DEF IInv
<1>2. [answer |-> op[p].answer, by |-> p] \in given[op[p].id]
    BY DEF IInv, OpInv
<1>3. Promised!Asked(op[p].id, {op[p].answer})
    BY <1>2 DEF Promised!Asked
<1>4. Promised!OneProcess(op[p].id) => p = "api" /\ OneProcess(op[p].id)
    BY <1>2 DEF Promised!OneProcess, OneProcess
<1> QED BY <1>1, <1>2, <1>3, <1>4

(* A review is written. *)
LEMMA WriteReviewMoves ==
    ASSUME IInv, NEW p \in Processes, WriteReview(p)
    PROVE  Promised!Move
<1> DEFINE a == op[p].id
           verdict == Verdict(op[p].answer)
<1>1. a \in Proposals
    BY DEF WriteReview, IInv, OpInv
<1>2. /\ op[p].answer \in Answers /\ Promised!Asked(a, {op[p].answer})
      /\ Promised!OneProcess(a) => p = "api" /\ OneProcess(a)
    BY CarriesAnswer DEF WriteReview
<1>3. Promised!OneProcess(a) => CanMove(a, proposal[a], verdict)
    BY <1>1, <1>2 DEF WriteReview, IInv, ApiInv
<1>4. Promised!OneProcess(a) => proposal[a] \in {"pending", verdict}
    BY <1>3 DEF CanMove, Verdict
<1>5. CASE op[p].answer = "reject"
  <2>1. Promised!Reject(a)
      BY <1>2, <1>4, <1>5 DEF WriteReview, Verdict, Promised!Reject, Promised!Decide
  <2> QED BY <1>1, <2>1 DEF Promised!Move
<1>6. CASE op[p].answer \in {"approve", "apply"}
  <2>1. Promised!Asked(a, {"approve", "apply"})
      BY <1>2, <1>6 DEF Promised!Asked
  <2>2. Promised!Approve(a)
      BY <1>4, <1>6, <2>1 DEF WriteReview, Verdict, Promised!Approve, Promised!Decide
  <2> QED BY <1>1, <2>2 DEF Promised!Move
<1> QED BY <1>2, <1>5, <1>6 DEF Answers

(* The proposal is written into the semantic memory, *)
LEMMA SaveMoves ==
    ASSUME IInv, NEW p \in Processes, Save(p)
    PROVE  [Promised!Move]_Promised!promised
<1> DEFINE a == op[p].id
<1>1. a \in Proposals /\ op[p].answer = "apply"
    BY DEF Save, IInv, OpInv
<1>2. /\ Promised!Asked(a, {op[p].answer})
      /\ Promised!OneProcess(a) => p = "api" /\ OneProcess(a)
    BY CarriesAnswer DEF Save
<1>3. Promised!OneProcess(a) => proposal[a] = "approved" /\ saves[a] <= crashes
    BY <1>1, <1>2 DEF Save, IInv, ApiInv
<1>4. CASE UNCHANGED saves
    BY <1>4, QuietMoves DEF Save, Seen
<1>5. CASE saves' = [saves EXCEPT ![a] = @ + 1]
  <2>1. Promised!Write(a)
      BY <1>1, <1>2, <1>3, <1>5 DEF Save, Promised!Write
  <2> QED BY <1>1, <2>1 DEF Promised!Move
<1> QED BY <1>4, <1>5 DEF Save

(* and marked applied. *)
LEMMA MarkAppliedMoves ==
    ASSUME IInv, OnceInv, NEW p \in Processes, MarkApplied(p)
    PROVE  [Promised!Move]_Promised!promised
<1> DEFINE a == op[p].id
<1>1. a \in Proposals /\ op[p].answer = "apply" /\ saves[a] > 0
    BY DEF MarkApplied, IInv, OpInv, OnceInv
<1>2. /\ Promised!Asked(a, {op[p].answer})
      /\ Promised!OneProcess(a) => p = "api" /\ OneProcess(a)
    BY CarriesAnswer DEF MarkApplied
<1>3. Promised!OneProcess(a) => proposal[a] = "approved"
    BY <1>1, <1>2 DEF MarkApplied, IInv, ApiInv
<1>4. CASE UNCHANGED proposal
    BY <1>4, QuietMoves DEF MarkApplied, Seen
<1>5. CASE proposal' = [proposal EXCEPT ![a] = "applied"]
  <2>1. Promised!Apply(a)
      BY <1>1, <1>2, <1>3, <1>5 DEF MarkApplied, Promised!Apply
  <2> QED BY <1>1, <2>1 DEF Promised!Move
<1> QED BY <1>4, <1>5 DEF MarkApplied

(* A grant is issued. *)
LEMMA IssueGrantMoves ==
    ASSUME IInv, OnceInv, NEW p \in Processes, IssueGrant(p)
    PROVE  [Promised!Move]_Promised!promised
<1> DEFINE a == op[p].id
<1>1. a \in Ids /\ op[p].scope /\ grants[a] = 0 /\ p = "api" /\ op[p].answer # "reject"
    BY CarriesAnswer DEF IssueGrant, IInv, OpInv, GrantInv, OnceInv
<1>2. \E g \in given[a] : g.by = "api" /\ g.answer # "reject"
    BY <1>1, CarriesAnswer DEF IssueGrant
<1>3. CASE UNCHANGED grants
    BY <1>3, QuietMoves DEF IssueGrant, Seen
<1>4. CASE grants' = [grants EXCEPT ![a] = @ + 1]
  <2>0. grants[a] + 1 = 1
      BY <1>1
  <2>1. grants' = [grants EXCEPT ![a] = 1]
      BY <1>4, <2>0, Zenon
  <2>2. Promised!Grant(a)
      BY <1>1, <1>2, <2>1 DEF IssueGrant, Promised!Grant
  <2> QED BY <1>1, <2>2 DEF Promised!Move, Promised!Ids
<1> QED BY <1>3, <1>4 DEF IssueGrant

LEMMA CrashMoves ==
    ASSUME NEW p \in Processes, Crash(p)
    PROVE  Promised!Move
BY DEF Crash, Promised!Crash, Promised!Move

(* Whatever the surfaces, the command line and the crashes do to each other, nothing is   *)
(* done in an operator's name that no operator asked for, and nothing is done too often   *)
(* (ask_user, resolve_semantic_proposal_approval, submit_approval).                       *)
THEOREM Implements ==
    ASSUME ApprovalsAssumption
    PROVE  Spec => KeepsPromise
<1>1. Init => Promised!Begin
    BY DEF Init, Promised!Begin, Promised!Ids
<1>2. ASSUME IInv, OnceInv, [Next]_vars PROVE [Promised!Move]_Promised!promised
  <2>1. CASE \E a \in Ids : Create(a)
      BY <2>1, QuietMoves DEF Create, Seen
  <2>2. CASE \E q \in Questions : StopWaiting(q)
      BY <2>2, QuietMoves DEF StopWaiting, Seen
  <2>3. CASE \E q \in Questions : Poll(q)
      BY <1>2, <2>3, PollMoves
  <2>4. CASE Operator
      BY <1>2, <2>4, OperatorMoves
  <2>5. ASSUME NEW p \in Processes, Handler(p) PROVE [Promised!Move]_Promised!promised
    <3>1. CASE WriteMetadata(p) \/ ReadForReview(p) \/ ReadForApply(p) \/ WriteOutcome(p)
        BY <3>1, QuietMoves DEF WriteMetadata, ReadForReview, ReadForApply, WriteOutcome, Seen
    <3> QED
        BY <1>2, <2>5, <3>1, WriteReviewMoves, SaveMoves, MarkAppliedMoves, IssueGrantMoves
           DEF Handler
  <2>6. CASE \E p \in Processes : Crash(p)
      BY <2>6, CrashMoves
  <2>7. CASE UNCHANGED vars
      BY <2>7, QuietMoves DEF vars, Seen
  <2> QED BY <1>2, <2>1, <2>2, <2>3, <2>4, <2>5, <2>6, <2>7 DEF Next
<1>3. IInv /\ OnceInv /\ [Next]_vars => OnceInv'
    BY NextOnce
<1> QED BY <1>1, <1>2, <1>3, InitOnce, InductiveInvariant, PTL
        DEF Spec, KeepsPromise, Promised!Promise

\* The facts of ApprovalPromiseProofs, about the observables of Approvals.
Told == INSTANCE ApprovalPromiseProofs WITH review <- proposal

LEMMA SamePromise == KeepsPromise => Told!Promise
<1>1. Promised!Begin => Told!Begin
    BY DEF Promised!Begin, Promised!Ids, Told!Begin, Told!Ids
<1>2. Promised!Move => Told!Move
    BY DEF Promised!Move, Promised!Ids, Promised!Given, Promised!Answer, Promised!Act,
           Promised!Approve, Promised!Reject, Promised!Decide, Promised!Write,
           Promised!Apply, Promised!Grant, Promised!Crash, Promised!Asked,
           Promised!OneProcess,
           Told!Move, Told!Ids, Told!Given, Told!Answer, Told!Act, Told!Approve,
           Told!Reject, Told!Decide, Told!Write, Told!Apply, Told!Grant, Told!Crash,
           Told!Asked, Told!OneProcess
<1>3. [Promised!Move]_Promised!promised => [Told!Move]_Told!promised
    BY <1>2 DEF Promised!promised, Told!promised
<1> QED BY <1>1, <1>3, PTL DEF KeepsPromise, Promised!Promise, Told!Promise

(* A proposal that is marked applied was written into the semantic memory, and the other  *)
(* bounds of what is done in the name of an operator (ApplySemanticProposalUseCase).      *)
THEOREM KeepsMeasure ==
    ASSUME ApprovalsAssumption
    PROVE  Spec => []Told!InMeasure
BY Implements, SamePromise, Told!PromiseInMeasure

(* The agent is answered once, and no decision of the event loop is reversed (ask_user,   *)
(* ReviewSemanticProposalUseCase).                                                        *)
THEOREM DecisionsKept ==
    ASSUME ApprovalsAssumption
    PROVE  Spec => Told!DecisionsStand
BY Implements, SamePromise, Told!PromiseDecisionsStand
=============================================================================
