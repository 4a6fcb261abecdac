------------------------ MODULE ApprovalPromiseProofs ------------------------
(* What follows from ApprovalPromise alone, whatever implements it. *)
EXTENDS ApprovalPromise, TLAPS

Answers  == {"approve", "apply", "reject"}
Statuses == {"pending", "approved", "rejected", "applied"}

PromiseType ==
    /\ given \in [Ids -> SUBSET Given]
    /\ acted \in [Questions -> Answers \cup {"none"}]
    /\ review \in [Proposals -> Statuses]
    /\ saves \in [Proposals -> Nat]
    /\ grants \in [Ids -> Nat]
    /\ crashes \in Nat

PromiseInv == PromiseType /\ AllAsked /\ InMeasure

LEMMA BeginInv ==
    ASSUME Begin
    PROVE  PromiseInv
BY DEF Begin, PromiseInv, PromiseType, AllAsked, InMeasure, Ids, Given, Answers, Statuses

(* Answers are never taken back, and one more never makes an approval the command line  *)
(* touched one of the event loop alone.                                                 *)
LEMMA AnswersOnlyGrow ==
    ASSUME PromiseType, NEW b \in Ids, Answer(b)
    PROVE  /\ given' \in [Ids -> SUBSET Given]
           /\ \A a \in Ids : given[a] \subseteq given'[a]
           /\ \A a \in Ids : OneProcess(a)' => OneProcess(a)
<1>1. PICK g \in Given : given' = [given EXCEPT ![b] = @ \cup {g}]
    BY DEF Answer
<1>2. given' \in [Ids -> SUBSET Given] /\ \A a \in Ids : given[a] \subseteq given'[a]
    BY <1>1 DEF PromiseType
<1> QED BY <1>2 DEF OneProcess

LEMMA AnswerInv ==
    ASSUME PromiseInv, NEW b \in Ids, Answer(b)
    PROVE  PromiseInv'
<1> USE DEF PromiseInv
<1>1. UNCHANGED <<acted, review, saves, grants, crashes>>
    BY DEF Answer
<1>2. PromiseType'
    BY <1>1, AnswersOnlyGrow DEF PromiseType
<1>3. AllAsked'
    BY <1>1, AnswersOnlyGrow DEF AllAsked, Asked, Ids
<1>4. InMeasure'
    BY <1>1, AnswersOnlyGrow DEF InMeasure, Ids
<1> QED BY <1>2, <1>3, <1>4

LEMMA ActInv ==
    ASSUME PromiseInv, NEW b \in Questions, Act(b)
    PROVE  PromiseInv'
<1> USE DEF PromiseInv, PromiseType, Act
<1>1. PICK g \in given[b] : acted' = [acted EXCEPT ![b] = g.answer]
    OBVIOUS
<1>2. g \in Given /\ g.answer \in Answers
    BY DEF Ids, Given, Answers
<1>3. PromiseType'
    BY <1>1, <1>2
<1>4. AllAsked'
    BY <1>1 DEF AllAsked, Asked
<1>5. InMeasure'
    BY DEF InMeasure, OneProcess
<1> QED BY <1>3, <1>4, <1>5

LEMMA DecideInv ==
    ASSUME PromiseInv, NEW b \in Proposals, Approve(b) \/ Reject(b)
    PROVE  PromiseInv'
<1> USE DEF PromiseInv, PromiseType, Approve, Reject, Decide
<1>1. PromiseType'
    BY DEF Statuses
<1>2. AllAsked'
    BY DEF AllAsked, Asked
<1>3. InMeasure'
    BY DEF InMeasure, OneProcess
<1> QED BY <1>1, <1>2, <1>3

LEMMA WriteInv ==
    ASSUME PromiseInv, NEW b \in Proposals, Write(b)
    PROVE  PromiseInv'
<1> USE DEF PromiseInv, PromiseType, Write
<1>1. PromiseType'
    OBVIOUS
<1>2. AllAsked'
    BY DEF AllAsked, Asked
<1>3. InMeasure'
    BY DEF InMeasure, OneProcess
<1> QED BY <1>1, <1>2, <1>3

LEMMA ApplyInv ==
    ASSUME PromiseInv, NEW b \in Proposals, Apply(b)
    PROVE  PromiseInv'
<1> USE DEF PromiseInv, PromiseType, Apply
<1>1. PromiseType'
    BY DEF Statuses
<1>2. AllAsked'
    BY DEF AllAsked, Asked
<1>3. InMeasure'
    BY DEF InMeasure, OneProcess
<1> QED BY <1>1, <1>2, <1>3

LEMMA GrantInv ==
    ASSUME PromiseInv, NEW b \in Ids, Grant(b)
    PROVE  PromiseInv'
<1> USE DEF PromiseInv, PromiseType, Grant
<1>1. PromiseType'
    OBVIOUS
<1>2. AllAsked'
    BY DEF AllAsked, Asked
<1>3. InMeasure'
    BY DEF InMeasure, OneProcess
<1> QED BY <1>1, <1>2, <1>3

LEMMA CrashInv ==
    ASSUME PromiseInv, Crash
    PROVE  PromiseInv'
<1> USE DEF PromiseInv, PromiseType, Crash
<1>1. PromiseType'
    OBVIOUS
<1>2. AllAsked'
    BY DEF AllAsked, Asked
<1>3. InMeasure'
    BY DEF InMeasure, OneProcess
<1> QED BY <1>1, <1>2, <1>3

(* The strengthening holds as long as the promise is kept. *)
THEOREM PromiseInvariant == Promise => []PromiseInv
<1>1. Begin => PromiseInv
    BY BeginInv
<1>2. PromiseInv /\ [Move]_promised => PromiseInv'
  <2>1. ASSUME PromiseInv, UNCHANGED promised PROVE PromiseInv'
      BY <2>1
         DEF PromiseInv, PromiseType, AllAsked, InMeasure, Asked, OneProcess, promised
  <2> QED
      BY <2>1, AnswerInv, ActInv, DecideInv, WriteInv, ApplyInv, GrantInv, CrashInv DEF Move
<1> QED BY <1>1, <1>2, PTL DEF Promise

(* Whatever stands was asked for, by an operator and of that very approval. *)
THEOREM PromiseAllAsked == Promise => []AllAsked
<1>1. PromiseInv => AllAsked
    BY DEF PromiseInv
<1> QED BY <1>1, PromiseInvariant, PTL

(* One grant, one write and one more for each crash, nothing of what was rejected. *)
THEOREM PromiseInMeasure == Promise => []InMeasure
<1>1. PromiseInv => InMeasure
    BY DEF PromiseInv
<1> QED BY <1>1, PromiseInvariant, PTL

(* The agent is answered once, and no decision is reversed while the command line keeps out. *)
THEOREM PromiseDecisionsStand == Promise => DecisionsStand
<1> DEFINE Stand ==
        /\ \A q \in Questions : acted[q] # "none" => acted'[q] = acted[q]
        /\ \A a \in Proposals : OneProcess(a) =>
              /\ review[a] \in {"rejected", "applied"} => review'[a] = review[a]
              /\ review[a] = "approved" => review'[a] \in {"approved", "applied"}
<1>1. ASSUME PromiseInv, [Move]_promised PROVE [Stand]_promised
  <2> SUFFICES ASSUME Move PROVE Stand
      BY <1>1
  <2> USE <1>1 DEF PromiseInv, PromiseType
  <2>1. CASE UNCHANGED <<acted, review>>
      BY <2>1
  <2>2. ASSUME NEW q \in Questions, Act(q) PROVE Stand
      BY <2>2 DEF Act
  <2>3. ASSUME NEW a \in Proposals, Approve(a) \/ Reject(a) \/ Apply(a) PROVE Stand
      BY <2>3 DEF Approve, Reject, Decide, Apply
  <2> QED BY <2>1, <2>2, <2>3 DEF Move, Answer, Grant, Write, Crash
<1> QED BY <1>1, PromiseInvariant, PTL DEF Promise, DecisionsStand
=============================================================================
