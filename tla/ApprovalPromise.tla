--------------------------- MODULE ApprovalPromise ---------------------------
(***************************************************************************)
(* What the approval bus promises operators and the agent, however many    *)
(* surfaces answer, repeat or overtake each other, and whichever process   *)
(* dies: nothing is done in an operator's name that no operator asked for. *)
(* The agent acts once on a question; a proposal that only the event loop  *)
(* answers is decided once and written into the semantic memory once, and  *)
(* once more at most for each crash; an approval leaves one grant.         *)
(* Approvals implements it.                                                *)
(***************************************************************************)
EXTENDS Naturals

CONSTANTS Questions, Proposals

VARIABLES
    given,    \* the answers operators gave to an approval, and in which process
    acted,    \* the answer the agent was returned for a question
    review,   \* the status of a proposal
    saves,    \* how often a proposal was written into the semantic memory
    grants,   \* grants an approval left behind
    crashes   \* crashes of either process

promised == <<given, acted, review, saves, grants, crashes>>

Ids   == Questions \cup Proposals
Given == [answer : {"approve", "apply", "reject"}, by : {"api", "cli"}]

Asked(a, answers) == \E g \in given[a] : g.answer \in answers

\* The command line kept out of this approval.
OneProcess(a) == \A g \in given[a] : g.by = "api"

Begin == /\ given = [a \in Ids |-> {}]
         /\ acted = [a \in Questions |-> "none"]
         /\ review = [a \in Proposals |-> "pending"]
         /\ saves = [a \in Proposals |-> 0]
         /\ grants = [a \in Ids |-> 0]
         /\ crashes = 0

Answer(a) == /\ \E g \in Given : given' = [given EXCEPT ![a] = @ \cup {g}]
             /\ UNCHANGED <<acted, review, saves, grants, crashes>>

Act(q) == /\ acted[q] = "none"
          /\ \E g \in given[q] : acted' = [acted EXCEPT ![q] = g.answer]
          /\ UNCHANGED <<given, review, saves, grants, crashes>>

Decide(a, verdict, answers) ==
    /\ Asked(a, answers)
    /\ OneProcess(a) => review[a] \in {"pending", verdict}
    /\ review' = [review EXCEPT ![a] = verdict]
    /\ UNCHANGED <<given, acted, saves, grants, crashes>>

Approve(a) == Decide(a, "approved", {"approve", "apply"})
Reject(a)  == Decide(a, "rejected", {"reject"})

Write(a) == /\ Asked(a, {"apply"})
            /\ OneProcess(a) => review[a] = "approved" /\ saves[a] <= crashes
            /\ saves' = [saves EXCEPT ![a] = @ + 1]
            /\ UNCHANGED <<given, acted, review, grants, crashes>>

Apply(a) == /\ Asked(a, {"apply"})
            /\ saves[a] > 0
            /\ OneProcess(a) => review[a] = "approved"
            /\ review' = [review EXCEPT ![a] = "applied"]
            /\ UNCHANGED <<given, acted, saves, grants, crashes>>

\* Only the event loop grants, and only what an operator allowed there.
Grant(a) == /\ grants[a] = 0
            /\ \E g \in given[a] : g.by = "api" /\ g.answer # "reject"
            /\ grants' = [grants EXCEPT ![a] = 1]
            /\ UNCHANGED <<given, acted, review, saves, crashes>>

Crash == crashes' = crashes + 1 /\ UNCHANGED <<given, acted, review, saves, grants>>

Move == \/ \E a \in Ids : Answer(a) \/ Grant(a)
        \/ \E q \in Questions : Act(q)
        \/ \E a \in Proposals : Approve(a) \/ Reject(a) \/ Write(a) \/ Apply(a)
        \/ Crash

Promise == Begin /\ [][Move]_promised

-----------------------------------------------------------------------------
(* What the promise is worth *)

\* Whatever stands was asked for: the agent's answer, the status of a proposal, its
\* place in the semantic memory, a grant.
AllAsked ==
    /\ \A q \in Questions : acted[q] # "none" => Asked(q, {acted[q]})
    /\ \A a \in Proposals :
          /\ review[a] = "approved" => Asked(a, {"approve", "apply"})
          /\ review[a] = "rejected" => Asked(a, {"reject"})
          /\ saves[a] > 0 => Asked(a, {"apply"})
    /\ \A a \in Ids : grants[a] > 0 => \E g \in given[a] : g.answer # "reject"

\* Nothing is done too often: one grant, no applied proposal that was not written, and
\* while the command line keeps out one write and one more for each crash, none of a
\* rejected proposal.
InMeasure ==
    /\ \A a \in Ids : grants[a] <= 1
    /\ \A a \in Proposals :
          /\ review[a] = "applied" => saves[a] > 0
          /\ OneProcess(a) => /\ saves[a] <= crashes + 1
                              /\ saves[a] > 0 => review[a] \in {"approved", "applied"}

\* The agent is answered once, and while the command line keeps out a decision is only
\* ever carried out, never reversed.
DecisionsStand ==
    [][/\ \A q \in Questions : acted[q] # "none" => acted'[q] = acted[q]
       /\ \A a \in Proposals : OneProcess(a) =>
             /\ review[a] \in {"rejected", "applied"} => review'[a] = review[a]
             /\ review[a] = "approved" => review'[a] \in {"approved", "applied"}]_promised
=============================================================================
