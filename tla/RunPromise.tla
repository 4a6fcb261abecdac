----------------------------- MODULE RunPromise -----------------------------
(***************************************************************************)
(* What a run promises those who watch it from outside, whoever starts,    *)
(* aborts or outlives it: the run registry, the task ledger, the bill and  *)
(* the last closing frame tell one story.  A success may still be          *)
(* overturned: into a failure, and billed once more for it, only as long   *)
(* as the client was told nothing; into a cancellation only while the      *)
(* client is being told.  After that the record and the bill stand, unless *)
(* a crash takes the whole file.                                           *)
(* RunLifecycle implements it.                                             *)
(***************************************************************************)
EXTENDS Naturals

CONSTANT Runs

VARIABLES
    record,   \* what the run registry answers of each run
    verdict,  \* what the task ledger answers
    bills,    \* how often the run was billed
    closing   \* the last closing frame that went out to the client

promised == <<record, verdict, bills, closing>>

\* The frame that tells the client how its run ended.
FrameOf == [succeeded |-> "done", failed |-> "error", cancelled |-> "aborted"]

\* What the ledger may say of a run whose record says this: the coroutine of a failed
\* run returns, one that was cancelled before its first step leaves a running record,
\* and a store that raises late fails the task of any run.
Outcomes == [running   |-> {"cancelled", "failed"},
             succeeded |-> {"succeeded", "failed"},
             failed    |-> {"succeeded", "cancelled", "failed"},
             cancelled |-> {"cancelled", "failed"}]

Nothing == [r \in Runs |-> "absent"]

Begin == /\ record = Nothing
         /\ verdict = Nothing
         /\ bills = [r \in Runs |-> 0]
         /\ closing = [r \in Runs |-> "none"]

Open(r) == /\ record[r] = "absent" /\ verdict[r] = "absent"
           /\ bills[r] = 0 /\ closing[r] = "none"
           /\ record' = [record EXCEPT ![r] = "running"]
           /\ UNCHANGED <<verdict, bills, closing>>

Register(r) == /\ record[r] = "running" /\ verdict[r] = "absent"
               /\ verdict' = [verdict EXCEPT ![r] = "running"]
               /\ UNCHANGED <<record, bills, closing>>

\* The run has a task and its client was told nothing yet.
Undecided(r) == verdict[r] = "running" /\ closing[r] = "none"

Succeed(r) == /\ Undecided(r) /\ record[r] = "running" /\ bills[r] = 0
              /\ record' = [record EXCEPT ![r] = "succeeded"]
              /\ UNCHANGED <<verdict, bills, closing>>

\* A success is billed, and the client may hear of it at once; a failure to come is
\* billed, after a billed success for the second time.
Bill(r) == /\ Undecided(r)
           /\ \/ record[r] = "running" /\ bills[r] = 0
              \/ record[r] = "succeeded" /\ bills[r] \in {0, 1}
           /\ bills' = [bills EXCEPT ![r] = @ + 1]
           /\ \/ UNCHANGED closing
              \/ /\ record[r] = "succeeded" /\ bills[r] = 0
                 /\ closing' = [closing EXCEPT ![r] = FrameOf.succeeded]
           /\ UNCHANGED <<record, verdict>>

Fail(r) == /\ Undecided(r) /\ record[r] \in {"running", "succeeded"} /\ bills[r] > 0
           /\ record' = [record EXCEPT ![r] = "failed"]
           /\ \/ UNCHANGED closing
              \/ closing' = [closing EXCEPT ![r] = FrameOf.failed]
           /\ UNCHANGED <<verdict, bills>>

\* A cancellation, which may still catch a success that the client is being told of.
Withdraw(r) == /\ verdict[r] = "running"
               /\ \/ record[r] = "running" /\ closing[r] = "none" /\ bills[r] = 0
                  \/ record[r] = "succeeded" /\ closing[r] = FrameOf.succeeded
               /\ record' = [record EXCEPT ![r] = "cancelled"]
               /\ \/ UNCHANGED closing
                  \/ closing' = [closing EXCEPT ![r] = FrameOf.cancelled]
               /\ UNCHANGED <<verdict, bills>>

Conclude(r) == /\ verdict[r] = "running" /\ record[r] \in DOMAIN Outcomes
               /\ \E v \in Outcomes[record[r]] :
                     /\ bills[r] = 2 => record[r] = "failed" \/ v = "failed"
                     /\ verdict' = [verdict EXCEPT ![r] = v]
               /\ UNCHANGED <<record, bills, closing>>

\* A crash may take the file of the registry, of the ledger, or both.
Lose == /\ record' \in {record, Nothing}
        /\ verdict' \in {verdict, Nothing}
        /\ UNCHANGED <<bills, closing>>

Move == \/ \E r \in Runs :
              \/ Open(r) \/ Register(r) \/ Succeed(r) \/ Bill(r)
              \/ Fail(r) \/ Withdraw(r) \/ Conclude(r)
        \/ Lose

Promise == Begin /\ [][Move]_promised

-----------------------------------------------------------------------------
(* What the promise is worth *)

\* Of a run whose record survived: an error or an abort that the client was told is what
\* the record says, a success it was told of is one or was withdrawn by a cancellation;
\* the ledger's verdict fits the record, and a success that the client and the ledger
\* agree on is one.  Of any run: it is billed twice only when it goes from success to
\* failure, of which the client is told nothing else, and a success told is billed once.
OneStory ==
    \A r \in Runs :
        /\ record[r] # "absent" =>
              /\ closing[r] \in {"error", "aborted"} => closing[r] = FrameOf[record[r]]
              /\ closing[r] = "done" => record[r] \in {"succeeded", "cancelled"}
              /\ verdict[r] \notin {"absent", "running"} => verdict[r] \in Outcomes[record[r]]
              /\ closing[r] = "done" /\ verdict[r] = "succeeded" => record[r] = "succeeded"
              /\ bills[r] = 2 /\ verdict[r] = "succeeded" => record[r] = "failed"
        /\ bills[r] <= 2
        /\ bills[r] = 2 => closing[r] \in {"none", "error"}
        /\ closing[r] = "done" => bills[r] = 1

\* What an outsider was told stands: after the closing frame or the verdict the bill
\* never moves, nor the frame, and the record only with the whole file; all that may
\* happen before the verdict is that a cancellation withdraws the success being told.
TheWordStands ==
    [][\A r \in Runs :
          closing[r] # "none" \/ verdict[r] \notin {"absent", "running"} =>
              /\ bills'[r] = bills[r]
              /\ \/ /\ record'[r] = record[r] \/ record' = Nothing
                    /\ closing'[r] = closing[r]
                 \/ /\ closing[r] = "done" /\ verdict[r] = "running"
                    /\ record[r] = "succeeded" /\ record'[r] = "cancelled"
                    /\ closing'[r] \in {"done", "aborted"}]_promised
=============================================================================
