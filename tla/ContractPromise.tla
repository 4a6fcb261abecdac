-------------------------- MODULE ContractPromise --------------------------
(***************************************************************************)
(* What a task contract promises its readers, whoever edits it: an edit    *)
(* raises the version by one, the status moves along one edge of the       *)
(* transition table or stays, and no verdict of the automatic verifier     *)
(* that was recorded is lost.  The promise ends with the first overlap:    *)
(* a save that is written between the check and the write of another.      *)
(***************************************************************************)
EXTENDS Naturals

CONSTANT Runs

VARIABLES status, version, autoRuns, overlap

promised == <<status, version, autoRuns, overlap>>

\* The transition table; "none" stands for a contract that is not created.
Edges == [none        |-> {"draft"},
          draft       |-> {"agreed", "abandoned"},
          agreed      |-> {"in_progress", "abandoned"},
          in_progress |-> {"in_progress", "review"},
          review      |-> {"in_progress", "closed", "abandoned"},
          closed      |-> {},
          abandoned   |-> {}]

Begin == /\ status = "none"
         /\ version = 0
         /\ autoRuns = {}
         /\ ~overlap

Edit == /\ ~overlap'
        /\ version' = version + 1
        /\ \/ status' = status
           \/ status' \in Edges[status]
        /\ autoRuns \subseteq autoRuns' /\ autoRuns' \subseteq Runs

\* From the first overlap on nothing is promised.
Overlap == overlap'

Promise == Begin /\ [][Edit \/ Overlap]_promised
=============================================================================
