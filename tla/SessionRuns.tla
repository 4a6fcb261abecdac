----------------------------- MODULE SessionRuns -----------------------------
(***************************************************************************)
(* The run records as the autonomous coordinator counts them: which        *)
(* sessions have a run at work, which sessions' newest record says         *)
(* running, and how many records say so.  A run that ends by one of its    *)
(* own marks corrects its record; one that is cancelled before its first   *)
(* step, fails over a store or dies with the process does not, and nothing *)
(* ever corrects it afterwards, unless a crash tears the file: then every  *)
(* record is gone.                                                         *)
(*                                                                         *)
(* This is where two modules meet.  RunLifecycle, where each session has   *)
(* one caller and cancelled runs end in time, implements it; Autonomy,     *)
(* which decides by these three numbers, uses runs in no other way.        *)
(***************************************************************************)
EXTENDS Naturals, FiniteSets

CONSTANT Sessions

VARIABLES
    running,  \* sessions whose newest run record says running
    live,     \* sessions with a running run that has a task, or is about to get it
    active    \* number of run records that say running

counted == <<running, live, active>>

Begin == /\ running = {}
         /\ live = {}
         /\ active = 0

Begins(s) == /\ s \notin live
             /\ running' = running \cup {s}
             /\ live' = live \cup {s}
             /\ active' = active + 1

Ends(s) == /\ s \in live
           /\ running' = running \ {s}
           /\ live' = live \ {s}
           /\ active' = active - 1

\* The task is gone, the record still says running.
Strands(s) == /\ s \in live
              /\ live' = live \ {s}
              /\ UNCHANGED <<running, active>>

\* The record of a run is written, and it never gets a task.
BeginsStranded(s) == /\ running' = running \cup {s}
                     /\ active' = active + 1
                     /\ UNCHANGED live

\* The process dies, and with it every run at work; the file may be torn.
Dies == /\ live' = {}
        /\ UNCHANGED <<running, active>> \/ (running' = {} /\ active' = 0)

\* It dies right after it wrote the record of a run of session s.  Where it dies in that
\* write, no record is left: Dies.
DiesBeginning(s) == /\ s \notin live
                    /\ running' = running \cup {s}
                    /\ live' = {}
                    /\ active' = active + 1

Change == \/ \E s \in Sessions : \/ Begins(s) \/ Ends(s) \/ Strands(s)
                                 \/ BeginsStranded(s) \/ DiesBeginning(s)
          \/ Dies

Counting == Begin /\ [][Change]_counted

-----------------------------------------------------------------------------
(* What follows for whoever counts *)

\* Records that say running without a run at work.
Stranded == active - Cardinality(live)

\* A session with a run at work is seen to have one, and no run at work is missed in
\* the count.
CountsTheLive ==
    /\ live \subseteq running
    /\ IsFiniteSet(live)
    /\ active \in Nat
    /\ Cardinality(live) <= active

\* Capacity that a stranded record takes is never given back, except all of it at once
\* by a crash that tears the file.
NeverGivenBack ==
    [][Stranded' >= Stranded \/ (running' = {} /\ live' = {} /\ active' = 0)]_counted
=============================================================================
