----------------------------- MODULE MCAutonomy -----------------------------
(***************************************************************************)
(* A governance order, an order of the operator with a cron expression,    *)
(* one with a file trigger, and a recurring goal, in one session.  The     *)
(* governance order was created by the first start of the daemon, after    *)
(* the operator's first.                                                   *)
(***************************************************************************)
EXTENDS Autonomy

CONSTANTS sweep, first, second, goal, s1

Ages == [o \in Orders |-> CASE o = first -> 1 [] o = sweep -> 2 [] OTHER -> 3]
SessionsOf == [j \in Orders \cup Goals |-> s1]
=============================================================================
