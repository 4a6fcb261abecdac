--------------------------- MODULE MCRunLifecycle ---------------------------
(* Instances of RunLifecycle for TLC: who may start runs in which session. *)
EXTENDS RunLifecycle, TLC

CONSTANTS c1, c2, s1, s2

\* Two connections and the coordinator, all in every session.
Everywhere == [a \in Actors |-> Sessions]

\* Each session has one caller: c1 in s1, the coordinator in s2, c2 only aborts.
Apart == [a \in Actors |-> CASE a = c1 -> {s1} [] a = Daemon -> {s2} [] OTHER -> {}]

\* Only the coordinator starts runs.
DaemonOnly == [a \in Actors |-> IF a = Daemon THEN Sessions ELSE {}]

\* Only connections start runs.
ClientsOnly == [a \in Actors |-> IF a = Daemon THEN {} ELSE Sessions]

\* Connections are interchangeable where they reach the same sessions.
ClientSymmetry == Permutations(Clients)

=============================================================================
