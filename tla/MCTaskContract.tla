--------------------------- MODULE MCTaskContract ---------------------------
(***************************************************************************)
(* Instances of TaskContract.  Shape is the VIEW of the run that passes:   *)
(* it forgets what no step can tell.  Versions are only compared, so that  *)
(* their distance to the stored one is enough, and a copy that is behind   *)
(* ends in a conflict whatever it holds, unless it has passed the check or *)
(* an older save is still to be written: but for the pack a dispatch still *)
(* reads.  Of a pack that was replaced and that no copy holds, nothing is  *)
(* read again, and a key in doubt may have been sent any number of times.  *)
(***************************************************************************)
EXTENDS TaskContract

AllPairs == Slots \X Channels

\* A pack that went out elsewhere and was never rendered here.
Elsewhere == {[NoPack EXCEPT !.artifacts = Slots, !.delivered = Slots, !.status = "dispatched"]}

Base(r) == CASE r.pc = "viewed" -> r.expected
             [] r.pc \in {"saving", "writing"} -> r.b.version - 1
             [] OTHER -> r.b.version
Holds(r) == r.pc \in {"viewed", "rendering", "dispatching", "sending", "saving", "writing"}
Live(c) ==
  Holds(cl[c]) /\ \/ cl[c].pc = "writing" \/ Base(cl[c]) >= stored.version
                  \/ \E d \in Others(c) : cl[d].b.version <= Base(cl[c])
Sends(r) == r.pc \in {"dispatching", "sending"}

\* What another step can tell of a client.
Seen(c) ==
  LET r == [cl[c] EXCEPT !.b.version = 0, !.expected = 0, !.approved = @ /\ ManualSlots # {}]
  IN  CASE Live(c) -> <<r, Base(cl[c]) - stored.version>>
        [] ~Live(c) /\ Sends(r) ->
             <<r.pc, r.todo, r.key, r.b.pack.id, r.b.pack.rendered, r.approved>>
        [] ~Live(c) /\ Holds(r) /\ ~Sends(r) -> <<"conflict">>
        [] OTHER -> <<r.pc, r.run>>

Shape ==
  LET packs == {stored.pack.id} \cup {cl[c].b.pack.id : c \in {d \in Clients : Live(d) \/ Sends(cl[d])}}
  IN  <<[stored EXCEPT !.version = 0], [c \in Clients |-> Seen(c)], nextPack,
        {k \in logged : k[1] \in packs}, {k \in doubt : k[1] \in packs},
        {k \in Keys \ doubt : k[1] \in packs /\ sent[k] = 1},
        recorded \cap packs, {x \in renderings : x[1] \in packs},
        {closedPack} \cap packs, overlaps>>
=============================================================================
