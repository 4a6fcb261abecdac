-------------------------- MODULE SessionRunsProofs --------------------------
(* What follows from SessionRuns alone, for whoever counts runs by it. *)
EXTENDS SessionRuns, FiniteSetTheorems, TLAPS

(* The number of sessions at work, after each kind of change. *)
LEMMA LiveCount ==
    ASSUME IsFiniteSet(live)
    PROVE  /\ Cardinality(live) \in Nat
           /\ \A s : s \notin live => /\ IsFiniteSet(live \cup {s})
                                      /\ Cardinality(live \cup {s}) = Cardinality(live) + 1
           /\ \A s : s \in live => /\ IsFiniteSet(live \ {s})
                                   /\ Cardinality(live \ {s}) = Cardinality(live) - 1
                                   /\ Cardinality(live) >= 1
           /\ IsFiniteSet({}) /\ Cardinality({}) = 0
<1>1. Cardinality(live) \in Nat /\ IsFiniteSet({}) /\ Cardinality({}) = 0
    BY FS_CardinalityType, FS_EmptySet
<1>2. ASSUME NEW s, s \notin live
      PROVE  IsFiniteSet(live \cup {s}) /\ Cardinality(live \cup {s}) = Cardinality(live) + 1
    BY <1>2, FS_AddElement
<1>3. ASSUME NEW s, s \in live
      PROVE  /\ IsFiniteSet(live \ {s}) /\ Cardinality(live \ {s}) = Cardinality(live) - 1
             /\ Cardinality(live) >= 1
  <2>1. IsFiniteSet(live \ {s}) /\ Cardinality(live \ {s}) = Cardinality(live) - 1
      BY <1>3, FS_RemoveElement
  <2>2. Cardinality(live \ {s}) \in Nat
      BY <2>1, FS_CardinalityType
  <2> QED BY <1>1, <2>1, <2>2
<1> QED BY <1>1, <1>2, <1>3

(* Nothing is counted any more. *)
AllGone == running = {} /\ live = {} /\ active = 0

LEMMA ChangeKeepsCount ==
    ASSUME CountsTheLive, [Change]_counted
    PROVE  CountsTheLive' /\ (Stranded' >= Stranded \/ AllGone')
<1> USE DEF CountsTheLive, Stranded
<1> DEFINE Kept == CountsTheLive' /\ Stranded' >= Stranded
<1>0. Cardinality(live) \in Nat
    BY LiveCount
<1>1. ASSUME NEW s \in Sessions, Begins(s) PROVE Kept
  <2>1. IsFiniteSet(live') /\ Cardinality(live') = Cardinality(live) + 1
      BY <1>1, LiveCount DEF Begins
  <2> QED BY <1>0, <1>1, <2>1 DEF Begins
<1>2. ASSUME NEW s \in Sessions, Ends(s) PROVE Kept
  <2>1. /\ IsFiniteSet(live') /\ Cardinality(live') = Cardinality(live) - 1
        /\ Cardinality(live) >= 1
      BY <1>2, LiveCount DEF Ends
  <2> QED BY <1>0, <1>2, <2>1 DEF Ends
<1>3. ASSUME NEW s \in Sessions, Strands(s) PROVE Kept
  <2>1. /\ IsFiniteSet(live') /\ Cardinality(live') = Cardinality(live) - 1
        /\ Cardinality(live) >= 1
      BY <1>3, LiveCount DEF Strands
  <2> QED BY <1>0, <1>3, <2>1 DEF Strands
<1>4. ASSUME NEW s \in Sessions, DiesBeginning(s) PROVE Kept
  <2>1. IsFiniteSet(live') /\ Cardinality(live') = 0
      BY <1>4, LiveCount DEF DiesBeginning
  <2> QED BY <1>0, <1>4, <2>1 DEF DiesBeginning
<1>5. ASSUME NEW s \in Sessions, BeginsStranded(s) PROVE Kept
    BY <1>0, <1>5 DEF BeginsStranded
<1>6. CASE Dies
  <2>1. IsFiniteSet(live') /\ Cardinality(live') = 0
      BY <1>6, LiveCount DEF Dies
  <2>2. CASE UNCHANGED <<running, active>>
      BY <1>0, <1>6, <2>1, <2>2 DEF Dies
  <2>3. CASE running' = {} /\ active' = 0
      BY <1>6, <2>1, <2>3 DEF Dies, AllGone
  <2> QED BY <1>6, <2>2, <2>3 DEF Dies
<1>7. CASE UNCHANGED counted
    BY <1>0, <1>7 DEF counted
<1> QED BY <1>1, <1>2, <1>3, <1>4, <1>5, <1>6, <1>7 DEF Change

(* The two guards of the coordinator see every run at work: it is counted against the     *)
(* capacity, and its session is seen to be running.                                       *)
THEOREM LiveIsCounted == Counting => []CountsTheLive
<1>1. Begin => CountsTheLive
    BY FS_EmptySet DEF Begin, CountsTheLive
<1> QED BY <1>1, ChangeKeepsCount, PTL DEF Counting

(* A record that was left running takes its place in the capacity until a crash tears the *)
(* file of the registry and with it every record (nothing reconciles RunRegistry after a  *)
(* restart, _has_dispatch_capacity counts every record).                                  *)
THEOREM CapacityIsLost == Counting => NeverGivenBack
<1>1. CountsTheLive /\ [Change]_counted =>
          [Stranded' >= Stranded \/ (running' = {} /\ live' = {} /\ active' = 0)]_counted
    BY ChangeKeepsCount DEF AllGone
<1> QED BY <1>1, LiveIsCounted, PTL DEF Counting, NeverGivenBack
=============================================================================
