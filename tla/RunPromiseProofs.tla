-------------------------- MODULE RunPromiseProofs --------------------------
(* What follows from RunPromise alone, whatever implements it. *)
EXTENDS RunPromise, TLAPS

Records  == {"absent", "running", "succeeded", "failed", "cancelled"}
Verdicts == {"absent", "running", "succeeded", "failed", "cancelled"}
Frames   == {"none", "done", "error", "aborted"}

PromiseType ==
    /\ record \in [Runs -> Records]
    /\ verdict \in [Runs -> Verdicts]
    /\ bills \in [Runs -> Nat]
    /\ closing \in [Runs -> Frames]

\* What was billed and said by the time the record says this.
InOrder(r) ==
    /\ record[r] = "running" => bills[r] <= 1 /\ closing[r] = "none"
    /\ record[r] = "succeeded" => closing[r] \in {"none", "done"}
    /\ record[r] = "cancelled" => bills[r] <= 1 /\ closing[r] \in {"none", "done", "aborted"}
    /\ record[r] = "failed" => closing[r] \in {"none", "error"}

\* What OneStory says of one run.
Story(r) ==
    /\ record[r] # "absent" =>
          /\ closing[r] \in {"error", "aborted"} => closing[r] = FrameOf[record[r]]
          /\ closing[r] = "done" => record[r] \in {"succeeded", "cancelled"}
          /\ verdict[r] \notin {"absent", "running"} => verdict[r] \in Outcomes[record[r]]
          /\ closing[r] = "done" /\ verdict[r] = "succeeded" => record[r] = "succeeded"
          /\ bills[r] = 2 /\ verdict[r] = "succeeded" => record[r] = "failed"
    /\ bills[r] <= 2
    /\ bills[r] = 2 => closing[r] \in {"none", "error"}
    /\ closing[r] = "done" => bills[r] = 1

PromiseInv == PromiseType /\ \A r \in Runs : InOrder(r) /\ Story(r)

\* A move of run r; Lose is no run's.
MoveOf(r) == \/ Open(r) \/ Register(r) \/ Succeed(r) \/ Bill(r)
             \/ Fail(r) \/ Withdraw(r) \/ Conclude(r)

LEMMA BeginInv ==
    ASSUME Begin
    PROVE  PromiseInv
BY DEF Begin, Nothing, PromiseInv, PromiseType, InOrder, Story, Records, Verdicts, Frames

(* A move of one run leaves the others alone. *)
LEMMA MoveType ==
    ASSUME PromiseInv, NEW r \in Runs, MoveOf(r)
    PROVE  /\ PromiseType'
           /\ \A q \in Runs : q # r => /\ record'[q] = record[q] /\ verdict'[q] = verdict[q]
                                       /\ bills'[q] = bills[q] /\ closing'[q] = closing[q]
<1> USE DEF PromiseInv, PromiseType, Records, Verdicts, Frames, FrameOf
<1>1. CASE Open(r) \/ Register(r) \/ Succeed(r)
    BY <1>1 DEF Open, Register, Succeed
<1>2. CASE Bill(r)
    BY <1>2 DEF Bill
<1>3. CASE Fail(r)
    BY <1>3 DEF Fail
<1>4. CASE Withdraw(r)
    BY <1>4 DEF Withdraw
<1>5. CASE Conclude(r)
  <2>1. \A v \in Outcomes[record[r]] : v \in Verdicts
      BY <1>5 DEF Conclude, Outcomes
  <2> QED BY <1>5, <2>1 DEF Conclude
<1> QED BY <1>1, <1>2, <1>3, <1>4, <1>5 DEF MoveOf

LEMMA MoveInv ==
    ASSUME PromiseInv, NEW r \in Runs, MoveOf(r)
    PROVE  PromiseInv'
<1> USE DEF PromiseInv, PromiseType
<1>1. PromiseType'
    BY MoveType
<1>2. ASSUME NEW q \in Runs, q # r PROVE InOrder(q)' /\ Story(q)'
    BY <1>2, MoveType DEF InOrder, Story
<1>3. InOrder(r)' /\ Story(r)'
  <2> USE DEF InOrder, Story, FrameOf
  <2>1. CASE Open(r)
      BY <2>1 DEF Open
  <2>2. CASE Register(r)
      BY <2>2 DEF Register
  <2>3. CASE Succeed(r)
      BY <2>3 DEF Succeed, Undecided
  <2>4. CASE Bill(r)
      BY <2>4 DEF Bill, Undecided
  <2>5. CASE Fail(r)
      BY <2>5 DEF Fail, Undecided
  <2>6. CASE Withdraw(r)
      BY <2>6 DEF Withdraw
  <2>7. CASE Conclude(r)
    <3>1. PICK v \in Outcomes[record[r]] :
             /\ bills[r] = 2 => record[r] = "failed" \/ v = "failed"
             /\ verdict' = [verdict EXCEPT ![r] = v]
        BY <2>7 DEF Conclude
    <3>2. /\ record[r] \in {"running", "succeeded", "failed", "cancelled"}
          /\ verdict'[r] = v /\ UNCHANGED <<record, bills, closing>>
        BY <2>7, <3>1 DEF Conclude, Outcomes
    <3>3. v = "succeeded" => record[r] \in {"succeeded", "failed"}
        BY <3>1, <3>2 DEF Outcomes
    <3> QED BY <3>1, <3>2, <3>3
  <2> QED BY <2>1, <2>2, <2>3, <2>4, <2>5, <2>6, <2>7 DEF MoveOf
<1> QED BY <1>1, <1>2, <1>3

(* A crash that loses a file leaves less to be consistent with. *)
LEMMA LoseInv ==
    ASSUME PromiseInv, Lose
    PROVE  PromiseInv'
<1> USE DEF PromiseInv, PromiseType, Lose, Nothing
<1>1. PromiseType'
    BY DEF Records, Verdicts
<1>2. ASSUME NEW r \in Runs PROVE InOrder(r)' /\ Story(r)'
  <2>1. /\ record'[r] \in {record[r], "absent"} /\ verdict'[r] \in {verdict[r], "absent"}
        /\ UNCHANGED <<bills, closing>>
      OBVIOUS
  <2> QED BY <2>1 DEF InOrder, Story
<1> QED BY <1>1, <1>2

(* The strengthening holds as long as the promise is kept. *)
THEOREM PromiseInvariant == Promise => []PromiseInv
<1>1. Begin => PromiseInv
    BY BeginInv
<1>2. PromiseInv /\ [Move]_promised => PromiseInv'
  <2>1. ASSUME PromiseInv, UNCHANGED promised PROVE PromiseInv'
      BY <2>1 DEF PromiseInv, PromiseType, InOrder, Story, promised
  <2> QED BY <2>1, MoveInv, LoseInv DEF Move, MoveOf
<1> QED BY <1>1, <1>2, PTL DEF Promise

(* The registry, the ledger, the bill and the closing frame tell one story: whoever keeps *)
(* the promise never sends a frame, or writes a verdict, that the run record contradicts, *)
(* but for a success that is withdrawn while the client is told of it.                    *)
THEOREM PromiseTellsOneStory == Promise => []OneStory
<1>1. ASSUME PromiseInv PROVE OneStory
  <2>1. ASSUME NEW r \in Runs PROVE Story(r)
      BY <1>1 DEF PromiseInv
  <2> QED BY ONLY <2>1, Zenon DEF Story, OneStory
<1> QED BY <1>1, PromiseInvariant, PTL

(* What an outsider was told of a run stands (mark_succeeded, mark_failed and             *)
(* mark_cancelled test no status: that nothing calls them any more is what keeps this).   *)
THEOREM PromiseStands == Promise => TheWordStands
<1> DEFINE Stands(r) ==
          closing[r] # "none" \/ verdict[r] \notin {"absent", "running"} =>
              /\ bills'[r] = bills[r]
              /\ \/ /\ record'[r] = record[r] \/ record' = Nothing
                    /\ closing'[r] = closing[r]
                 \/ /\ closing[r] = "done" /\ verdict[r] = "running"
                    /\ record[r] = "succeeded" /\ record'[r] = "cancelled"
                    /\ closing'[r] \in {"done", "aborted"}
<1>1. ASSUME PromiseInv, [Move]_promised PROVE [\A r \in Runs : Stands(r)]_promised
  <2> SUFFICES ASSUME Move, NEW r \in Runs PROVE Stands(r)
      BY <1>1
  <2>1. CASE Lose
      BY <2>1 DEF Lose
  <2>2. ASSUME NEW q \in Runs, MoveOf(q), q # r PROVE Stands(r)
      BY <1>1, <2>2, MoveType
  <2>3. ASSUME MoveOf(r) PROVE Stands(r)
    <3> USE DEF PromiseInv, PromiseType, InOrder
    <3>1. CASE Open(r) \/ Register(r) \/ Conclude(r)
        BY <1>1, <3>1 DEF Open, Register, Conclude
    <3>2. CASE Succeed(r) \/ Bill(r) \/ Fail(r)
        BY <1>1, <3>2 DEF Succeed, Bill, Fail, Undecided
    <3>3. CASE Withdraw(r)
        BY <1>1, <3>3 DEF Withdraw, FrameOf
    <3> QED BY <2>3, <3>1, <3>2, <3>3 DEF MoveOf
  <2> QED BY <2>1, <2>2, <2>3 DEF Move, MoveOf
<1> QED BY <1>1, PromiseInvariant, PTL DEF Promise, TheWordStands
=============================================================================
