--------------------------- MODULE AutonomyProofs ---------------------------
(***************************************************************************)
(* Proofs about the autonomous daemon, for every set of orders, goals and  *)
(* sessions and every limit of the policy.                                 *)
(***************************************************************************)
EXTENDS Autonomy, FiniteSetTheorems, TLAPS

-----------------------------------------------------------------------------
(* The inductive invariant.                                                *)

\* What policy.json calls due has a slot that nothing served, or is in doubt.
PendingIsDue == pending \subseteq due \cup doubt

\* So has the job the coordinator is starting a run for.
StartingIsDue == coord.step = "starting" /\ coord.job \in Timed => coord.job \in due \cup doubt

\* Only ticks carry slots.
SlotsInTicks == \A i \in DOMAIN queue : queue[i].kind # "tick" => queue[i].slots = {}

\* A governance order that no tick slipped past is not due by any tick in the queue.
SweptBeforeTicks ==
  Ticks # {} => Governance \cap enabled \cap (pending \cup Queued) \subseteq slipped

\* There is room in the window for the run the coordinator is starting.
StartingHasRoom == coord.step = "starting" /\ coord.kind # "resume" => Len(window) < MaxDispatches

\* The last resource event in the queue says what the sensor saw last.
LastIsSensed ==
  \A i \in DOMAIN queue :
    queue[i].kind \in Resource /\ (\A k \in DOMAIN queue : k > i => queue[k].kind \notin Resource)
      => (queue[i].kind = "pressure") = sensed

Inv ==
  /\ TypeOK
  /\ SlotKept /\ PendingIsDue /\ StartingIsDue /\ SlotRunOnce
  /\ SlotsInTicks /\ SweptBeforeTicks
  /\ StartingHasRoom /\ Throttled
  /\ LastIsSensed /\ PressureFollows

-----------------------------------------------------------------------------
(* The queue.                                                              *)

Slots(q) == UNION {q[i].slots : i \in DOMAIN q}
Minus(q, S) == [i \in DOMAIN q |-> [q[i] EXCEPT !.slots = @ \ S]]
GoalAt(q, n, j) ==
  [k \in DOMAIN q |-> [q[k] EXCEPT !.slots = IF k = n THEN @ \cup {j} ELSE @ \ {j}]]

\* The queue without its head: an event less, in the same order.
LEMMA TailOfQueue ==
  ASSUME NEW q \in Seq(SensorEvent), q # <<>>
  PROVE  /\ Head(q) \in SensorEvent /\ Head(q) = q[1] /\ 1 \in DOMAIN q
         /\ Tail(q) \in Seq(SensorEvent) /\ Len(Tail(q)) = Len(q) - 1
         /\ DOMAIN Tail(q) = 1..(Len(q) - 1) /\ DOMAIN q = 1..Len(q)
         /\ \A i \in DOMAIN Tail(q) : i + 1 \in DOMAIN q /\ Tail(q)[i] = q[i + 1]
         /\ Slots(q) = Head(q).slots \cup Slots(Tail(q))
  <1>1. /\ Head(q) \in SensorEvent /\ Head(q) = q[1] /\ 1 \in DOMAIN q
        /\ Tail(q) \in Seq(SensorEvent) /\ Len(Tail(q)) = Len(q) - 1
        /\ DOMAIN Tail(q) = 1..(Len(q) - 1) /\ DOMAIN q = 1..Len(q)
        /\ \A i \in DOMAIN Tail(q) : i + 1 \in DOMAIN q /\ Tail(q)[i] = q[i + 1]
    OBVIOUS
  <1>2. ASSUME NEW x \in Slots(q) PROVE x \in Head(q).slots \cup Slots(Tail(q))
    <2>1. PICK i \in DOMAIN q : x \in q[i].slots
      BY <1>2 DEF Slots
    <2>2. CASE i = 1
      BY <1>1, <2>1, <2>2
    <2>3. CASE i # 1
      <3>1. i - 1 \in DOMAIN Tail(q) /\ Tail(q)[i - 1] = q[i]
        BY <1>1, <2>3
      <3> QED BY <2>1, <3>1 DEF Slots
    <2> QED BY <2>2, <2>3
  <1>3. ASSUME NEW x \in Slots(Tail(q)) PROVE x \in Slots(q)
    <2>1. PICK i \in DOMAIN Tail(q) : x \in Tail(q)[i].slots
      BY <1>3 DEF Slots
    <2> QED BY <1>1, <2>1 DEF Slots
  <1>4. Head(q).slots \subseteq Slots(q)
    BY <1>1 DEF Slots
  <1> QED BY <1>1, <1>2, <1>3, <1>4

\* The queue with one more event.
LEMMA AppendToQueue ==
  ASSUME NEW q \in Seq(SensorEvent), NEW e \in SensorEvent
  PROVE  /\ Append(q, e) \in Seq(SensorEvent) /\ Len(Append(q, e)) = Len(q) + 1
         /\ DOMAIN Append(q, e) = 1..(Len(q) + 1) /\ DOMAIN q = 1..Len(q)
         /\ \A i \in DOMAIN q : Append(q, e)[i] = q[i]
         /\ Append(q, e)[Len(q) + 1] = e
         /\ Slots(Append(q, e)) = Slots(q) \cup e.slots
  <1> DEFINE r == Append(q, e)
  <1>1. /\ r \in Seq(SensorEvent) /\ Len(r) = Len(q) + 1
        /\ DOMAIN r = 1..(Len(q) + 1) /\ DOMAIN q = 1..Len(q)
        /\ \A i \in DOMAIN q : r[i] = q[i]
        /\ r[Len(q) + 1] = e /\ Len(q) \in Nat
    OBVIOUS
  <1> HIDE DEF r
  <1>2. ASSUME NEW x \in Slots(r) PROVE x \in Slots(q) \cup e.slots
    <2>1. PICK i \in DOMAIN r : x \in r[i].slots
      BY <1>2 DEF Slots
    <2>2. i \in DOMAIN q \/ i = Len(q) + 1
      BY <1>1
    <2> QED BY <1>1, <2>1, <2>2 DEF Slots
  <1>3. ASSUME NEW x \in Slots(q) \cup e.slots PROVE x \in Slots(r)
    <2>1. CASE x \in e.slots
      <3>1. Len(q) + 1 \in DOMAIN r
        BY <1>1
      <3> QED BY <1>1, <2>1, <3>1 DEF Slots
    <2>2. CASE x \in Slots(q)
      <3>1. PICK i \in DOMAIN q : x \in q[i].slots
        BY <2>2 DEF Slots
      <3>2. i \in DOMAIN r /\ r[i] = q[i]
        BY <1>1
      <3> QED BY <3>1, <3>2 DEF Slots
    <2> QED BY <1>3, <2>1, <2>2
  <1>4. Slots(r) = Slots(q) \cup e.slots
    BY <1>2, <1>3
  <1> QED BY <1>1, <1>4 DEF r

\* The queue once jobs are marked: the same events, with fewer slots.
LEMMA MinusOfQueue ==
  ASSUME NEW q \in Seq(SensorEvent), NEW S
  PROVE  /\ Minus(q, S) \in Seq(SensorEvent) /\ Len(Minus(q, S)) = Len(q)
         /\ DOMAIN Minus(q, S) = DOMAIN q /\ DOMAIN q = 1..Len(q)
         /\ \A i \in DOMAIN q : /\ Minus(q, S)[i].kind = q[i].kind
                                /\ Minus(q, S)[i].slots = q[i].slots \ S
         /\ Slots(Minus(q, S)) = Slots(q) \ S
  <1> DEFINE r == Minus(q, S)
  <1>1. DOMAIN r = 1..Len(q) /\ DOMAIN q = 1..Len(q) /\ Len(q) \in Nat
    BY DEF Minus
  <1>2. ASSUME NEW i \in DOMAIN q
        PROVE  r[i] \in SensorEvent /\ r[i].kind = q[i].kind /\ r[i].slots = q[i].slots \ S
    <2>1. q[i] \in SensorEvent
      OBVIOUS
    <2>2. r[i] = [q[i] EXCEPT !.slots = @ \ S]
      BY DEF Minus
    <2> QED BY <2>1, <2>2 DEF SensorEvent
  <1>3. r \in Seq(SensorEvent)
    <2>1. r = [i \in 1..Len(q) |-> r[i]]
      BY <1>1 DEF Minus
    <2> HIDE DEF r
    <2> QED BY <1>1, <1>2, <2>1
  <1>4. Len(r) = Len(q)
    <2> HIDE DEF r
    <2> QED BY <1>1, <1>3
  <1>5. Slots(r) = Slots(q) \ S
    <2> HIDE DEF r
    <2>1. ASSUME NEW x \in Slots(r) PROVE x \in Slots(q) \ S
      BY <1>1, <1>2, <2>1 DEF Slots
    <2>2. ASSUME NEW x \in Slots(q) \ S PROVE x \in Slots(r)
      <3>1. PICK i \in DOMAIN q : x \in q[i].slots
        BY <2>2 DEF Slots
      <3>2. i \in DOMAIN r /\ x \in r[i].slots
        BY <1>1, <1>2, <2>2, <3>1
      <3> QED BY <3>2 DEF Slots
    <2> QED BY <2>1, <2>2
  <1> QED BY <1>1, <1>2, <1>3, <1>4, <1>5

\* The queue once a goal is marked: the same events, and only the goal's slots change.
LEMMA GoalInQueue ==
  ASSUME NEW q \in Seq(SensorEvent), NEW j \in Goals, NEW n \in Nat,
         n \in DOMAIN q => q[n].kind = "tick"
  PROVE  /\ GoalAt(q, n, j) \in Seq(SensorEvent) /\ Len(GoalAt(q, n, j)) = Len(q)
         /\ DOMAIN GoalAt(q, n, j) = DOMAIN q
         /\ \A i \in DOMAIN q :
              /\ GoalAt(q, n, j)[i].kind = q[i].kind
              /\ q[i].kind # "tick" => GoalAt(q, n, j)[i].slots \subseteq q[i].slots
         /\ Slots(GoalAt(q, n, j)) \subseteq Slots(q) \cup {j}
  <1> DEFINE r == GoalAt(q, n, j)
  <1>1. DOMAIN r = 1..Len(q) /\ DOMAIN q = 1..Len(q) /\ Len(q) \in Nat
    BY DEF GoalAt
  <1>2. ASSUME NEW i \in DOMAIN q
        PROVE  /\ r[i] \in SensorEvent /\ r[i].kind = q[i].kind
               /\ r[i].slots = IF i = n THEN q[i].slots \cup {j} ELSE q[i].slots \ {j}
    <2>1. q[i] \in SensorEvent
      OBVIOUS
    <2>2. r[i] = [q[i] EXCEPT !.slots = IF i = n THEN @ \cup {j} ELSE @ \ {j}]
      BY DEF GoalAt
    <2>3. j \in Timed
      BY DEF Timed
    <2> DEFINE S == IF i = n THEN q[i].slots \cup {j} ELSE q[i].slots \ {j}
    <2>4. S \subseteq Timed
      BY <2>1, <2>3 DEF SensorEvent
    <2>5. r[i] = [q[i] EXCEPT !.slots = S]
      BY <2>2
    <2> HIDE DEF S, r
    <2>6. r[i] \in SensorEvent /\ r[i].kind = q[i].kind /\ r[i].slots = S
      BY <2>1, <2>4, <2>5 DEF SensorEvent
    <2> QED BY <2>6 DEF S
  <1>3. r \in Seq(SensorEvent)
    <2>1. r = [i \in 1..Len(q) |-> r[i]]
      BY <1>1 DEF GoalAt
    <2>2. \A i \in 1..Len(q) : r[i] \in SensorEvent
      BY <1>1, <1>2
    <2> HIDE DEF r
    <2> QED BY <1>1, <2>1, <2>2
  <1>4. Len(r) = Len(q)
    <2> HIDE DEF r
    <2> QED BY <1>1, <1>3
  <1>5. Slots(r) \subseteq Slots(q) \cup {j}
    <2>1. \A i \in DOMAIN q : r[i].slots \subseteq q[i].slots \cup {j}
      BY <1>2
    <2> HIDE DEF r
    <2> QED BY <1>1, <2>1 DEF Slots
  <1>6. \A i \in DOMAIN q : q[i].kind # "tick" => r[i].slots \subseteq q[i].slots
    BY <1>2
  <1> HIDE DEF r
  <1> QED BY <1>1, <1>2, <1>3, <1>4, <1>5, <1>6 DEF r

-----------------------------------------------------------------------------
(* Types.                                                                  *)

LEMMA QueueForms ==
  /\ Queued = Slots(queue) /\ Queued' = Slots(queue')
  /\ \A S : Without(S) = Minus(queue, S)
  BY DEF Queued, Slots, Without, Minus

LEMMA ValueTypes ==
  /\ Idle \in Coord
  /\ \A kind \in Kinds, s \in Sessions : Event(kind, s) \in SensorEvent
  /\ \A j \in Jobs, e \in SensorEvent : Starting(j, e) \in Coord
  /\ Timed \subseteq Jobs
  <1>1. Idle \in Coord
    BY SessionAssumption DEF Idle, Coord, Jobs, Kinds
  <1>2. \A kind \in Kinds, s \in Sessions : Event(kind, s) \in SensorEvent
    BY DEF Event, SensorEvent
  <1>3. \A j \in Jobs, e \in SensorEvent : Starting(j, e) \in Coord
    <2>1. ASSUME NEW j \in Jobs, NEW e \in SensorEvent PROVE Session(j, e) \in Sessions
      BY <2>1, SessionAssumption DEF Session, Jobs, SensorEvent
    <2> QED BY <2>1 DEF Starting, Coord, SensorEvent
  <1> QED BY <1>1, <1>2, <1>3 DEF Timed, Jobs

\* Marking a job keeps the events and the types, and adds no slot but the job's own.
LEMMA MarkedQueue ==
  ASSUME TypeOK, NEW j \in Jobs, Marked(j)
  PROVE  /\ queue' \in Seq(SensorEvent) /\ Len(queue') = Len(queue)
         /\ DOMAIN queue' = DOMAIN queue
         /\ \A i \in DOMAIN queue :
              /\ queue'[i].kind = queue[i].kind
              /\ queue[i].kind # "tick" => queue'[i].slots \subseteq queue[i].slots
         /\ Slots(queue') \subseteq Slots(queue) \cup ({j} \cap Goals)
         /\ pending' = pending \ {j} /\ fresh' \subseteq fresh
  <1>1. CASE j \in Goals
    <2>1. PICK n \in Ticks \cup {0} : queue' = GoalAt(queue, n, j)
      BY <1>1 DEF Marked, GoalAt
    <2>2. queue \in Seq(SensorEvent) /\ DOMAIN queue = 1..Len(queue)
      BY DEF TypeOK
    <2>3. n \in Nat /\ (n \in DOMAIN queue => queue[n].kind = "tick")
      BY <2>1, <2>2 DEF Ticks
    <2>4. pending' = pending \ {j} /\ fresh' \subseteq fresh
      BY <1>1 DEF Marked
    <2> QED BY <1>1, <2>1, <2>2, <2>3, <2>4, GoalInQueue
  <1>2. CASE j \notin Goals
    BY <1>2 DEF Marked, TypeOK
  <1> QED BY <1>1, <1>2

\* The queue a registration leaves.
LEMMA RegisteredQueue ==
  ASSUME TypeOK, Registered
  PROVE  LET R == Governance \cap ever IN
         /\ queue' \in Seq(SensorEvent) /\ Len(queue') <= MaxQueue
         /\ DOMAIN queue = 1..Len(queue) /\ DOMAIN queue' = 1..Len(queue')
         /\ Len(queue) <= Len(queue') /\ Len(queue') <= Len(queue) + 1
         /\ \A i \in DOMAIN queue : /\ queue'[i].kind = queue[i].kind
                                    /\ queue'[i].slots = queue[i].slots \ R
         /\ \A i \in DOMAIN queue' \ DOMAIN queue : queue'[i].kind = "resume" /\ queue'[i].slots = {}
         /\ Slots(queue') = Slots(queue) \ R
  <1> DEFINE R == Governance \cap ever
             r == Minus(queue, R)
  <1>1. queue \in Seq(SensorEvent) /\ Len(queue) <= MaxQueue /\ DOMAIN queue = 1..Len(queue)
    BY DEF TypeOK
  <1>2. /\ r \in Seq(SensorEvent) /\ Len(r) = Len(queue) /\ DOMAIN r = DOMAIN queue
        /\ \A i \in DOMAIN queue : r[i].kind = queue[i].kind /\ r[i].slots = queue[i].slots \ R
        /\ Slots(r) = Slots(queue) \ R
    BY <1>1, MinusOfQueue
  <1>3. queue' = r \/ \E s \in Sessions : Room /\ queue' = Append(r, Event("resume", s))
    BY QueueForms DEF Registered
  <1> HIDE DEF r
  <1>4. CASE queue' = r
    BY <1>1, <1>2, <1>4
  <1>5. ASSUME NEW s \in Sessions, Room, queue' = Append(r, Event("resume", s))
        PROVE  LET P == Governance \cap ever IN
         /\ queue' \in Seq(SensorEvent) /\ Len(queue') <= MaxQueue
         /\ DOMAIN queue = 1..Len(queue) /\ DOMAIN queue' = 1..Len(queue')
         /\ Len(queue) <= Len(queue') /\ Len(queue') <= Len(queue) + 1
         /\ \A i \in DOMAIN queue : /\ queue'[i].kind = queue[i].kind
                                    /\ queue'[i].slots = queue[i].slots \ P
         /\ \A i \in DOMAIN queue' \ DOMAIN queue : queue'[i].kind = "resume" /\ queue'[i].slots = {}
         /\ Slots(queue') = Slots(queue) \ P
    <2> DEFINE e == Event("resume", s)
    <2>1. e \in SensorEvent /\ e.kind = "resume" /\ e.slots = {}
      BY ValueTypes DEF Kinds, Event
    <2> HIDE DEF e
    <2>2. /\ queue' \in Seq(SensorEvent) /\ Len(queue') = Len(r) + 1
          /\ DOMAIN queue' = 1..(Len(r) + 1)
          /\ \A i \in DOMAIN r : queue'[i] = r[i]
          /\ queue'[Len(r) + 1] = e
          /\ Slots(queue') = Slots(r) \cup e.slots
      BY <1>2, <1>5, <2>1, AppendToQueue DEF e
    <2>3. \A i \in DOMAIN queue' \ DOMAIN queue : queue'[i].kind = "resume" /\ queue'[i].slots = {}
      BY <1>1, <1>2, <2>1, <2>2
    <2>4. Len(queue') <= MaxQueue
      BY <1>1, <1>2, <1>5, <2>2, BoundAssumption DEF Room
    <2> QED BY <1>1, <1>2, <2>1, <2>2, <2>3, <2>4
  <1> QED BY <1>3, <1>4, <1>5

\* The queue a tick leaves, with the orders M marked.
LEMMA TickQueue ==
  ASSUME TypeOK, Room, NEW M,
         queue' = Append(Without(M), [kind |-> "tick", session |-> Schedule, slots |-> fresh \ M])
  PROVE  /\ queue' \in Seq(SensorEvent) /\ Len(queue') <= MaxQueue
         /\ DOMAIN queue = 1..Len(queue) /\ DOMAIN queue' = 1..(Len(queue) + 1)
         /\ \A i \in DOMAIN queue : /\ queue'[i].kind = queue[i].kind
                                    /\ queue'[i].slots = queue[i].slots \ M
         /\ queue'[Len(queue) + 1].kind = "tick"
         /\ Slots(queue') = (Slots(queue) \cup fresh) \ M
  <1> DEFINE r == Minus(queue, M)
             e == [kind |-> "tick", session |-> Schedule, slots |-> fresh \ M]
  <1>1. queue \in Seq(SensorEvent) /\ Len(queue) <= MaxQueue /\ DOMAIN queue = 1..Len(queue)
    BY DEF TypeOK
  <1>2. /\ r \in Seq(SensorEvent) /\ Len(r) = Len(queue) /\ DOMAIN r = DOMAIN queue
        /\ \A i \in DOMAIN queue : r[i].kind = queue[i].kind /\ r[i].slots = queue[i].slots \ M
        /\ Slots(r) = Slots(queue) \ M
    BY <1>1, MinusOfQueue
  <1>3. e \in SensorEvent /\ e.kind = "tick" /\ e.slots = fresh \ M
    <2>1. fresh \ M \subseteq Timed
      BY DEF TypeOK
    <2>2. Schedule \in Sessions /\ "tick" \in Kinds
      BY SessionAssumption DEF Kinds
    <2> QED BY <2>1, <2>2 DEF SensorEvent
  <1>4. queue' = Append(r, e)
    BY QueueForms
  <1> HIDE DEF r, e
  <1>5. /\ Append(r, e) \in Seq(SensorEvent) /\ Len(Append(r, e)) = Len(r) + 1
        /\ DOMAIN Append(r, e) = 1..(Len(r) + 1)
        /\ \A i \in DOMAIN r : Append(r, e)[i] = r[i]
        /\ Append(r, e)[Len(r) + 1] = e
        /\ Slots(Append(r, e)) = Slots(r) \cup e.slots
    <2>1. r \in Seq(SensorEvent) /\ e \in SensorEvent
      BY <1>2, <1>3
    <2> QED BY <2>1, AppendToQueue, Zenon
  <1>6. Len(queue') <= MaxQueue
    BY <1>1, <1>2, <1>4, <1>5, BoundAssumption DEF Room
  <1> QED BY <1>1, <1>2, <1>3, <1>4, <1>5, <1>6

\* The queue a published event leaves.
LEMMA PublishQueue ==
  ASSUME TypeOK, NEW e \in SensorEvent, Publish(e)
  PROVE  /\ queue' \in Seq(SensorEvent) /\ Len(queue') <= MaxQueue
         /\ DOMAIN queue = 1..Len(queue) /\ DOMAIN queue' = 1..(Len(queue) + 1)
         /\ \A i \in DOMAIN queue : queue'[i] = queue[i]
         /\ queue'[Len(queue) + 1] = e
         /\ Slots(queue') = Slots(queue) \cup e.slots
  <1>1. queue \in Seq(SensorEvent) /\ Len(queue) <= MaxQueue /\ DOMAIN queue = 1..Len(queue)
    BY DEF TypeOK
  <1>2. queue' = Append(queue, e) /\ Len(queue) < MaxQueue
    BY DEF Publish, Room
  <1>3. Len(queue') <= MaxQueue
    BY <1>1, <1>2, BoundAssumption, AppendToQueue
  <1> QED BY <1>1, <1>2, <1>3, AppendToQueue

\* The queue the coordinator leaves.
LEMMA TakenQueue ==
  ASSUME TypeOK, Ready, queue' = Tail(queue)
  PROVE  /\ Head(queue) \in SensorEvent /\ Head(queue) = queue[1] /\ 1 \in DOMAIN queue
         /\ queue' \in Seq(SensorEvent) /\ Len(queue') <= MaxQueue
         /\ DOMAIN queue = 1..Len(queue) /\ DOMAIN queue' = 1..(Len(queue) - 1)
         /\ \A i \in DOMAIN queue' : i + 1 \in DOMAIN queue /\ queue'[i] = queue[i + 1]
         /\ Slots(queue) = Head(queue).slots \cup Slots(queue')
  <1>1. queue \in Seq(SensorEvent) /\ Len(queue) <= MaxQueue /\ queue # <<>>
    BY DEF TypeOK, Ready
  <1>2. Len(queue') <= MaxQueue
    BY <1>1, TailOfQueue, BoundAssumption
  <1> QED BY <1>1, <1>2, TailOfQueue

\* Slots of the queue are slots of timed jobs.
LEMMA QueuedTimed ==
  ASSUME TypeOK
  PROVE  Queued \subseteq Timed
  <1>1. \A i \in DOMAIN queue : queue[i] \in SensorEvent
    BY DEF TypeOK
  <1>2. \A i \in DOMAIN queue : queue[i].slots \subseteq Timed
    BY <1>1 DEF SensorEvent
  <1> QED BY <1>2 DEF Queued

\* A crash leaves so many records more.
LEMMA DeadRuns ==
  ASSUME NEW S, S \subseteq Sessions, lost \in Nat, Died(S)
  PROVE  live' = {} /\ lost' \in Nat /\ running' = running \cup S
  <1>1. IsFiniteSet(S)
    BY SessionAssumption, FS_Subset
  <1>2. Cardinality(S) \in Nat
    BY <1>1, FS_CardinalityType
  <1> QED BY <1>2 DEF Died

\* The variables keep their types.
LEMMA TypeStep == TypeOK /\ [Next]_vars => TypeOK'
  <1> SUFFICES ASSUME TypeOK, [Next]_vars PROVE TypeOK'
    OBVIOUS
  <1> USE DEF store, daemon, runs, history
  <1>0. Direct \in Jobs /\ Idle \in Coord
    BY ValueTypes DEF Jobs
  <1>1. CASE TakeResource
    <2>1. queue' \in Seq(SensorEvent) /\ Len(queue') <= MaxQueue /\ Head(queue) \in SensorEvent
      BY <1>1, TakenQueue DEF TakeResource, Taken
    <2>2. pending' \subseteq Timed /\ due' \subseteq Timed
      BY <1>1, <2>1 DEF TakeResource, Taken, TypeOK, SensorEvent
    <2>3. pressure' \in BOOLEAN /\ missed' \in BOOLEAN
      BY <1>1, Zenon DEF TakeResource, TypeOK
    <2>4. faults' \in 0..MaxFaults
      <3>1. faults \in 0..MaxFaults
        BY DEF TypeOK
      <3>2. faults' = faults \/ Faulty
        BY <1>1 DEF TakeResource
      <3> QED BY <3>1, <3>2, BoundAssumption DEF Faulty
    <2> QED BY <1>1, <2>1, <2>2, <2>3, <2>4 DEF TakeResource, TypeOK
  <1>2. CASE Suppress
    <2>1. queue' \in Seq(SensorEvent) /\ Len(queue') <= MaxQueue /\ Head(queue) \in SensorEvent
      BY <1>2, TakenQueue DEF Suppress, Taken
    <2>2. pending' \subseteq Timed /\ due' \subseteq Timed
      BY <1>2, <2>1 DEF Suppress, Taken, TypeOK, SensorEvent
    <2> QED BY <1>2, <2>1, <2>2 DEF Suppress, TypeOK
  <1>3. CASE Dispatch
    <2>1. queue' \in Seq(SensorEvent) /\ Len(queue') <= MaxQueue /\ Head(queue) \in SensorEvent
      BY <1>3, TakenQueue DEF Dispatch, Taken
    <2>2. pending' \subseteq Timed /\ due' \subseteq Timed
      BY <1>3, <2>1 DEF Dispatch, Taken, TypeOK, SensorEvent
    <2>3. coord' \in Coord
      BY <1>3, <2>1, ValueTypes DEF Dispatch, Chosen
    <2> QED BY <1>3, <2>1, <2>2, <2>3 DEF Dispatch, TypeOK
  <1>4. CASE StartFails
    BY <1>0, <1>4 DEF StartFails, TypeOK
  <1>26. CASE StartStrands
    <2>1. running' \subseteq Sessions /\ lost' \in Nat /\ live' = live
      BY <1>26 DEF StartStrands, TypeOK, Coord
    <2>2. faults' \in 0..MaxFaults
      BY <1>26, BoundAssumption DEF StartStrands, Faulty, TypeOK
    <2> QED BY <1>0, <1>26, <2>1, <2>2 DEF StartStrands, TypeOK
  <1>5. CASE Started
    <2>1. coord.job \in Jobs /\ coord.session \in Sessions
      BY DEF TypeOK, Coord
    <2>2. /\ queue' \in Seq(SensorEvent) /\ Len(queue') <= MaxQueue
          /\ pending' \subseteq Timed /\ fresh' \subseteq Timed
      BY <1>5, <2>1, MarkedQueue DEF Started, TypeOK
    <2>3. due' \subseteq Timed /\ again' \subseteq Timed
      BY <1>5 DEF Started, Run, TypeOK
    <2>4. /\ window' \in Seq(BOOLEAN)
          /\ running' \subseteq Sessions /\ live' \subseteq Sessions /\ lost' \in Nat
      BY <1>5, <2>1 DEF Started, StartedIn, TypeOK
    <2> QED BY <1>0, <1>5, <2>2, <2>3, <2>4 DEF Started, TypeOK
  <1>6. CASE StartedUnmarked
    <2>1. coord.job \in Jobs /\ coord.session \in Sessions
      BY DEF TypeOK, Coord
    <2>2. due' \subseteq Timed /\ again' \subseteq Timed /\ doubt' \subseteq Timed
      BY <1>6 DEF StartedUnmarked, Run, TypeOK
    <2>3. running' \subseteq Sessions /\ live' \subseteq Sessions /\ lost' \in Nat
      BY <1>6, <2>1 DEF StartedUnmarked, StartedIn, TypeOK
    <2>4. faults' \in 0..MaxFaults
      BY <1>6, BoundAssumption DEF StartedUnmarked, Faulty, TypeOK
    <2>5. window' \in Seq(BOOLEAN)
      <3>1. window \in Seq(BOOLEAN)
        BY DEF TypeOK
      <3>2. CASE window' = window
        BY <3>1, <3>2
      <3>3. CASE window' = Append(window, coord.kind = "resume")
        BY <3>1, <3>3
      <3> QED BY <1>6, <3>2, <3>3 DEF StartedUnmarked
    <2> QED BY <1>0, <1>6, <2>2, <2>3, <2>4, <2>5 DEF StartedUnmarked, TypeOK
  <1>7. CASE Tick
    <2>1. PICK F \in SUBSET Sweep, B \in SUBSET Sweep :
            /\ B \subseteq Sweep \ F
            /\ IF F = {} THEN UNCHANGED faults ELSE Faulty
            /\ queue' = Append(Without(Sweep \ F), [kind |-> "tick", session |-> Schedule,
                                                    slots |-> fresh \ (Sweep \ F)])
            /\ pending' = pending \ (Sweep \ F)
            /\ due' = (due \ (Sweep \ F)) \cup (B \cap (due \cup Queued \cup fresh))
            /\ again' = again \cup (((Sweep \ F) \ B) \ (due \cup Queued \cup fresh))
            /\ slipped' = (slipped \ (Sweep \ F)) \cup F
            /\ doubt' = doubt \cup ((Sweep \ F) \cap {coord.job})
      BY <1>7 DEF Tick
    <2>2. Sweep \subseteq Governance /\ Sweep \subseteq Timed
      BY OrderAssumption, QueuedTimed DEF Sweep, TypeOK, Timed
    <2>3. queue' \in Seq(SensorEvent) /\ Len(queue') <= MaxQueue
      BY <1>7, <2>1, TickQueue DEF Tick
    <2>4. faults' \in 0..MaxFaults
      BY <2>1, BoundAssumption DEF Faulty, TypeOK
    <2>5. /\ pending' \subseteq Timed /\ due' \subseteq Timed /\ again' \subseteq Timed
          /\ slipped' \subseteq Governance /\ doubt' \subseteq Timed /\ fresh' \subseteq Timed
      BY <1>7, <2>1, <2>2, QueuedTimed DEF Tick, TypeOK
    <2> QED BY <1>7, <2>3, <2>4, <2>5 DEF Tick, TypeOK
  <1>8. CASE Sense
    <2>1. PICK e \in SensorEvent : Publish(e)
      <3>1. Sensed \subseteq Kinds
        BY PolicyAssumption DEF Kinds
      <3> QED BY <1>8, <3>1, ValueTypes DEF Sense
    <2>2. queue' \in Seq(SensorEvent) /\ Len(queue') <= MaxQueue
      BY <2>1, PublishQueue
    <2> QED BY <1>8, <2>2 DEF Sense, TypeOK
  <1>9. CASE SensePressure
    <2>1. PICK e \in SensorEvent : Publish(e)
      BY <1>9, ValueTypes, SessionAssumption DEF SensePressure, Kinds
    <2>2. queue' \in Seq(SensorEvent) /\ Len(queue') <= MaxQueue
      BY <2>1, PublishQueue
    <2>3. sensed' \in BOOLEAN
      BY <1>9 DEF SensePressure
    <2> QED BY <1>9, <2>2, <2>3 DEF SensePressure, TypeOK
  <1>10. ASSUME Registered
         PROVE  /\ queue' \in Seq(SensorEvent) /\ Len(queue') <= MaxQueue
                /\ enabled' \subseteq Orders \cup Goals /\ pending' \subseteq Timed
                /\ fresh' \subseteq Timed /\ due' \subseteq Timed /\ doubt' \subseteq Timed
                /\ slipped' \subseteq Governance
    <2>1. Governance \subseteq Orders /\ Governance \subseteq Timed
      BY OrderAssumption DEF Timed
    <2>2. queue' \in Seq(SensorEvent) /\ Len(queue') <= MaxQueue
      BY <1>10, RegisteredQueue
    <2> QED BY <1>10, <2>1, <2>2 DEF Registered, TypeOK
  <1>11. CASE Start
    BY <1>10, <1>11 DEF Start, TypeOK
  <1>12. CASE StartAgain
    <2>1. faults' \in 0..MaxFaults
      BY <1>12, BoundAssumption DEF StartAgain, Faulty, TypeOK
    <2> QED BY <1>10, <1>12, <2>1 DEF StartAgain, TypeOK
  <1>13. ASSUME Down
         PROVE  /\ queue' \in Seq(SensorEvent) /\ Len(queue') <= MaxQueue
                /\ window' \in Seq(BOOLEAN) /\ coord' \in Coord
    BY <1>0, <1>13, BoundAssumption DEF Down
  <1>14. CASE Stop
    <2>1. faults' \in 0..MaxFaults
      BY <1>14, BoundAssumption DEF Stop, Faulty, TypeOK
    <2> QED BY <1>13, <1>14, <2>1, QueuedTimed DEF Stop, Down, TypeOK
  <1>15. CASE Crash
    <2>1. faults' \in 0..MaxFaults
      BY <1>15, BoundAssumption DEF Crash, Faulty, TypeOK
    <2>2. live' \subseteq Sessions /\ lost' \in Nat /\ running' \subseteq Sessions
      BY <1>15, DeadRuns DEF Crash, RunsTorn, TypeOK
    <2> QED BY <1>13, <1>15, <2>1, <2>2, QueuedTimed DEF Crash, Down, TypeOK
  <1>16. CASE CrashMarking
    <2>1. faults' \in 0..MaxFaults
      BY <1>16, BoundAssumption DEF CrashMarking, Faulty, TypeOK
    <2>2. /\ pending' \subseteq Timed /\ due' \subseteq Timed /\ again' \subseteq Timed
          /\ doubt' \subseteq Timed /\ fresh' \subseteq Timed /\ enabled' \subseteq Orders \cup Goals
      BY <1>16, QueuedTimed DEF CrashMarking, TypeOK
    <2>3. coord.session \in Sessions
      BY DEF TypeOK, Coord
    <2>4. live' \subseteq Sessions /\ lost' \in Nat /\ running' \subseteq Sessions
      <3>1. live \cup {coord.session} \subseteq Sessions /\ Died(live \cup {coord.session})
        BY <1>16, <2>3 DEF CrashMarking, TypeOK
      <3> QED BY <3>1, DeadRuns DEF TypeOK
    <2> QED BY <1>13, <1>16, <2>1, <2>2, <2>4 DEF CrashMarking, Down, TypeOK
  <1>17. CASE SlotArrives
    BY <1>17 DEF SlotArrives, TypeOK
  <1>18. CASE Expire
    <2>1. window' \in Seq(BOOLEAN)
      BY <1>18 DEF Expire, TypeOK
    <2> QED BY <1>18, <2>1 DEF Expire, TypeOK
  <1>19. CASE UserRun
    BY <1>19 DEF UserRun, StartedIn, TypeOK
  <1>20. CASE EndRun
    BY <1>20 DEF EndRun, TypeOK
  <1>25. CASE StrandRun
    <2>1. faults' \in 0..MaxFaults
      BY <1>25, BoundAssumption DEF StrandRun, Faulty, TypeOK
    <2> QED BY <1>25, <2>1 DEF StrandRun, TypeOK
  <1>21. CASE Disable
    <2>1. faults' \in 0..MaxFaults
      BY <1>21, BoundAssumption DEF Disable, Faulty, TypeOK
    <2> QED BY <1>21, <2>1 DEF Disable, TypeOK
  <1>22. CASE Enable
    <2>1. faults' \in 0..MaxFaults
      BY <1>22, BoundAssumption DEF Enable, Faulty, TypeOK
    <2> QED BY <1>22, <2>1 DEF Enable, TypeOK
  <1>23. CASE Create
    <2>1. faults' \in 0..MaxFaults
      BY <1>23, BoundAssumption DEF Create, Faulty, TypeOK
    <2>2. PICK j \in (Orders \cup Goals) \ (enabled \cup Governance) :
            /\ enabled' = enabled \cup {j}
            /\ pending' = (pending \ {j}) \cup ({j} \cap Goals)
            /\ due' = (due \ {j}) \cup ({j} \cap Goals)
            /\ fresh' = fresh \ {j}
            /\ queue' = Minus(queue, {j})
      BY <1>23, QueueForms DEF Create
    <2>3. queue \in Seq(SensorEvent) /\ Len(queue) <= MaxQueue
      BY DEF TypeOK
    <2>4. queue' \in Seq(SensorEvent) /\ Len(queue') <= MaxQueue
      BY <2>2, <2>3, MinusOfQueue
    <2>5. /\ pending' \subseteq Timed /\ due' \subseteq Timed /\ fresh' \subseteq Timed
          /\ enabled' \subseteq Orders \cup Goals
      BY <2>2 DEF TypeOK, Timed
    <2> QED BY <1>23, <2>1, <2>4, <2>5 DEF Create, TypeOK
  <1>24. CASE UNCHANGED vars
    BY <1>24 DEF vars, TypeOK
  <1> QED BY <1>1, <1>2, <1>3, <1>4, <1>5, <1>6, <1>7, <1>8, <1>9, <1>11, <1>12, <1>14,
             <1>15, <1>16, <1>17, <1>18, <1>19, <1>20, <1>21, <1>22, <1>23, <1>24, <1>25,
             <1>26
          DEF Next, Coordinates, Senses, Lives, World

-----------------------------------------------------------------------------
(* Slots: kept, and run once.                                              *)

SlotInv == SlotKept /\ PendingIsDue /\ StartingIsDue /\ SlotRunOnce

\* A job an event is dispatched for is due once the event is taken.
LEMMA ChosenIsDue ==
  ASSUME NEW e \in SensorEvent, NEW j \in Chosen(e), j \in Timed
  PROVE  j \in pending \cup e.slots
  BY OrderAssumption DEF Chosen, DueOrders, DueGoals, DueAt, Timed, Resource

LEMMA SlotStep == TypeOK /\ SlotInv /\ [Next]_vars => SlotInv'
  <1> SUFFICES ASSUME TypeOK, SlotInv, [Next]_vars PROVE SlotInv'
    OBVIOUS
  <1> USE DEF store, daemon, runs, history, SlotInv, SlotKept, PendingIsDue, StartingIsDue, SlotRunOnce
  <1>0. Governance \subseteq Orders /\ Orders \cap Goals = {} /\ Idle.step = "idle"
    BY OrderAssumption DEF Idle
  <1>1. CASE TakeResource
    BY <1>1 DEF TakeResource, Ready, Taken
  <1>2. CASE Suppress
    BY <1>2 DEF Suppress, Ready, Taken
  <1>3. CASE Dispatch
    <2>1. Head(queue) \in SensorEvent
      BY <1>3, TakenQueue DEF Dispatch, Taken
    <2>2. coord'.job \in Timed => coord'.job \in pending \cup Head(queue).slots
      BY <1>3, <2>1, ChosenIsDue DEF Dispatch, Starting
    <2> QED BY <1>3, <2>2 DEF Dispatch, Taken
  <1>4. CASE StartFails
    BY <1>0, <1>4 DEF StartFails
  <1>26. CASE StartStrands
    BY <1>0, <1>26 DEF StartStrands
  <1>5. CASE Started
    <2>1. pending' = pending \ {coord.job}
      BY <1>5, MarkedQueue DEF Started, TypeOK, Coord
    <2> QED BY <1>0, <1>5, <2>1 DEF Started, Run
  <1>6. CASE StartedUnmarked
    BY <1>0, <1>6 DEF StartedUnmarked, Run, TypeOK
  <1>7. CASE Tick
    <2>1. PICK F \in SUBSET Sweep, B \in SUBSET Sweep :
            /\ B \subseteq Sweep \ F
            /\ pending' = pending \ (Sweep \ F)
            /\ due' = (due \ (Sweep \ F)) \cup (B \cap (due \cup Queued \cup fresh))
            /\ again' = again \cup (((Sweep \ F) \ B) \ (due \cup Queued \cup fresh))
            /\ doubt' = doubt \cup ((Sweep \ F) \cap {coord.job})
      BY <1>7 DEF Tick
    <2>2. Sweep \subseteq Governance /\ Sweep \subseteq pending \cup Queued \cup fresh
      BY DEF Sweep
    <2>3. coord' = coord
      BY <1>7 DEF Tick
    <2>4. due' \ Governance \subseteq pending'
      BY <2>1, <2>2
    <2>5. pending' \subseteq due' \cup doubt'
      BY <2>1
    <2>6. StartingIsDue'
      BY <2>1, <2>3
    <2>7. again' \subseteq doubt'
      BY <2>1, <2>2
    <2> QED BY <2>4, <2>5, <2>6, <2>7
  <1>8. CASE Sense
    BY <1>8 DEF Sense
  <1>9. CASE SensePressure
    BY <1>9 DEF SensePressure
  <1>10. ASSUME Registered
         PROVE  /\ due' \ Governance \subseteq pending' /\ pending' \subseteq due' \cup doubt'
                /\ due \subseteq due' /\ doubt \subseteq doubt'
    BY <1>10 DEF Registered
  <1>11. CASE Start
    BY <1>10, <1>11 DEF Start
  <1>12. CASE StartAgain
    BY <1>10, <1>12 DEF StartAgain
  <1>14. CASE Stop
    BY <1>0, <1>14 DEF Stop, Down
  <1>15. CASE Crash
    BY <1>0, <1>15 DEF Crash, Down
  <1>16. CASE CrashMarking
    BY <1>0, <1>16 DEF CrashMarking, Down, TypeOK
  <1>17. CASE SlotArrives
    BY <1>17 DEF SlotArrives
  <1>18. CASE Expire
    BY <1>18 DEF Expire
  <1>19. CASE UserRun
    BY <1>19 DEF UserRun
  <1>20. CASE EndRun
    BY <1>20 DEF EndRun
  <1>25. CASE StrandRun
    BY <1>25 DEF StrandRun
  <1>21. CASE Disable
    BY <1>21 DEF Disable
  <1>22. CASE Enable
    BY <1>22 DEF Enable
  <1>23. CASE Create
    BY <1>23 DEF Create
  <1>24. CASE UNCHANGED vars
    BY <1>24 DEF vars
  <1> QED BY <1>1, <1>2, <1>3, <1>4, <1>5, <1>6, <1>7, <1>8, <1>9, <1>11, <1>12, <1>14,
             <1>15, <1>16, <1>17, <1>18, <1>19, <1>20, <1>21, <1>22, <1>23, <1>24, <1>25,
             <1>26
          DEF Next, Coordinates, Senses, Lives, World

-----------------------------------------------------------------------------
(* The throttle.                                                           *)

ThrottleInv == StartingHasRoom /\ Throttled

LEMMA ThrottleStep == TypeOK /\ ThrottleInv /\ [Next]_vars => ThrottleInv'
  <1> SUFFICES ASSUME TypeOK, ThrottleInv, [Next]_vars PROVE ThrottleInv'
    OBVIOUS
  <1> USE DEF store, daemon, runs, history, ThrottleInv, StartingHasRoom, Throttled
  <1>0. Idle.step = "idle" /\ window \in Seq(BOOLEAN) /\ MaxDispatches \in Nat
    BY BoundAssumption DEF Idle, TypeOK
  <1>1. CASE TakeResource
    BY <1>1 DEF TakeResource
  <1>2. CASE Suppress
    BY <1>2 DEF Suppress
  <1>3. CASE Dispatch
    <2>1. PICK j \in Chosen(Head(queue)) : coord' = Starting(j, Head(queue))
      BY <1>3 DEF Dispatch
    <2>2. coord'.kind # "resume" => Len(window) < MaxDispatches
      BY <2>1 DEF Starting, Chosen, AllowDispatch
    <2> QED BY <1>3, <2>2 DEF Dispatch
  <1>4. CASE StartFails \/ StartStrands
    BY <1>0, <1>4 DEF StartFails, StartStrands
  <1>5. ASSUME coord.step = "starting", window' = Append(window, coord.kind = "resume")
        PROVE  Throttled'
    <2>1. SUFFICES ASSUME NEW i \in DOMAIN window', ~window'[i]
                   PROVE  i <= MaxDispatches
      OBVIOUS
    <2>2. CASE i \in DOMAIN window
      BY <1>0, <1>5, <2>1, <2>2
    <2>3. CASE i \notin DOMAIN window
      <3>1. i = Len(window) + 1
        BY <1>0, <1>5, <2>3
      <3>2. coord.kind # "resume"
        <4> DEFINE v == coord.kind = "resume"
        <4>1. v \in BOOLEAN /\ window' = Append(window, v)
          BY <1>5
        <4> HIDE DEF v
        <4>2. window'[Len(window) + 1] = v
          BY <1>0, <4>1
        <4>3. ~v
          BY <2>1, <3>1, <4>2
        <4> QED BY <4>3 DEF v
      <3> QED BY <1>0, <1>5, <3>1, <3>2
    <2> QED BY <2>2, <2>3
  <1>6. CASE Started
    BY <1>0, <1>5, <1>6 DEF Started
  <1>7. CASE StartedUnmarked
    <2>1. CASE window' = window
      BY <1>0, <1>7, <2>1 DEF StartedUnmarked
    <2>2. CASE window' = Append(window, coord.kind = "resume")
      BY <1>0, <1>5, <1>7, <2>2 DEF StartedUnmarked
    <2> QED BY <1>7, <2>1, <2>2 DEF StartedUnmarked
  <1>8. CASE Expire
    <2>1. Len(window') = Len(window) - 1 /\ \A i \in DOMAIN window' :
            i + 1 \in DOMAIN window /\ window'[i] = window[i + 1] /\ i \in Nat
      BY <1>0, <1>8 DEF Expire
    <2>2. Len(window) \in Nat /\ coord' = coord
      BY <1>0, <1>8 DEF Expire
    <2>3. Throttled'
      BY <1>0, <2>1
    <2>4. StartingHasRoom'
      BY <1>0, <2>1, <2>2
    <2> QED BY <2>3, <2>4
  <1>9. CASE Stop \/ Crash \/ CrashMarking
    BY <1>0, <1>9 DEF Stop, Crash, CrashMarking, Down
  <1>10. CASE UNCHANGED <<coord, window>>
    BY <1>10
  <1> QED BY <1>1, <1>2, <1>3, <1>4, <1>6, <1>7, <1>8, <1>9, <1>10
          DEF Next, Coordinates, Senses, Lives, World, Tick, Sense, SensePressure, Start, StartAgain,
              SlotArrives, UserRun, EndRun, StrandRun, Disable, Enable, Create, vars

-----------------------------------------------------------------------------
(* The resource pressure.                                                  *)

PressureInv == LastIsSensed /\ PressureFollows

\* The same events, and perhaps more that are no resource events.
LEMMA PressureKept ==
  ASSUME PressureInv, UNCHANGED <<pressure, sensed, missed>>,
         DOMAIN queue \subseteq DOMAIN queue',
         \A i \in DOMAIN queue : queue'[i].kind = queue[i].kind,
         \A i \in DOMAIN queue' \ DOMAIN queue : queue'[i].kind \notin Resource
  PROVE  PressureInv'
  <1>1. PressureFollows'
    BY DEF PressureInv, PressureFollows
  <1>2. LastIsSensed'
    <2> SUFFICES ASSUME NEW i \in DOMAIN queue', queue'[i].kind \in Resource,
                        \A k \in DOMAIN queue' : k > i => queue'[k].kind \notin Resource
                 PROVE  (queue'[i].kind = "pressure") = sensed'
      BY DEF LastIsSensed
    <2>1. i \in DOMAIN queue /\ \A k \in DOMAIN queue : k \in DOMAIN queue'
      OBVIOUS
    <2>2. \A k \in DOMAIN queue : k > i => queue[k].kind \notin Resource
      BY <2>1
    <2>3. queue[i].kind \in Resource /\ queue'[i].kind = queue[i].kind
      BY <2>1
    <2>4. (queue[i].kind = "pressure") = sensed
      BY <2>1, <2>2, <2>3 DEF PressureInv, LastIsSensed
    <2> QED BY <2>3, <2>4
  <1> QED BY <1>1, <1>2 DEF PressureInv

\* The event the coordinator takes is no resource event, the engine learns of it, or it is
\* missed.
LEMMA PressureTaken ==
  ASSUME TypeOK, PressureInv, Ready, queue' = Tail(queue), UNCHANGED sensed,
         \/ missed'
         \/ Head(queue).kind \in Resource /\ pressure' = (Head(queue).kind = "pressure")
         \/ Head(queue).kind \notin Resource /\ UNCHANGED <<pressure, missed>>
  PROVE  PressureInv'
  <1>1. /\ Head(queue) = queue[1] /\ 1 \in DOMAIN queue /\ Len(queue) \in Nat
        /\ DOMAIN queue = 1..Len(queue) /\ DOMAIN queue' = 1..(Len(queue) - 1)
        /\ \A i \in DOMAIN queue' : i + 1 \in DOMAIN queue /\ queue'[i] = queue[i + 1]
    BY TakenQueue DEF TypeOK
  <1>2. \A k \in DOMAIN queue : k > 1 => k - 1 \in DOMAIN queue' /\ queue[k] = queue'[k - 1]
    BY <1>1
  <1>3. LastIsSensed'
    <2> SUFFICES ASSUME NEW i \in DOMAIN queue', queue'[i].kind \in Resource,
                        \A k \in DOMAIN queue' : k > i => queue'[k].kind \notin Resource
                 PROVE  (queue'[i].kind = "pressure") = sensed'
      BY DEF LastIsSensed
    <2>1. i + 1 \in DOMAIN queue /\ queue'[i] = queue[i + 1]
      BY <1>1
    <2>2. ASSUME NEW k \in DOMAIN queue, k > i + 1 PROVE queue[k].kind \notin Resource
      <3>1. k - 1 \in DOMAIN queue' /\ queue[k] = queue'[k - 1] /\ k - 1 > i
        BY <1>1, <1>2, <2>2
      <3> QED BY <3>1
    <2>3. (queue[i + 1].kind = "pressure") = sensed
      BY <2>1, <2>2 DEF PressureInv, LastIsSensed
    <2> QED BY <2>1, <2>3
  <1>4. PressureFollows'
    <2> SUFFICES ASSUME \A i \in DOMAIN queue' : queue'[i].kind \notin Resource, ~missed'
                 PROVE  pressure' = sensed'
      BY DEF PressureFollows
    <2>1. \A k \in DOMAIN queue : k > 1 => queue[k].kind \notin Resource
      BY <1>2
    <2>2. CASE Head(queue).kind \in Resource
      <3>1. (queue[1].kind = "pressure") = sensed
        BY <1>1, <2>1, <2>2 DEF PressureInv, LastIsSensed
      <3> QED BY <1>1, <2>2, <3>1
    <2>3. CASE Head(queue).kind \notin Resource
      <3>1. \A k \in DOMAIN queue : queue[k].kind \notin Resource
        <4> SUFFICES ASSUME NEW k \in DOMAIN queue PROVE queue[k].kind \notin Resource
          OBVIOUS
        <4>1. k = 1 \/ k > 1
          BY <1>1
        <4> QED BY <1>1, <2>1, <2>3, <4>1
      <3> QED BY <2>3, <3>1 DEF PressureInv, PressureFollows
    <2> QED BY <2>2, <2>3
  <1> QED BY <1>3, <1>4 DEF PressureInv

LEMMA PressureStep == TypeOK /\ PressureInv /\ [Next]_vars => PressureInv'
  <1> SUFFICES ASSUME TypeOK, PressureInv, [Next]_vars PROVE PressureInv'
    OBVIOUS
  <1> USE DEF store, daemon, runs, history
  <1>0. DOMAIN queue = 1..Len(queue) /\ Len(queue) \in Nat /\ Len(queue) + 1 \in Nat
        /\ queue \in Seq(SensorEvent)
    BY DEF TypeOK
  <1>1. CASE TakeResource
    <2>1. CASE missed' = TRUE
      BY <1>1, <2>1, PressureTaken DEF TakeResource, Taken
    <2>2. CASE pressure' = (Head(queue).kind = "pressure")
      BY <1>1, <2>2, PressureTaken DEF TakeResource, Taken
    <2> QED BY <1>1, <2>1, <2>2 DEF TakeResource
  <1>2. CASE Suppress
    BY <1>2, PressureTaken DEF Suppress, Taken
  <1>3. CASE Dispatch
    <2>1. Head(queue) \in SensorEvent /\ Head(queue).kind \notin Resource
      BY <1>3, TakenQueue DEF Dispatch, Taken, Chosen, Resource
    <2> QED BY <1>3, <2>1, PressureTaken DEF Dispatch, Taken
  <1>4. CASE Started
    <2>1. DOMAIN queue' = DOMAIN queue /\ \A i \in DOMAIN queue : queue'[i].kind = queue[i].kind
      BY <1>4, MarkedQueue DEF Started, TypeOK, Coord
    <2>2. UNCHANGED <<pressure, sensed, missed>>
      BY <1>4 DEF Started
    <2> QED BY <2>1, <2>2, PressureKept
  <1>5. CASE Tick
    <2>1. PICK M : queue' = Append(Without(M), [kind |-> "tick", session |-> Schedule,
                                                slots |-> fresh \ M])
      BY <1>5 DEF Tick
    <2>2. /\ DOMAIN queue' = 1..(Len(queue) + 1)
          /\ \A i \in DOMAIN queue : queue'[i].kind = queue[i].kind
          /\ queue'[Len(queue) + 1].kind = "tick"
      BY <1>5, <2>1, TickQueue DEF Tick
    <2>3. \A i \in DOMAIN queue' \ DOMAIN queue : queue'[i].kind \notin Resource
      BY <1>0, <2>2 DEF Resource
    <2>4. UNCHANGED <<pressure, sensed, missed>>
      BY <1>5 DEF Tick
    <2>5. DOMAIN queue \subseteq DOMAIN queue'
      BY <1>0, <2>2
    <2> QED BY <2>2, <2>3, <2>4, <2>5, PressureKept
  <1>6. CASE Sense
    <2>1. PICK e \in SensorEvent : Publish(e) /\ e.kind \in {"file", "alert"}
      BY <1>6, ValueTypes, PolicyAssumption DEF Sense, Kinds, Event
    <2>2. /\ DOMAIN queue' = 1..(Len(queue) + 1)
          /\ \A i \in DOMAIN queue : queue'[i] = queue[i]
          /\ queue'[Len(queue) + 1] = e
      BY <2>1, PublishQueue
    <2>3. \A i \in DOMAIN queue' \ DOMAIN queue : queue'[i].kind \notin Resource
      BY <1>0, <2>1, <2>2 DEF Resource
    <2>4. UNCHANGED <<pressure, sensed, missed>>
      BY <1>6 DEF Sense
    <2>5. DOMAIN queue \subseteq DOMAIN queue'
      BY <1>0, <2>2
    <2> QED BY <2>2, <2>3, <2>4, <2>5, PressureKept
  <1>7. CASE SensePressure
    <2> DEFINE e == Event(IF sensed' THEN "pressure" ELSE "normal", Schedule)
    <2>1. /\ e \in SensorEvent /\ e.kind \in Resource /\ (e.kind = "pressure") = sensed'
          /\ Publish(e)
      BY <1>7, ValueTypes, SessionAssumption DEF SensePressure, Kinds, Event, Resource
    <2> HIDE DEF e
    <2>2. /\ DOMAIN queue' = 1..(Len(queue) + 1)
          /\ queue'[Len(queue) + 1] = e
      BY <2>1, PublishQueue
    <2>3. PressureFollows'
      BY <1>0, <2>1, <2>2 DEF PressureFollows
    <2>4. LastIsSensed'
      <3> SUFFICES ASSUME NEW i \in DOMAIN queue',
                          \A k \in DOMAIN queue' : k > i => queue'[k].kind \notin Resource
                   PROVE  (queue'[i].kind = "pressure") = sensed'
        BY DEF LastIsSensed
      <3>1. i = Len(queue) + 1
        BY <1>0, <2>1, <2>2
      <3> QED BY <2>1, <2>2, <3>1
    <2> QED BY <2>3, <2>4 DEF PressureInv
  <1>8. CASE Start \/ StartAgain
    <2>1. Registered /\ UNCHANGED <<pressure, sensed, missed>>
      BY <1>8 DEF Start, StartAgain
    <2>2. /\ queue' \in Seq(SensorEvent) /\ DOMAIN queue' = 1..Len(queue') /\ Len(queue) <= Len(queue')
          /\ \A i \in DOMAIN queue : queue'[i].kind = queue[i].kind
          /\ \A i \in DOMAIN queue' \ DOMAIN queue : queue'[i].kind \notin Resource
      BY <2>1, RegisteredQueue DEF Resource
    <2>3. DOMAIN queue \subseteq DOMAIN queue'
      BY <1>0, <2>2
    <2> QED BY <2>1, <2>2, <2>3, PressureKept
  <1>9. CASE Stop \/ Crash \/ CrashMarking
    <2>1. queue' = <<>> /\ pressure' = FALSE /\ sensed' = FALSE
      BY <1>9 DEF Stop, Crash, CrashMarking, Down
    <2>2. DOMAIN queue' = {}
      BY <2>1
    <2> QED BY <2>1, <2>2 DEF PressureInv, LastIsSensed, PressureFollows
  <1>10. CASE Create
    <2>1. PICK j : queue' = Minus(queue, {j})
      BY <1>10, QueueForms DEF Create
    <2>2. DOMAIN queue' = DOMAIN queue /\ \A i \in DOMAIN queue : queue'[i].kind = queue[i].kind
      BY <1>0, <2>1, MinusOfQueue
    <2>3. UNCHANGED <<pressure, sensed, missed>>
      BY <1>10 DEF Create
    <2> QED BY <2>2, <2>3, PressureKept
  <1>11. CASE UNCHANGED <<queue, pressure, sensed, missed>>
    BY <1>11 DEF PressureInv, LastIsSensed, PressureFollows
  <1> QED BY <1>1, <1>2, <1>3, <1>4, <1>5, <1>6, <1>7, <1>8, <1>9, <1>10, <1>11
          DEF Next, Coordinates, Senses, Lives, World, StartFails, StartStrands, StartedUnmarked,
              SlotArrives,
              Expire, UserRun, EndRun, StrandRun, Disable, Enable, vars

-----------------------------------------------------------------------------
(* The sweeps.                                                             *)

SweepInv == SlotsInTicks /\ SweptBeforeTicks

\* No tick appears, and no governance order becomes due by the queue.
LEMMA SweptKept ==
  ASSUME SweepInv, Ticks' # {} => Ticks # {}, slipped \subseteq slipped',
         Governance \cap enabled' \cap (pending' \cup Slots(queue'))
           \subseteq (enabled \cap (pending \cup Slots(queue))) \cup slipped'
  PROVE  SweptBeforeTicks'
  BY QueueForms DEF SweepInv, SweptBeforeTicks

\* The coordinator takes an event.
LEMMA SweptTaken ==
  ASSUME TypeOK, SweepInv, Ready, queue' = Tail(queue), pending' = pending \cup Head(queue).slots,
         UNCHANGED <<enabled, slipped>>
  PROVE  SweepInv'
  <1>1. /\ \A i \in DOMAIN queue' : i + 1 \in DOMAIN queue /\ queue'[i] = queue[i + 1]
        /\ Slots(queue) = Head(queue).slots \cup Slots(queue')
    BY TakenQueue
  <1>2. SlotsInTicks'
    BY <1>1 DEF SweepInv, SlotsInTicks
  <1>3. Ticks' # {} => Ticks # {}
    BY <1>1 DEF Ticks
  <1>4. pending' \cup Slots(queue') = pending \cup Slots(queue)
    BY <1>1
  <1> QED BY <1>2, <1>3, <1>4, SweptKept DEF SweepInv

LEMMA SweepStep == TypeOK /\ SweepInv /\ [Next]_vars => SweepInv'
  <1> SUFFICES ASSUME TypeOK, SweepInv, [Next]_vars PROVE SweepInv'
    OBVIOUS
  <1> USE DEF store, daemon, runs, history
  <1>0. /\ DOMAIN queue = 1..Len(queue) /\ Len(queue) \in Nat /\ queue \in Seq(SensorEvent)
        /\ Governance \subseteq Orders /\ Orders \cap Goals = {}
    BY OrderAssumption DEF TypeOK
  <1>1. CASE TakeResource
    BY <1>1, SweptTaken DEF TakeResource, Taken
  <1>2. CASE Suppress
    BY <1>2, SweptTaken DEF Suppress, Taken
  <1>3. CASE Dispatch
    BY <1>3, SweptTaken DEF Dispatch, Taken
  <1>4. CASE Started
    <2>1. /\ DOMAIN queue' = DOMAIN queue
          /\ \A i \in DOMAIN queue :
               /\ queue'[i].kind = queue[i].kind
               /\ queue[i].kind # "tick" => queue'[i].slots \subseteq queue[i].slots
          /\ Slots(queue') \subseteq Slots(queue) \cup Goals
          /\ pending' \subseteq pending
      BY <1>4, MarkedQueue DEF Started, TypeOK, Coord
    <2>2. UNCHANGED <<enabled, slipped>>
      BY <1>4 DEF Started
    <2>3. SlotsInTicks'
      BY <2>1 DEF SweepInv, SlotsInTicks
    <2>4. Ticks' # {} => Ticks # {}
      BY <2>1 DEF Ticks
    <2>5. Governance \cap (pending' \cup Slots(queue')) \subseteq pending \cup Slots(queue)
      BY <1>0, <2>1
    <2> QED BY <2>2, <2>3, <2>4, <2>5, SweptKept DEF SweepInv
  <1>5. CASE Tick
    <2>1. PICK F \in SUBSET Sweep :
            /\ queue' = Append(Without(Sweep \ F), [kind |-> "tick", session |-> Schedule,
                                                    slots |-> fresh \ (Sweep \ F)])
            /\ pending' = pending \ (Sweep \ F)
            /\ slipped' = (slipped \ (Sweep \ F)) \cup F
      BY <1>5 DEF Tick
    <2> DEFINE M == Sweep \ F
    <2>2. /\ DOMAIN queue' = 1..(Len(queue) + 1)
          /\ \A i \in DOMAIN queue : /\ queue'[i].kind = queue[i].kind
                                     /\ queue'[i].slots = queue[i].slots \ M
          /\ queue'[Len(queue) + 1].kind = "tick"
          /\ Slots(queue') = (Slots(queue) \cup fresh) \ M
      BY <1>5, <2>1, TickQueue DEF Tick
    <2>3. SlotsInTicks'
      <3> SUFFICES ASSUME NEW i \in DOMAIN queue', queue'[i].kind # "tick"
                   PROVE  queue'[i].slots = {}
        BY DEF SlotsInTicks
      <3>1. i \in DOMAIN queue
        BY <1>0, <2>2
      <3>2. queue[i].slots = {} /\ queue'[i].slots = queue[i].slots \ M
        BY <2>2, <3>1 DEF SweepInv, SlotsInTicks
      <3> QED BY <3>2
    <2>4. Queued = Slots(queue) /\ enabled' = enabled
      BY <1>5, QueueForms DEF Tick
    <2>5. Governance \cap enabled \cap (pending' \cup Slots(queue')) \subseteq F
      BY <2>1, <2>2, <2>4 DEF Sweep
    <2>6. SweptBeforeTicks'
      BY <2>1, <2>4, <2>5, QueueForms DEF SweptBeforeTicks
    <2> QED BY <2>3, <2>6 DEF SweepInv
  <1>6. ASSUME NEW e \in SensorEvent, Publish(e), e.kind # "tick", e.slots = {},
               UNCHANGED <<enabled, pending, slipped>>
        PROVE  SweepInv'
    <2>1. /\ DOMAIN queue' = 1..(Len(queue) + 1)
          /\ \A i \in DOMAIN queue : queue'[i] = queue[i]
          /\ queue'[Len(queue) + 1] = e
          /\ Slots(queue') = Slots(queue) \cup e.slots
      BY <1>6, PublishQueue
    <2>2. \A i \in DOMAIN queue' : i \in DOMAIN queue \/ i = Len(queue) + 1
      BY <1>0, <2>1
    <2>3. SlotsInTicks'
      BY <1>6, <2>1, <2>2 DEF SweepInv, SlotsInTicks
    <2>4. Ticks' # {} => Ticks # {}
      BY <1>6, <2>1, <2>2 DEF Ticks
    <2> QED BY <1>6, <2>1, <2>3, <2>4, SweptKept DEF SweepInv
  <1>7. CASE Sense
    <2>1. PICK e \in SensorEvent : Publish(e) /\ e.kind # "tick" /\ e.slots = {}
      BY <1>7, ValueTypes, PolicyAssumption DEF Sense, Kinds, Event
    <2> QED BY <1>6, <1>7, <2>1 DEF Sense
  <1>8. CASE SensePressure
    <2>1. PICK e \in SensorEvent : Publish(e) /\ e.kind # "tick" /\ e.slots = {}
      BY <1>8, ValueTypes, SessionAssumption DEF SensePressure, Kinds, Event
    <2> QED BY <1>6, <1>8, <2>1 DEF SensePressure
  <1>9. CASE Start \/ StartAgain
    <2>1. Registered
      BY <1>9 DEF Start, StartAgain
    <2>2. /\ \A i \in DOMAIN queue : /\ queue'[i].kind = queue[i].kind
                                     /\ queue'[i].slots \subseteq queue[i].slots
          /\ \A i \in DOMAIN queue' \ DOMAIN queue : queue'[i].kind = "resume" /\ queue'[i].slots = {}
      BY <2>1, RegisteredQueue
    <2>3. SlotsInTicks'
      BY <2>2 DEF SweepInv, SlotsInTicks
    <2>4. Ticks' # {} => Ticks # {}
      BY <2>2 DEF Ticks
    <2>5. Ticks # {} => Governance \subseteq slipped'
      BY <2>1 DEF Registered
    <2> QED BY <2>3, <2>4, <2>5 DEF SweepInv, SweptBeforeTicks
  <1>10. CASE Stop \/ Crash \/ CrashMarking
    <2>1. queue' = <<>>
      BY <1>10 DEF Stop, Crash, CrashMarking, Down
    <2>2. DOMAIN queue' = {}
      BY <2>1
    <2>3. Ticks' = {}
      BY <2>2 DEF Ticks
    <2> QED BY <2>2, <2>3 DEF SweepInv, SlotsInTicks, SweptBeforeTicks
  <1>11. CASE Enable
    <2>1. UNCHANGED <<pending, queue>>
      BY <1>11 DEF Enable
    <2>2. PICK j \in Orders \cup Goals :
            /\ enabled' = enabled \cup {j}
            /\ slipped' = IF Ticks = {} THEN slipped ELSE slipped \cup ({j} \cap Governance)
      BY <1>11 DEF Enable
    <2>3. Ticks' = Ticks /\ Queued' = Queued /\ SlotsInTicks'
      BY <2>1 DEF Ticks, Queued, SweepInv, SlotsInTicks
    <2> QED BY <2>1, <2>2, <2>3 DEF SweepInv, SweptBeforeTicks
  <1>12. CASE Create
    <2>1. PICK j \in (Orders \cup Goals) \ Governance :
            /\ enabled' = enabled \cup {j}
            /\ pending' = (pending \ {j}) \cup ({j} \cap Goals)
            /\ queue' = Minus(queue, {j})
            /\ slipped' = slipped
      BY <1>12, QueueForms DEF Create
    <2>2. /\ DOMAIN queue' = DOMAIN queue
          /\ \A i \in DOMAIN queue : /\ queue'[i].kind = queue[i].kind
                                     /\ queue'[i].slots = queue[i].slots \ {j}
          /\ Slots(queue') = Slots(queue) \ {j}
      BY <1>0, <2>1, MinusOfQueue
    <2>3. SlotsInTicks'
      BY <2>2 DEF SweepInv, SlotsInTicks
    <2>4. Ticks' # {} => Ticks # {}
      BY <2>2 DEF Ticks
    <2>5. Governance \cap enabled' \cap (pending' \cup Slots(queue'))
            \subseteq enabled \cap (pending \cup Slots(queue))
      BY <1>0, <2>1, <2>2
    <2> QED BY <2>1, <2>3, <2>4, <2>5, SweptKept DEF SweepInv
  <1>13. CASE Disable
    <2>1. enabled' \subseteq enabled /\ UNCHANGED <<pending, queue, slipped>>
      BY <1>13 DEF Disable
    <2>2. Ticks' = Ticks /\ Queued' = Queued /\ SlotsInTicks'
      BY <2>1 DEF Ticks, Queued, SweepInv, SlotsInTicks
    <2> QED BY <2>1, <2>2 DEF SweepInv, SweptBeforeTicks
  <1>14. CASE UNCHANGED <<enabled, pending, queue, slipped>>
    <2>1. Ticks' = Ticks /\ Queued' = Queued /\ SlotsInTicks'
      BY <1>14 DEF Ticks, Queued, SweepInv, SlotsInTicks
    <2> QED BY <1>14, <2>1 DEF SweepInv, SweptBeforeTicks
  <1> QED BY <1>1, <1>2, <1>3, <1>4, <1>5, <1>7, <1>8, <1>9, <1>10, <1>11, <1>12, <1>13, <1>14
          DEF Next, Coordinates, Senses, Lives, World, StartFails, StartStrands, StartedUnmarked,
              SlotArrives,
              Expire, UserRun, EndRun, StrandRun, vars

-----------------------------------------------------------------------------
(* The theorems.                                                           *)

\* The conjunction of the named parts is inductive, whatever the orders, the goals, the
\* sessions, the limits of the policy and the thresholds of the sensor.
THEOREM InductiveInvariant == Spec => []Inv
  <1>1. Init => Inv
    <2> SUFFICES ASSUME Init PROVE Inv
      OBVIOUS
    <2> USE DEF Init
    <2>1. TypeOK
      <3>1. queue \in Seq(SensorEvent) /\ Len(queue) <= MaxQueue
        BY BoundAssumption
      <3>2. window \in Seq(BOOLEAN)
        OBVIOUS
      <3>3. faults \in 0..MaxFaults /\ coord \in Coord /\ enabled \subseteq Orders \cup Goals
        BY OrderAssumption, BoundAssumption, ValueTypes
      <3> QED BY <3>1, <3>2, <3>3 DEF TypeOK
    <2>2. DOMAIN queue = {} /\ DOMAIN window = {} /\ Idle.step = "idle"
      BY DEF Idle
    <2>3. Ticks = {}
      BY <2>2 DEF Ticks
    <2> QED BY <2>1, <2>2, <2>3
            DEF Inv, SlotKept, PendingIsDue, StartingIsDue, SlotRunOnce, SlotsInTicks,
                SweptBeforeTicks, StartingHasRoom, Throttled, LastIsSensed, PressureFollows
  <1>2. Inv /\ [Next]_vars => Inv'
    BY TypeStep, SlotStep, SweepStep, ThrottleStep, PressureStep
       DEF Inv, SlotInv, SweepInv, ThrottleInv, PressureInv
  <1> QED BY <1>1, <1>2, PTL DEF Spec

\* Every variable of the daemon, of policy.json and of the histories keeps its type.
THEOREM TypeCorrect == Spec => []TypeOK
  <1>1. Inv => TypeOK
    BY DEF Inv
  <1> QED BY <1>1, InductiveInvariant, PTL

\* A slot of an order or a goal of the operator stays due until a run for it has started:
\* dropped events, throttles, failed starts, stops and crashes lose none.
THEOREM SlotsAreKept == Spec => []SlotKept
  <1>1. Inv => SlotKept
    BY DEF Inv
  <1> QED BY <1>1, InductiveInvariant, PTL

\* A slot is run at most once, but for the jobs whose mark failed, whose order was
\* registered anew, or that a sweep marked while a run for it was starting.
THEOREM SlotsRunOnce == Spec => []SlotRunOnce
  <1>1. Inv => SlotRunOnce
    BY DEF Inv
  <1> QED BY <1>1, InductiveInvariant, PTL

\* The window never holds a run that is no recovery beyond the limit of the policy.
THEOREM DispatchesThrottled == Spec => []Throttled
  <1>1. Inv => Throttled
    BY DEF Inv
  <1> QED BY <1>1, InductiveInvariant, PTL

\* The engine suppresses runs exactly while the sensor last saw pressure, once it has
\* taken what the sensor published, unless the last change could not be recorded.
THEOREM PressureIsFollowed == Spec => []PressureFollows
  <1>1. Inv => PressureFollows
    BY DEF Inv
  <1> QED BY <1>1, InductiveInvariant, PTL

\* No run of the agent is started for a governance order, unless it slipped past its sweep.
THEOREM GovernanceStaysInternal == Spec => SweepsStayInternal
  <1>1. Inv /\ [Next]_vars =>
          [coord.step = "idle" /\ coord'.step = "starting" =>
             coord'.job \notin Governance \ slipped]_vars
    <2> SUFFICES ASSUME Inv, Next, coord.step = "idle", coord'.step = "starting"
                 PROVE  coord'.job \notin Governance \ slipped
      OBVIOUS
    <2>1. Idle.step = "idle"
      BY DEF Idle
    <2>2. Dispatch
      BY <2>1 DEF Next, Coordinates, Senses, Lives, World, TakeResource, Suppress, StartFails, StartStrands,
            Started, StartedUnmarked, Tick, Sense, SensePressure, Start, StartAgain, Stop, Crash, CrashMarking,
            Down, SlotArrives, Expire, UserRun, EndRun, StrandRun, Disable, Enable, Create, daemon
    <2>3. PICK j \in Chosen(Head(queue)) : coord'.job = j
      BY <2>2 DEF Dispatch, Starting
    <2>4. SUFFICES ASSUME j \in Governance, Head(queue).kind # "resume" PROVE j \in slipped
      <3>1. j \in Governance => j # Direct
        BY OrderAssumption
      <3> QED BY <2>3, <2>4, <3>1 DEF Chosen
    <2>5. /\ Head(queue) = queue[1] /\ 1 \in DOMAIN queue
          /\ Slots(queue) = Head(queue).slots \cup Slots(Tail(queue))
      BY <2>2, TailOfQueue DEF Dispatch, Ready, Inv, TypeOK
    <2>6. Head(queue).kind = "tick" /\ j \in enabled \cap (pending \cup Head(queue).slots)
      BY <2>3, <2>4, OrderAssumption DEF Chosen, DueOrders, DueGoals, DueAt
    <2>7. Ticks # {}
      BY <2>5, <2>6 DEF Ticks
    <2> QED BY <2>4, <2>5, <2>6, <2>7, QueueForms DEF Inv, SweptBeforeTicks
  <1> QED BY <1>1, InductiveInvariant, PTL DEF Spec, SweepsStayInternal
-----------------------------------------------------------------------------
(* What the guards of the coordinator count.                               *)

\* A session at work is seen to be running, and the coordinator starts a run only where
\* none is.
GuardInv ==
  /\ live \subseteq running
  /\ coord.step = "starting" => coord.session \notin running

\* A step that changes no run changes no count.
LEMMA SameRuns ==
  ASSUME UNCHANGED runs
  PROVE  UNCHANGED Counted!counted
  BY DEF runs, Counted!counted, Active

\* How many runs a session more, or a session less, makes.
LEMMA LiveSizes ==
  ASSUME TypeOK
  PROVE  /\ Cardinality(live) \in Nat /\ Cardinality({}) = 0 /\ lost \in Nat
         /\ \A s : s \notin live => Cardinality(live \cup {s}) = Cardinality(live) + 1
         /\ \A s : s \in live => Cardinality(live \ {s}) = Cardinality(live) - 1
  <1>1. IsFiniteSet(live)
    BY SessionAssumption, FS_Subset DEF TypeOK
  <1>2. Cardinality(live) \in Nat /\ Cardinality({}) = 0 /\ lost \in Nat
    BY <1>1, FS_CardinalityType, FS_EmptySet DEF TypeOK
  <1>3. ASSUME NEW s, s \notin live PROVE Cardinality(live \cup {s}) = Cardinality(live) + 1
    BY <1>1, <1>3, FS_AddElement
  <1>4. ASSUME NEW s, s \in live PROVE Cardinality(live \ {s}) = Cardinality(live) - 1
    BY <1>1, <1>4, FS_RemoveElement
  <1> QED BY <1>2, <1>3, <1>4

LEMMA GuardStep == TypeOK /\ GuardInv /\ [Next]_vars => GuardInv'
  <1> SUFFICES ASSUME TypeOK, GuardInv, [Next]_vars PROVE GuardInv'
    OBVIOUS
  <1> USE DEF GuardInv
  <1>0. Idle.step # "starting"
    BY DEF Idle
  <1>1. CASE Dispatch
    <2>1. PICK j \in Chosen(Head(queue)) :
            Free(j, Head(queue)) /\ coord' = Starting(j, Head(queue))
      BY <1>1 DEF Dispatch
    <2>2. coord'.session \notin running
      BY <2>1 DEF Free, Starting
    <2> QED BY <1>1, <2>2 DEF Dispatch, runs
  <1>2. CASE Started \/ StartedUnmarked
    BY <1>0, <1>2 DEF Started, StartedUnmarked, StartedIn
  <1>8. CASE StartStrands
    BY <1>0, <1>8 DEF StartStrands
  <1>3. CASE Stop \/ Crash \/ CrashMarking
    BY <1>0, <1>3 DEF Stop, Crash, CrashMarking, Down, Died, RunsTorn, runs
  <1>4. CASE UserRun
    BY <1>4 DEF UserRun, StartedIn, daemon
  <1>5. CASE EndRun \/ StrandRun
    BY <1>5 DEF EndRun, StrandRun, daemon
  <1>6. CASE StartFails
    BY <1>0, <1>6 DEF StartFails, runs
  <1>7. CASE UNCHANGED <<coord, runs>>
    BY <1>7 DEF runs
  <1> QED BY <1>1, <1>2, <1>3, <1>4, <1>5, <1>6, <1>7, <1>8
          DEF Next, Coordinates, Senses, Lives, World, TakeResource, Suppress, Tick, Sense,
              SensePressure, Start, StartAgain, SlotArrives, Expire, Disable, Enable, Create,
              daemon, vars

\* A run starts where none is at work.
LEMMA StartBegins ==
  ASSUME TypeOK, NEW s \in Sessions, s \notin live, StartedIn(s)
  PROVE  Counted!Begins(s)
  <1>1. Cardinality(live') = Cardinality(live) + 1
    BY LiveSizes DEF StartedIn
  <1>2. Active' = Active + 1
    BY <1>1, LiveSizes DEF Active, StartedIn
  <1> QED BY <1>2 DEF Counted!Begins, StartedIn

LEMMA CountStep == TypeOK /\ GuardInv /\ [Next]_vars => [Counted!Change]_Counted!counted
  <1> SUFFICES ASSUME TypeOK, GuardInv, [Next]_vars PROVE [Counted!Change]_Counted!counted
    OBVIOUS
  <1>0. coord.session \in Sessions /\ live \subseteq Sessions
    BY DEF TypeOK, Coord
  <1>1. CASE Started \/ StartedUnmarked
    <2>1. StartedIn(coord.session) /\ coord.session \notin live
      BY <1>1 DEF Started, StartedUnmarked, GuardInv
    <2> QED BY <1>0, <2>1, StartBegins DEF Counted!Change
  <1>2. CASE UserRun
    BY <1>2, StartBegins DEF UserRun, Counted!Change
  <1>3. CASE EndRun
    <2>1. PICK s \in live : running' = running \ {s} /\ live' = live \ {s} /\ UNCHANGED lost
      BY <1>3 DEF EndRun
    <2>2. Active' = Active - 1
      BY <2>1, LiveSizes DEF Active
    <2>3. Counted!Ends(s)
      BY <2>1, <2>2 DEF Counted!Ends
    <2> QED BY <1>0, <2>3 DEF Counted!Change
  <1>4. CASE StrandRun
    <2>1. PICK s \in live : live' = live \ {s} /\ lost' = lost + 1 /\ UNCHANGED running
      BY <1>4 DEF StrandRun
    <2>2. Active' = Active
      BY <2>1, LiveSizes DEF Active
    <2>3. Counted!Strands(s)
      BY <2>1, <2>2 DEF Counted!Strands
    <2> QED BY <1>0, <2>3 DEF Counted!Change
  <1>5. CASE Crash
    <2>1. CASE Died(live)
      <3>1. live' = {} /\ lost' = lost + Cardinality(live) /\ UNCHANGED running
        BY <2>1 DEF Died, GuardInv
      <3>2. Active' = Active
        BY <3>1, LiveSizes DEF Active
      <3> QED BY <3>1, <3>2 DEF Counted!Change, Counted!Dies
    <2>2. CASE RunsTorn
      <3>1. Active' = 0
        BY <2>2, LiveSizes DEF RunsTorn, Active
      <3> QED BY <2>2, <3>1 DEF RunsTorn, Counted!Change, Counted!Dies
    <2> QED BY <1>5, <2>1, <2>2 DEF Crash
  <1>6. CASE CrashMarking
    <2>1. /\ live' = {} /\ lost' = lost + Cardinality(live \cup {coord.session})
          /\ running' = running \cup {coord.session} /\ coord.session \notin live
      BY <1>6 DEF CrashMarking, Died, GuardInv
    <2>2. Active' = Active + 1
      BY <2>1, LiveSizes DEF Active
    <2>3. Counted!DiesBeginning(coord.session)
      BY <2>1, <2>2 DEF Counted!DiesBeginning
    <2> QED BY <1>0, <2>3 DEF Counted!Change
  <1>8. CASE StartStrands
    <2>1. Active' = Active + 1
      BY <1>8, LiveSizes DEF StartStrands, Active
    <2>2. Counted!BeginsStranded(coord.session)
      BY <1>8, <2>1 DEF StartStrands, Counted!BeginsStranded
    <2> QED BY <1>0, <2>2 DEF Counted!Change
  <1>7. CASE UNCHANGED runs
    BY <1>7, SameRuns
  <1> QED BY <1>1, <1>2, <1>3, <1>4, <1>5, <1>6, <1>7, <1>8
          DEF Next, Coordinates, Senses, Lives, World, TakeResource, Suppress, Dispatch, StartFails,
              Tick, Sense, SensePressure, Start, StartAgain, Stop, SlotArrives, Expire, Disable,
              Enable, Create, runs, vars

\* Autonomy implements SessionRuns: what the guards of the coordinator read of the runs
\* changes in Autonomy only as it does in the life cycle of the runs themselves.
THEOREM CountsTheRuns == Spec => CountsRuns
  <1>1. Init => GuardInv /\ Counted!Begin
    <2> SUFFICES ASSUME Init PROVE GuardInv /\ Counted!Begin
      OBVIOUS
    <2>1. live = {} /\ running = {} /\ lost = 0 /\ coord.step # "starting"
      BY DEF Init, Idle
    <2>2. Active = 0
      BY <2>1, FS_EmptySet DEF Active
    <2> QED BY <2>1, <2>2 DEF GuardInv, Counted!Begin
  <1> QED BY <1>1, GuardStep, CountStep, TypeCorrect, PTL DEF Spec, CountsRuns, Counted!Counting
=============================================================================
