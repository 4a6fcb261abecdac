------------------------- MODULE TaskContractProofs -------------------------
(***************************************************************************)
(* Theorems about TaskContract, for every value of its constants.  AnyInv  *)
(* is inductive.  EvidenceInv (what was rendered, sent and closed) is       *)
(* inductive beside it, and CurrentInv (every copy is as old as it says)    *)
(* until a save is written in the window of another: after an overlap a     *)
(* stale copy may have been stored over a newer one.                        *)
(***************************************************************************)
EXTENDS TaskContract, TLAPS

Working(c) == cl[c].pc \in {"rendering", "dispatching", "sending"}
Dispatching(c) == cl[c].pc \in {"dispatching", "sending"}
Keeping(c) == cl[c].pc \in {"saving", "writing"}
SendingKey(c, k) == cl[c].pc = "sending" /\ cl[c].key = k

AnySent(p) == \E k \in Keys : k[1] = p /\ sent[k] > 0
ChannelsSent(p) ==
    \A ch \in MissionChannels : \E k \in Keys : k[1] = p /\ k[3] = ch /\ sent[k] > 0

(* What holds of the stored bundle and of every copy. *)
VerdictOK(b) ==
    /\ b.status \in {"review", "closed"} => b.autoRuns # {}
    /\ b.verdict.kind = "auto" => b.autoRuns # {}
PackOK(p) == p.status = "dispatched" /\ p.id \notin recorded => AnySent(p.id)

BundleInv ==
    /\ VerdictOK(stored) /\ PackOK(stored.pack)
    /\ \A c \in Clients : VerdictOK(cl[c].b) /\ PackOK(cl[c].b.pack)

WorkInv == \A c \in Clients :
    /\ Working(c) => cl[c].b.version < MaxVersion
    /\ Dispatching(c) =>
         /\ \A k \in cl[c].todo : k[1] = cl[c].b.pack.id
         /\ cl[c].reached # {} => AnySent(cl[c].b.pack.id)
    /\ cl[c].pc = "verifying" => cl[c].run \in Runs
    /\ cl[c].pc = "rendering" => cl[c].slot \in Slots
    /\ cl[c].pc = "sending" =>
         /\ cl[c].key \in cl[c].todo
         /\ cl[c].key[2] \in cl[c].b.pack.rendered

SendInv ==
    /\ \A k \in logged : sent[k] > 0
    /\ \A k \in Keys \ doubt :
         /\ sent[k] \in {0, 1}
         /\ sent[k] = 1 => k \in logged
         /\ \A c \in Clients : SendingKey(c, k) =>
              k \notin logged /\ \A d \in Clients : SendingKey(d, k) => d = c

AnyInv == TypeOK /\ BundleInv /\ WorkInv /\ SendInv

-----------------------------------------------------------------------------
(* Types, and what becomes of the record of a client.                      *)

LEMMA ClientType ==
    ASSUME TypeOK, NEW c \in Clients
    PROVE  /\ cl[c] \in Client /\ cl[c].b \in Bundle /\ cl[c].b.pack \in Pack
           /\ cl[c].pc \in Phases /\ cl[c].todo \subseteq Keys /\ cl[c].reached \subseteq Slots
           /\ cl[c].b.version \in Nat /\ cl[c].b.pack.id \in Nat
BY BoundAssumption DEF TypeOK, Client, Bundle, Pack, PackIds

LEMMA StoredType ==
    ASSUME TypeOK
    PROVE  /\ stored \in Bundle /\ stored.pack \in Pack
           /\ stored.version \in Nat /\ stored.pack.id \in Nat /\ nextPack \in Nat
BY BoundAssumption DEF TypeOK, Bundle, Pack, PackIds

LEMMA NoBundleType == NoBundle \in Bundle
<1>1. NoPack \in Pack
    BY DEF NoPack, Pack, PackStatus
<1>2. NoVerdict \in Verdict
    BY DEF NoVerdict, Verdict, Results
<1> QED BY <1>1, <1>2, BoundAssumption DEF NoBundle, Bundle, Statuses

LEMMA IdleType == Idle \in Client
BY NoBundleType, BoundAssumption DEF Idle, Client, Phases

LEMMA TouchedType ==
    ASSUME NEW b \in Bundle, b.version < MaxVersion
    PROVE  /\ Touched(b) \in Bundle
           /\ Touched(b).version = b.version + 1
           /\ Touched(b).status = b.status /\ Touched(b).autoRuns = b.autoRuns
           /\ Touched(b).verdict = b.verdict /\ Touched(b).mission = b.mission
           /\ Touched(b).pack = b.pack
<1>1. Touched(b) = [status |-> b.status, version |-> b.version + 1,
                    deliverables |-> b.deliverables, minPass |-> b.minPass,
                    mission |-> b.mission, verdict |-> b.verdict, autoRuns |-> b.autoRuns,
                    pack |-> b.pack]
    BY DEF Touched, Bundle
<1>2. b.version + 1 \in 0..MaxVersion
    BY BoundAssumption DEF Bundle
<1> QED BY <1>1, <1>2 DEF Bundle

(* SaveAs: the client goes on to save the touched b. *)
LEMMA SaveAsOp ==
    ASSUME TypeOK, NEW c \in Clients, NEW b \in Bundle, b.version < MaxVersion,
           NEW closes \in BOOLEAN, SaveAs(c, b, closes)
    PROVE  /\ cl' \in [Clients -> Client]
           /\ \A d \in Clients : d # c => cl'[d] = cl[d]
           /\ cl'[c].pc = "saving" /\ cl'[c].b = Touched(b) /\ cl'[c].closes = closes
<1>1. cl'[c] = [pc |-> "saving", expected |-> 0, run |-> NoRun, b |-> Touched(b), slot |-> NoRun,
                todo |-> {}, key |-> NoRun, reached |-> {}, refused |-> FALSE, approved |-> FALSE,
                closes |-> closes]
    BY DEF SaveAs, TypeOK, Idle
<1>2. cl'[c] \in Client
    BY <1>1, TouchedType, BoundAssumption DEF Client, Phases
<1> QED BY <1>1, <1>2 DEF SaveAs, TypeOK

(* The client gives up, or is done. *)
LEMMA ToIdleOp ==
    ASSUME TypeOK, NEW c \in Clients, cl' = [cl EXCEPT ![c] = Idle]
    PROVE  /\ cl' \in [Clients -> Client]
           /\ \A d \in Clients : d # c => cl'[d] = cl[d]
           /\ cl'[c] = Idle /\ cl'[c].pc = "idle" /\ cl'[c].b = NoBundle
BY IdleType DEF TypeOK, Idle

-----------------------------------------------------------------------------
(* What holds of every copy and of the stored bundle.                      *)

(* A client starts over or goes on to save a bundle that is in order. *)
LEMMA SettleAny ==
    ASSUME AnyInv, NEW c \in Clients, NEW b \in Bundle,
           cl' \in [Clients -> Client], \A d \in Clients : d # c => cl'[d] = cl[d],
           cl'[c].pc \in {"idle", "viewed", "verifying", "saving", "writing"}, cl'[c].b = b,
           cl'[c].pc = "verifying" => cl'[c].run \in Runs,
           VerdictOK(b),
           b.pack.status = "dispatched" /\ b.pack.id \notin recorded' => AnySent(b.pack.id),
           UNCHANGED <<stored, logged, sent, doubt, renderings, closedPack, overlaps>>,
           nextPack' \in 1..(MaxPacks + 1), recorded \subseteq recorded',
           recorded' \subseteq PackIds
    PROVE  AnyInv'
<1> USE DEF AnyInv
<1>1. TypeOK'
    BY DEF TypeOK
<1>2. BundleInv'
  <2>1. VerdictOK(stored)' /\ PackOK(stored.pack)'
      BY DEF BundleInv, VerdictOK, PackOK, AnySent
  <2>2. ASSUME NEW d \in Clients PROVE VerdictOK(cl[d].b)' /\ PackOK(cl[d].b.pack)'
    <3>1. CASE d = c
        BY <3>1 DEF VerdictOK, PackOK, AnySent
    <3>2. CASE d # c
        BY <3>2 DEF BundleInv, VerdictOK, PackOK, AnySent
    <3> QED BY <3>1, <3>2
  <2> QED BY <2>1, <2>2 DEF BundleInv
<1>3. WorkInv'
  <2>1. ASSUME NEW d \in Clients, (Working(d) \/ Dispatching(d) \/ cl[d].pc = "sending")'
        PROVE  cl'[d] = cl[d]
      BY <2>1 DEF Working, Dispatching
  <2>2. ASSUME NEW d \in Clients, cl'[d].pc = "verifying"
        PROVE  cl'[d].run \in Runs
      BY <2>2 DEF WorkInv
  <2> QED BY <2>1, <2>2 DEF WorkInv, Working, Dispatching, AnySent
<1>4. SendInv'
  <2>1. ASSUME NEW d \in Clients, NEW k, SendingKey(d, k)' PROVE SendingKey(d, k)
      BY <2>1 DEF SendingKey
  <2> QED BY <2>1 DEF SendInv
<1> QED BY <1>1, <1>2, <1>3, <1>4

(* The same, through SaveAs. *)
LEMMA SaveAsAny ==
    ASSUME AnyInv, NEW c \in Clients, NEW b \in Bundle, b.version < MaxVersion,
           NEW closes \in BOOLEAN, SaveAs(c, b, closes),
           VerdictOK(b),
           b.pack.status = "dispatched" /\ b.pack.id \notin recorded' => AnySent(b.pack.id),
           UNCHANGED <<stored, logged, sent, doubt, renderings, closedPack, overlaps>>,
           nextPack' \in 1..(MaxPacks + 1), recorded \subseteq recorded',
           recorded' \subseteq PackIds
    PROVE  AnyInv'
<1> DEFINE t == Touched(b)
<1>1. /\ t \in Bundle /\ t.status = b.status /\ t.autoRuns = b.autoRuns
      /\ t.verdict = b.verdict /\ t.pack = b.pack
    BY TouchedType
<1>2. /\ cl' \in [Clients -> Client]
      /\ \A d \in Clients : d # c => cl'[d] = cl[d]
      /\ cl'[c].pc = "saving" /\ cl'[c].b = t
    BY SaveAsOp DEF AnyInv
<1>3. VerdictOK(t)
    BY <1>1 DEF VerdictOK
<1> HIDE DEF t
<1> QED BY <1>1, <1>2, <1>3, SettleAny

(* A client gives up. *)
LEMMA ToIdleAny ==
    ASSUME AnyInv, NEW c \in Clients, cl' = [cl EXCEPT ![c] = Idle],
           UNCHANGED <<stored, nextPack, logged, sent, doubt, recorded, renderings, closedPack, overlaps>>
    PROVE  AnyInv'
<1>1. /\ cl' \in [Clients -> Client]
      /\ \A d \in Clients : d # c => cl'[d] = cl[d]
      /\ cl'[c].pc = "idle" /\ cl'[c].b = NoBundle
    BY ToIdleOp DEF AnyInv
<1>2. VerdictOK(NoBundle) /\ NoBundle.pack.status # "dispatched"
    BY DEF VerdictOK, NoBundle, NoVerdict, NoPack
<1> QED BY <1>1, <1>2, NoBundleType, SettleAny DEF AnyInv, TypeOK

(* A client that is idle reads the contract, but keeps no copy. *)
LEMMA ReadAny ==
    ASSUME AnyInv, NEW c \in Clients, View(c) \/ StartVerifier(c)
    PROVE  AnyInv'
<1>1. /\ cl[c].b \in Bundle /\ cl[c] \in Client /\ stored \in Bundle
      /\ stored.version \in 0..MaxVersion /\ cl[c].expected \in 0..MaxVersion
      /\ cl[c].run \in Runs \cup {NoRun}
    BY ClientType, StoredType DEF AnyInv, Client, Bundle
<1>2. PICK p \in {"viewed", "verifying"}, n \in 0..MaxVersion, r \in Runs \cup {NoRun} :
        /\ cl' = [cl EXCEPT ![c] = [cl[c] EXCEPT !.pc = p, !.expected = n, !.run = r]]
        /\ p = "verifying" => r \in Runs
  <2>1. CASE View(c)
    <3>1. cl' = [cl EXCEPT ![c] = [cl[c] EXCEPT !.pc = "viewed", !.expected = stored.version,
                                                !.run = cl[c].run]]
        BY <2>1, <1>1 DEF View, AnyInv, TypeOK, Client
    <3> QED BY <3>1, <1>1
  <2>2. CASE StartVerifier(c)
    <3>1. PICK r \in Runs : cl' = [cl EXCEPT ![c].pc = "verifying", ![c].run = r]
        BY <2>2 DEF StartVerifier
    <3>2. cl' = [cl EXCEPT ![c] = [cl[c] EXCEPT !.pc = "verifying", !.expected = cl[c].expected,
                                                !.run = r]]
        BY <3>1, <1>1 DEF AnyInv, TypeOK, Client
    <3> QED BY <3>2, <1>1
  <2> QED BY <2>1, <2>2
<1>3. /\ cl' \in [Clients -> Client]
      /\ \A d \in Clients : d # c => cl'[d] = cl[d]
      /\ cl'[c].pc = p /\ cl'[c].b = cl[c].b /\ (p = "verifying" => cl'[c].run \in Runs)
    BY <1>2, <1>1 DEF AnyInv, TypeOK, Client, Phases
<1>4. UNCHANGED <<stored, nextPack, logged, sent, doubt, recorded, renderings, closedPack, overlaps>>
    BY DEF View, StartVerifier, Outside, Saved
<1>5. VerdictOK(cl[c].b) /\ PackOK(cl[c].b.pack)
    BY DEF AnyInv, BundleInv
<1> DEFINE b == cl[c].b
<1>6. /\ b \in Bundle /\ VerdictOK(b) /\ cl'[c].b = b
      /\ b.pack.status = "dispatched" /\ b.pack.id \notin recorded' => AnySent(b.pack.id)
    BY <1>1, <1>3, <1>4, <1>5 DEF PackOK
<1> HIDE DEF b
<1> QED BY <1>3, <1>4, <1>6, SettleAny DEF AnyInv, TypeOK

(* What a client may load. *)
LEMMA LoadedAny ==
    ASSUME AnyInv
    PROVE  /\ stored \in Bundle /\ VerdictOK(stored) /\ PackOK(stored.pack)
           /\ nextPack \in 1..(MaxPacks + 1) /\ recorded \subseteq PackIds
BY StoredType DEF AnyInv, BundleInv, TypeOK

(* Bundles with another pack. *)
LEMMA PackedType ==
    ASSUME NEW b \in Bundle, NEW p \in Pack
    PROVE  LET e == [b EXCEPT !.pack = p]
           IN  /\ e \in Bundle /\ e.pack = p /\ e.version = b.version /\ e.status = b.status
               /\ e.autoRuns = b.autoRuns /\ e.verdict = b.verdict /\ e.mission = b.mission
BY DEF Bundle

(* Bundles with another verdict. *)
LEMMA VerdictType ==
    ASSUME NEW b \in Bundle, NEW v \in Verdict, v.kind = "auto" => v.run \in Runs
    PROVE  LET e == WithVerdict(b, v)
           IN  /\ e \in Bundle /\ e.pack = b.pack /\ e.version = b.version
               /\ e.status = b.status /\ e.mission = b.mission
               /\ b.autoRuns \subseteq e.autoRuns
               /\ e.verdict \in {b.verdict, v}
               /\ v.kind = "auto" => e.autoRuns # {}
<1> DEFINE f == Effective(b.verdict, v)
           a == IF v.kind = "auto" THEN b.autoRuns \cup {v.run} ELSE b.autoRuns
<1>1. WithVerdict(b, v) = [b EXCEPT !.verdict = f, !.autoRuns = a]
    BY DEF WithVerdict
<1>2. f \in {b.verdict, v} /\ f \in Verdict
    BY DEF Effective, Bundle
<1>3. b.autoRuns \subseteq a /\ a \in SUBSET Runs /\ (v.kind = "auto" => a # {})
    BY DEF Bundle
<1> HIDE DEF f, a
<1> QED BY <1>1, <1>2, <1>3 DEF Bundle

(* What the revisions of a contract come to: the client saves a bundle with the same *)
(* pack, and with another content, another status or another verdict.                *)
Revises(c, b, closes) ==
    /\ SaveAs(c, b, closes) /\ Readable
    /\ b \in Bundle /\ b.version = stored.version /\ b.pack = stored.pack
    /\ VerdictOK(b)
    /\ stored.autoRuns \subseteq b.autoRuns
    /\ b.status = stored.status \/ b.status \in Allowed[stored.status]
    /\ closes /\ b.mission => MissionSatisfied(b)
    /\ UNCHANGED <<stored, nextPack, logged, sent, doubt, recorded, renderings, closedPack, overlaps>>

Revision(c) == Update(c) \/ Close(c) \/ EditAssumption(c) \/ RecordReviewVerdict(c)
                 \/ RecordAutoVerdict(c)

LEMMA RevisionRevises ==
    ASSUME AnyInv, NEW c \in Clients, Revision(c)
    PROVE  \E b \in Bundle, closes \in BOOLEAN : Revises(c, b, closes)
<1> USE DEF Outside, Saved
<1>1. /\ stored \in Bundle /\ VerdictOK(stored)
      /\ stored.deliverables \in SUBSET Slots /\ stored.minPass \in BOOLEAN
      /\ stored.mission \in BOOLEAN /\ stored.status \in Statuses
    BY LoadedAny DEF Bundle
<1>2. ASSUME NEW d \in SUBSET Slots, NEW m \in BOOLEAN, NEW n \in BOOLEAN, NEW e,
             e = Patched(stored, d, m, n)
      PROVE  /\ e \in Bundle /\ e.pack = stored.pack /\ e.version = stored.version
             /\ e.status = stored.status /\ e.autoRuns = stored.autoRuns
             /\ e.verdict = stored.verdict
    BY <1>1, <1>2 DEF Patched, Bundle
<1>3. ASSUME NEW e \in Bundle, e.pack = stored.pack, e.version = stored.version,
             e.status = stored.status, e.autoRuns = stored.autoRuns, e.verdict = stored.verdict,
             NEW t \in Statuses, NEW r \in Runs \cup {NoRun}, ValidTransition(e, t, r),
             SaveAs(c, [e EXCEPT !.status = t], t = "closed"), Readable,
             UNCHANGED <<stored, nextPack, logged, sent, doubt, recorded, renderings, closedPack, overlaps>>
      PROVE  \E b \in Bundle, closes \in BOOLEAN : Revises(c, b, closes)
  <2> DEFINE g == [e EXCEPT !.status = t]
  <2>1. /\ g \in Bundle /\ g.pack = stored.pack /\ g.version = stored.version
        /\ g.status = t /\ g.autoRuns = stored.autoRuns /\ g.mission = e.mission
        /\ g.verdict = stored.verdict /\ g.deliverables = e.deliverables
      BY <1>3 DEF Bundle
  <2>2. t \in Allowed[stored.status]
      BY <1>3 DEF ValidTransition
  <2>3. t \in {"review", "closed"} => stored.autoRuns # {}
    <3>1. CASE t = "review"
      <4>1. e.status = "in_progress"
          BY <1>1, <1>3, <2>2, <3>1 DEF Allowed, Statuses
      <4> QED BY <1>1, <1>3, <3>1, <4>1 DEF ValidTransition, ReadyForReview, VerdictOK
    <3>2. CASE t = "closed"
      <4>1. stored.status = "review"
          BY <1>1, <2>2, <3>2 DEF Allowed, Statuses
      <4> QED BY <1>1, <4>1 DEF VerdictOK
    <3> QED BY <3>1, <3>2
  <2>4. VerdictOK(g)
      BY <1>1, <2>1, <2>3 DEF VerdictOK
  <2>5. t = "closed" /\ g.mission => MissionSatisfied(g)
      BY <1>3, <2>1 DEF ValidTransition, ReadyToClose, MissionSatisfied
  <2>6. SaveAs(c, g, t = "closed")
      BY <1>3
  <2> HIDE DEF g
  <2>7. Revises(c, g, t = "closed")
      BY <1>3, <2>1, <2>2, <2>4, <2>5, <2>6 DEF Revises
  <2>8. (t = "closed") \in BOOLEAN
      OBVIOUS
  <2> QED BY <2>1, <2>7, <2>8
<1>4. CASE Update(c)
  <2>1. PICK d \in SUBSET Slots, m \in BOOLEAN, n \in BOOLEAN :
          \/ ToSave(c, Patched(stored, d, m, n))
          \/ \E target \in Statuses, run \in Runs \cup {NoRun} :
               /\ ValidTransition(Patched(stored, d, m, n), target, run)
               /\ SaveAs(c, [Patched(stored, d, m, n) EXCEPT !.status = target],
                         target = "closed")
      BY <1>4 DEF Update
  <2> DEFINE e == Patched(stored, d, m, n)
  <2>0. /\ e \in Bundle /\ e.pack = stored.pack /\ e.version = stored.version
        /\ e.status = stored.status /\ e.autoRuns = stored.autoRuns
        /\ e.verdict = stored.verdict
      BY <1>2
  <2>2. /\ Readable
        /\ UNCHANGED <<stored, nextPack, logged, sent, doubt, recorded, renderings, closedPack, overlaps>>
      BY <1>4 DEF Update, Viewed
  <2> HIDE DEF e
  <2>3. CASE ToSave(c, e)
    <3>1. Revises(c, e, FALSE)
        BY <1>1, <2>0, <2>2, <2>3 DEF Revises, VerdictOK, ToSave
    <3> QED BY <2>0, <3>1
  <2>4. CASE \E t \in Statuses, r \in Runs \cup {NoRun} :
               ValidTransition(e, t, r) /\ SaveAs(c, [e EXCEPT !.status = t], t = "closed")
      BY <2>0, <2>2, <2>4, <1>3
  <2> QED BY <2>1, <2>3, <2>4 DEF e
<1>5. CASE Close(c)
  <2>1. "closed" \in Statuses
      BY DEF Statuses
  <2>2. SaveAs(c, [stored EXCEPT !.status = "closed"], "closed" = "closed")
      BY <1>5 DEF Close, SaveAs
  <2> QED BY <1>1, <1>5, <1>3, <2>1, <2>2 DEF Close, Viewed
<1>6. CASE EditAssumption(c)
  <2>1. Revises(c, stored, FALSE)
      BY <1>1, <1>6 DEF EditAssumption, Revises, Loads, ToSave
  <2> QED BY <1>1, <2>1
<1>7. ASSUME NEW v \in Verdict, v.kind = "auto" => v.run \in Runs, Readable,
             ToSave(c, WithVerdict(stored, v)),
             UNCHANGED <<stored, nextPack, logged, sent, doubt, recorded, renderings, closedPack, overlaps>>
      PROVE  \E b \in Bundle, closes \in BOOLEAN : Revises(c, b, closes)
  <2> DEFINE e == WithVerdict(stored, v)
  <2>1. /\ e \in Bundle /\ e.pack = stored.pack /\ e.version = stored.version
        /\ e.status = stored.status /\ stored.autoRuns \subseteq e.autoRuns
        /\ e.verdict \in {stored.verdict, v} /\ (v.kind = "auto" => e.autoRuns # {})
      BY <1>1, <1>7, VerdictType
  <2>2. VerdictOK(e)
      BY <1>1, <2>1 DEF VerdictOK, Bundle
  <2>3. SaveAs(c, e, FALSE)
      BY <1>7 DEF ToSave
  <2> HIDE DEF e
  <2>4. Revises(c, e, FALSE)
      BY <1>7, <2>1, <2>2, <2>3 DEF Revises
  <2> QED BY <2>1, <2>4
<1>8. CASE RecordReviewVerdict(c)
  <2>1. PICK k \in Reviewers, r \in Grades :
          ToSave(c, WithVerdict(stored, [kind |-> k, run |-> NoRun, result |-> r]))
      BY <1>8 DEF RecordReviewVerdict
  <2> DEFINE v == [kind |-> k, run |-> NoRun, result |-> r]
  <2>2. v \in Verdict /\ v.kind # "auto"
      BY VerdictAssumption DEF Verdict, Results
  <2> HIDE DEF v
  <2> QED BY <1>7, <1>8, <2>1, <2>2 DEF RecordReviewVerdict, Loads, v
<1>9. CASE RecordAutoVerdict(c)
  <2>1. PICK r \in Grades :
          ToSave(c, WithVerdict(stored, [kind |-> "auto", run |-> cl[c].run, result |-> r]))
      BY <1>9 DEF RecordAutoVerdict
  <2> DEFINE v == [kind |-> "auto", run |-> cl[c].run, result |-> r]
  <2>2. cl[c].run \in Runs
      BY <1>9 DEF RecordAutoVerdict, AnyInv, WorkInv
  <2>3. v \in Verdict /\ v.run \in Runs
      BY <2>2, VerdictAssumption DEF Verdict, Results
  <2> HIDE DEF v
  <2> QED BY <1>7, <1>9, <2>1, <2>3 DEF RecordAutoVerdict, v
<1> QED BY <1>4, <1>6, <1>8, <1>9, <1>5 DEF Revision

LEMMA RevisionAny ==
    ASSUME AnyInv, NEW c \in Clients, Revision(c)
    PROVE  AnyInv'
<1>1. PICK b \in Bundle, closes \in BOOLEAN : Revises(c, b, closes)
    BY RevisionRevises
<1>2. b.version < MaxVersion
    BY <1>1 DEF Revises, Readable
<1>3. b.pack.status = "dispatched" /\ b.pack.id \notin recorded' => AnySent(b.pack.id)
    BY <1>1, LoadedAny DEF Revises, PackOK
<1> QED BY <1>1, <1>2, <1>3, LoadedAny, SaveAsAny DEF Revises

(* What the work on delivery packs comes to: the client saves the bundle it loaded *)
(* with the pack p.                                                                *)
Repacks(c, old, p) ==
    /\ ToSave(c, [old EXCEPT !.pack = p])
    /\ old \in Bundle /\ old.version < MaxVersion /\ p \in Pack
    /\ VerdictOK(old)
    /\ p.status = "dispatched" /\ p.id \notin recorded' => AnySent(p.id)
    /\ nextPack' \in 1..(MaxPacks + 1) /\ recorded \subseteq recorded' /\ recorded' \subseteq PackIds
    /\ UNCHANGED <<stored, logged, sent, doubt, renderings, closedPack, overlaps>>

LEMMA RepackAny ==
    ASSUME AnyInv, NEW c \in Clients, NEW old, NEW p, Repacks(c, old, p)
    PROVE  AnyInv'
<1> DEFINE b == [old EXCEPT !.pack = p]
<1>1. /\ b \in Bundle /\ b.pack = p /\ b.version = old.version /\ b.status = old.status
      /\ b.autoRuns = old.autoRuns /\ b.verdict = old.verdict
    BY PackedType DEF Repacks
<1>2. SaveAs(c, b, FALSE)
    BY DEF Repacks, ToSave
<1> HIDE DEF b
<1>3. VerdictOK(b)
    BY <1>1 DEF Repacks, VerdictOK
<1> QED BY <1>1, <1>2, <1>3, SaveAsAny DEF Repacks

LEMMA BuildRepacks ==
    ASSUME AnyInv, NEW c \in Clients, BuildDeliveryPack(c)
    PROVE  \E s \in SUBSET Slots : Repacks(c, stored, NewPack(s))
<1>1. stored \in Bundle /\ VerdictOK(stored) /\ nextPack \in PackIds /\ recorded \subseteq PackIds
    BY LoadedAny, BoundAssumption DEF BuildDeliveryPack, PackIds
<1>2. PICK s \in SUBSET stored.deliverables : ToSave(c, [stored EXCEPT !.pack = NewPack(s)])
    BY DEF BuildDeliveryPack
<1>4. s \in SUBSET Slots
    BY <1>1 DEF Bundle
<1>5. NewPack(s) \in Pack /\ NewPack(s).status # "dispatched"
    BY <1>1, <1>4 DEF NewPack, Pack, PackStatus
<1>6. nextPack' \in 1..(MaxPacks + 1) /\ UNCHANGED <<stored, logged, sent, doubt, recorded, renderings, closedPack, overlaps>>
    BY <1>1, BoundAssumption DEF BuildDeliveryPack, Outside, Saved, PackIds
<1>8. Repacks(c, stored, NewPack(s))
    BY <1>1, <1>2, <1>5, <1>6 DEF Repacks, BuildDeliveryPack, Loads, Readable
<1> QED BY <1>4, <1>8

LEMMA RecordRepacks ==
    ASSUME AnyInv, NEW c \in Clients, RecordDeliveryPack(c)
    PROVE  \E p \in Pack : p.id = nextPack /\ Repacks(c, stored, p)
<1>1. stored \in Bundle /\ VerdictOK(stored) /\ nextPack \in PackIds /\ recorded \subseteq PackIds
    BY LoadedAny, BoundAssumption DEF RecordDeliveryPack, PackIds
<1>2. PICK g \in GivenPacks : ToSave(c, [stored EXCEPT !.pack = [g EXCEPT !.id = nextPack]])
    BY DEF RecordDeliveryPack
<1> DEFINE p == [g EXCEPT !.id = nextPack]
<1>3. p \in Pack /\ p.id = nextPack
    BY <1>1, GivenAssumption DEF Pack
<1>4. /\ nextPack' \in 1..(MaxPacks + 1) /\ recorded' = recorded \cup {nextPack}
      /\ UNCHANGED <<stored, logged, sent, doubt, renderings, closedPack, overlaps>>
    BY <1>1, BoundAssumption DEF RecordDeliveryPack, Outside, Saved, PackIds
<1>5. ToSave(c, [stored EXCEPT !.pack = p])
    BY <1>2
<1> HIDE DEF p
<1>6. Repacks(c, stored, p)
    BY <1>1, <1>3, <1>4, <1>5 DEF Repacks, RecordDeliveryPack, Loads, Readable
<1> QED BY <1>3, <1>6

LEMMA RenderRepacks ==
    ASSUME AnyInv, NEW c \in Clients, FinishRender(c)
    PROVE  \E o \in RenderOutcomes, s \in Slots :
             /\ Repacks(c, cl[c].b, Rendered(cl[c].b.pack, s, o))
             /\ UNCHANGED <<nextPack, recorded>>
<1>1. /\ cl[c].b \in Bundle /\ VerdictOK(cl[c].b) /\ cl[c].b.pack \in Pack
      /\ cl[c].b.version < MaxVersion /\ cl[c].slot \in Slots
    BY ClientType DEF AnyInv, BundleInv, WorkInv, Working, FinishRender
<1>2. PICK o \in RenderOutcomes :
        ToSave(c, [cl[c].b EXCEPT !.pack = Rendered(cl[c].b.pack, cl[c].slot, o)])
    BY DEF FinishRender
<1> DEFINE p == Rendered(cl[c].b.pack, cl[c].slot, o)
<1>3. p \in Pack /\ p.status # "dispatched"
    BY <1>1 DEF Rendered, Pack, PackStatus
<1>4. UNCHANGED <<stored, nextPack, logged, sent, doubt, recorded, renderings, closedPack, overlaps>>
    BY DEF FinishRender, Outside, Saved
<1>5. ToSave(c, [cl[c].b EXCEPT !.pack = p])
    BY <1>2
<1>6. Repacks(c, cl[c].b, p)
  <2> HIDE DEF p
  <2> QED BY <1>1, <1>3, <1>4, <1>5, LoadedAny DEF Repacks
<1> QED BY <1>1, <1>4, <1>6

LEMMA DispatchRepacks ==
    ASSUME AnyInv, NEW c \in Clients, FinishDispatch(c)
    PROVE  /\ Repacks(c, cl[c].b, Dispatched(cl[c].b.pack, cl[c].reached, cl[c].refused))
           /\ UNCHANGED <<nextPack, recorded>>
<1>1. /\ cl[c].b \in Bundle /\ VerdictOK(cl[c].b) /\ cl[c].b.pack \in Pack
      /\ PackOK(cl[c].b.pack) /\ cl[c].b.version < MaxVersion /\ cl[c].reached \subseteq Slots
      /\ cl[c].reached # {} => AnySent(cl[c].b.pack.id)
    BY ClientType DEF AnyInv, BundleInv, WorkInv, Working, Dispatching, FinishDispatch
<1> DEFINE p == Dispatched(cl[c].b.pack, cl[c].reached, cl[c].refused)
<1>2. UNCHANGED <<stored, nextPack, logged, sent, doubt, recorded, renderings, closedPack, overlaps>>
    BY DEF FinishDispatch, Outside, Saved
<1>3. p \in Pack /\ p.id = cl[c].b.pack.id
    BY <1>1 DEF Dispatched, Pack, PackStatus
<1>4. p.status = "dispatched" => cl[c].reached # {} \/ cl[c].b.pack.status = "dispatched"
    BY <1>1 DEF Dispatched, Pack
<1>5. p.status = "dispatched" /\ p.id \notin recorded' => AnySent(p.id)
  <2> HIDE DEF p
  <2> QED BY <1>1, <1>2, <1>3, <1>4 DEF PackOK
<1>6. ToSave(c, [cl[c].b EXCEPT !.pack = p])
    BY DEF FinishDispatch
<1> HIDE DEF p
<1>7. Repacks(c, cl[c].b, p)
    BY <1>1, <1>2, <1>3, <1>5, <1>6, LoadedAny DEF Repacks
<1> QED BY <1>2, <1>7 DEF p

(* Loading a copy to work on. *)
LEMMA StartOp ==
    ASSUME AnyInv, NEW c \in Clients, StartRender(c) \/ StartDispatch(c)
    PROVE  /\ cl' \in [Clients -> Client]
           /\ \A d \in Clients : d # c => cl'[d] = cl[d]
           /\ cl'[c].pc \in {"rendering", "dispatching"} /\ cl'[c].b = stored
           /\ cl'[c].pc = "rendering" => cl'[c].slot \in Slots
           /\ cl'[c].pc = "dispatching" =>
                cl'[c].reached = {} /\ \A k \in cl'[c].todo : k[1] = stored.pack.id
           /\ Readable
           /\ UNCHANGED <<stored, nextPack, logged, sent, doubt, recorded, renderings, closedPack, overlaps>>
<1>1. /\ stored \in Bundle /\ stored.pack.artifacts \subseteq Slots
      /\ stored.pack.id \in {0} \cup PackIds
    BY StoredType DEF AnyInv, Pack
<1>2. CASE StartRender(c)
  <2>1. PICK s \in stored.pack.artifacts :
          cl' = [cl EXCEPT ![c].pc = "rendering", ![c].slot = s, ![c].b = stored]
      BY <1>2 DEF StartRender
  <2>2. cl' = [cl EXCEPT ![c] = [cl[c] EXCEPT !.pc = "rendering", !.slot = s, !.b = stored]]
      BY <2>1 DEF AnyInv, TypeOK, Client
  <2>3. cl[c] \in Client /\ s \in Slots
      BY <1>1, ClientType DEF AnyInv
  <2>4. [cl[c] EXCEPT !.pc = "rendering", !.slot = s, !.b = stored] \in Client
      BY <1>1, <2>3 DEF Client, Phases
  <2>5. /\ cl'[c].pc = "rendering" /\ cl'[c].b = stored /\ cl'[c].slot = s
      BY <2>2, <2>3 DEF AnyInv, TypeOK, Client
  <2>6. UNCHANGED <<stored, nextPack, logged, sent, doubt, recorded, renderings, closedPack, overlaps>> /\ Readable
      BY <1>2 DEF StartRender, Loads, Outside, Saved
  <2> QED BY <2>2, <2>3, <2>4, <2>5, <2>6 DEF AnyInv, TypeOK
<1>3. CASE StartDispatch(c)
  <2>1. PICK s \in SUBSET stored.pack.artifacts, chs \in SUBSET Channels, ok \in BOOLEAN :
          cl' = [cl EXCEPT ![c] = [Idle EXCEPT !.pc = "dispatching", !.b = stored,
                    !.todo = Selected(stored.pack, s, chs), !.approved = ok]]
      BY <1>3 DEF StartDispatch
  <2> DEFINE t == Selected(stored.pack, s, chs)
  <2>2. t \subseteq Keys /\ \A k \in t : k[1] = stored.pack.id
      BY DEF Selected
  <2> HIDE DEF t
  <2>3. cl'[c] = [pc |-> "dispatching", expected |-> 0, run |-> NoRun, b |-> stored,
                  slot |-> NoRun, todo |-> t, key |-> NoRun, reached |-> {},
                  refused |-> FALSE, approved |-> ok, closes |-> FALSE]
      BY <2>1 DEF AnyInv, TypeOK, Idle, t
  <2>4. cl'[c] \in Client
      BY <1>1, <2>2, <2>3, BoundAssumption DEF Client, Phases
  <2>5. UNCHANGED <<stored, nextPack, logged, sent, doubt, recorded, renderings, closedPack, overlaps>> /\ Readable
      BY <1>3 DEF StartDispatch, Loads, Outside, Saved
  <2>6. /\ cl' \in [Clients -> Client]
        /\ \A d \in Clients : d # c => cl'[d] = cl[d]
      BY <2>1, <2>4 DEF AnyInv, TypeOK
  <2> QED BY <2>2, <2>3, <2>5, <2>6
<1> QED BY <1>2, <1>3

LEMMA StartAny ==
    ASSUME AnyInv, NEW c \in Clients, StartRender(c) \/ StartDispatch(c)
    PROVE  AnyInv'
<1> USE DEF AnyInv
<1>1. /\ cl' \in [Clients -> Client]
      /\ \A d \in Clients : d # c => cl'[d] = cl[d]
      /\ cl'[c].pc \in {"rendering", "dispatching"} /\ cl'[c].b = stored
      /\ cl'[c].pc = "rendering" => cl'[c].slot \in Slots
      /\ cl'[c].pc = "dispatching" =>
           cl'[c].reached = {} /\ \A k \in cl'[c].todo : k[1] = stored.pack.id
      /\ Readable
      /\ UNCHANGED <<stored, nextPack, logged, sent, doubt, recorded, renderings, closedPack, overlaps>>
    BY StartOp
<1>2. TypeOK'
    BY <1>1 DEF TypeOK
<1>3. BundleInv'
  <2>1. ASSUME NEW d \in Clients PROVE VerdictOK(cl[d].b)' /\ PackOK(cl[d].b.pack)'
      BY <1>1 DEF BundleInv, VerdictOK, PackOK, AnySent
  <2> QED BY <1>1, <2>1 DEF BundleInv, VerdictOK, PackOK, AnySent
<1>4. WorkInv'
  <2>1. ASSUME NEW d \in Clients, d # c PROVE cl'[d] = cl[d]
      BY <1>1, <2>1
  <2>2. stored.version < MaxVersion
      BY <1>1 DEF Readable
  <2> SUFFICES ASSUME NEW d \in Clients
               PROVE  /\ Working(d)' => cl'[d].b.version < MaxVersion
                      /\ Dispatching(d)' =>
                           /\ \A k \in cl'[d].todo : k[1] = cl'[d].b.pack.id
                           /\ cl'[d].reached # {} => AnySent(cl[d].b.pack.id)'
                      /\ cl'[d].pc = "verifying" => cl'[d].run \in Runs
                      /\ cl'[d].pc = "rendering" => cl'[d].slot \in Slots
                      /\ cl'[d].pc = "sending" =>
                           cl'[d].key \in cl'[d].todo /\ cl'[d].key[2] \in cl'[d].b.pack.rendered
      BY DEF WorkInv
  <2>4. CASE d = c
      BY <1>1, <2>2, <2>4 DEF Working, Dispatching
  <2>5. CASE d # c
      BY <1>1, <2>1, <2>5 DEF WorkInv, Working, Dispatching, AnySent
  <2> QED BY <2>4, <2>5
<1>5. SendInv'
  <2>1. ASSUME NEW d \in Clients, NEW k, SendingKey(d, k)' PROVE SendingKey(d, k)
      BY <1>1, <2>1 DEF SendingKey
  <2> QED BY <1>1, <2>1 DEF SendInv
<1> QED BY <1>2, <1>3, <1>4, <1>5

(* Receipt: one key is done with. *)
LEMMA ReceiptOp ==
    ASSUME TypeOK, NEW c \in Clients, NEW k \in Keys, NEW success \in BOOLEAN,
           Receipt(c, k, success)
    PROVE  /\ cl' \in [Clients -> Client]
           /\ \A d \in Clients : d # c => cl'[d] = cl[d]
           /\ cl'[c].pc = "dispatching" /\ cl'[c].b = cl[c].b
           /\ cl'[c].todo \subseteq cl[c].todo
           /\ cl'[c].reached = IF success THEN cl[c].reached \cup {k[2]} ELSE cl[c].reached
<1> DEFINE r == IF success THEN cl[c].reached \cup {k[2]} ELSE cl[c].reached
           f == cl[c].refused \/ ~success
           t == cl[c].todo \ {k}
<1>1. cl' = [cl EXCEPT ![c] = [cl[c] EXCEPT !.todo = t, !.pc = "dispatching", !.key = NoRun,
                                            !.reached = r, !.refused = f]]
    BY DEF Receipt, TypeOK, Client
<1>2. cl[c] \in Client /\ r \subseteq Slots /\ f \in BOOLEAN /\ t \subseteq Keys
    BY DEF TypeOK, Client, Keys
<1>3. t \subseteq cl[c].todo
    OBVIOUS
<1>4. cl \in [Clients -> Client]
    BY DEF TypeOK
<1> HIDE DEF f, t
<1> SUFFICES /\ cl' \in [Clients -> Client]
             /\ \A d \in Clients : d # c => cl'[d] = cl[d]
             /\ cl'[c].pc = "dispatching" /\ cl'[c].b = cl[c].b
             /\ cl'[c].todo = t /\ cl'[c].reached = r
    BY <1>3
<1> HIDE DEF r
<1> QED BY <1>1, <1>2, <1>4 DEF Client, Phases

(* A key goes out: what was sent stays sent. *)
LEMMA GoesOutOp ==
    ASSUME TypeOK, NEW k \in Keys, GoesOut(k)
    PROVE  /\ sent' \in [Keys -> 0..2]
           /\ sent'[k] > 0 /\ (sent[k] = 0 => sent'[k] = 1)
           /\ \A j \in Keys : j # k => sent'[j] = sent[j]
           /\ \A j \in Keys : sent[j] > 0 => sent'[j] > 0
<1>1. sent[k] \in 0..2
    BY DEF TypeOK
<1>2. OneMore(sent[k]) \in 0..2 /\ OneMore(sent[k]) > 0 /\ (sent[k] = 0 => OneMore(sent[k]) = 1)
    BY <1>1 DEF OneMore
<1>3. sent' = [sent EXCEPT ![k] = OneMore(sent[k])]
    BY DEF GoesOut, TypeOK
<1> HIDE DEF GoesOut
<1> QED BY <1>2, <1>3 DEF TypeOK

(* A dispatch that is done with the key k goes on. *)
LEMMA ReceiptAny ==
    ASSUME AnyInv, NEW c \in Clients, Dispatching(c), NEW k \in cl[c].todo,
           NEW success \in BOOLEAN, Receipt(c, k, success),
           UNCHANGED <<stored, nextPack, recorded, renderings, closedPack, overlaps>>,
           logged' \subseteq Keys, doubt' \subseteq Keys, sent' \in [Keys -> 0..2],
           \A j \in Keys : sent[j] > 0 => sent'[j] > 0,
           success => sent'[k] > 0,
           SendInv'
    PROVE  AnyInv'
<1>1. /\ k \in Keys /\ k[1] = cl[c].b.pack.id
    BY ClientType DEF AnyInv, WorkInv
<1>2. /\ cl' \in [Clients -> Client]
      /\ \A d \in Clients : d # c => cl'[d] = cl[d]
      /\ cl'[c].pc = "dispatching" /\ cl'[c].b = cl[c].b
      /\ cl'[c].todo \subseteq cl[c].todo
      /\ cl'[c].reached = IF success THEN cl[c].reached \cup {k[2]} ELSE cl[c].reached
    BY <1>1, ReceiptOp DEF AnyInv
<1>3. TypeOK'
    BY <1>2 DEF AnyInv, TypeOK
<1>4. ASSUME NEW p, AnySent(p) PROVE AnySent(p)'
    BY <1>4 DEF AnySent
<1>5. BundleInv'
  <2>1. ASSUME NEW d \in Clients PROVE cl'[d].b = cl[d].b
      BY <1>2
  <2>2. VerdictOK(stored)' /\ PackOK(stored.pack)'
      BY <1>4 DEF AnyInv, BundleInv, VerdictOK, PackOK
  <2>3. ASSUME NEW d \in Clients PROVE VerdictOK(cl[d].b)' /\ PackOK(cl[d].b.pack)'
      BY <1>4, <2>1 DEF AnyInv, BundleInv, VerdictOK, PackOK
  <2> QED BY <2>2, <2>3 DEF BundleInv
<1>6. WorkInv'
  <2> SUFFICES ASSUME NEW d \in Clients
               PROVE  /\ Working(d)' => cl'[d].b.version < MaxVersion
                      /\ Dispatching(d)' =>
                           /\ \A j \in cl'[d].todo : j[1] = cl'[d].b.pack.id
                           /\ cl'[d].reached # {} => AnySent(cl[d].b.pack.id)'
                      /\ cl'[d].pc = "verifying" => cl'[d].run \in Runs
                      /\ cl'[d].pc = "rendering" => cl'[d].slot \in Slots
                      /\ cl'[d].pc = "sending" =>
                           cl'[d].key \in cl'[d].todo /\ cl'[d].key[2] \in cl'[d].b.pack.rendered
      BY DEF WorkInv
  <2>1. CASE d = c
    <3>1. cl'[c].reached # {} => AnySent(cl[c].b.pack.id)'
        BY <1>1, <1>2, <1>4 DEF AnyInv, WorkInv, AnySent
    <3>2. \A j \in cl'[c].todo : j[1] = cl'[c].b.pack.id
        BY <1>2 DEF AnyInv, WorkInv
    <3>3. cl'[c].b.version < MaxVersion
        BY <1>2 DEF AnyInv, WorkInv, Working, Dispatching
    <3> QED BY <1>2, <2>1, <3>1, <3>2, <3>3 DEF Working, Dispatching
  <2>2. CASE d # c
    <3>1. cl'[d] = cl[d]
        BY <1>2, <2>2
    <3> QED BY <1>4, <3>1 DEF AnyInv, WorkInv, Working, Dispatching
  <2> QED BY <2>1, <2>2
<1> QED BY <1>3, <1>5, <1>6 DEF AnyInv

(* The key a client sends. *)
LEMMA KeyType ==
    ASSUME AnyInv, NEW c \in Clients, cl[c].pc = "sending"
    PROVE  /\ cl[c].key \in cl[c].todo /\ cl[c].key \in Keys
           /\ cl[c].key[1] = cl[c].b.pack.id /\ cl[c].key[2] \in cl[c].b.pack.rendered
           /\ Dispatching(c) /\ SendingKey(c, cl[c].key)
BY ClientType DEF AnyInv, WorkInv, Dispatching, SendingKey

(* A client that sends no longer: nobody begins to send, and the key it sent, if any, *)
(* is accounted for.                                                                  *)
LEMMA NoNewSend ==
    ASSUME AnyInv, NEW c \in Clients,
           \A d \in Clients : d # c => cl'[d] = cl[d],
           cl'[c].pc # "sending",
           \/ UNCHANGED <<logged, sent, doubt>>
           \/ /\ cl[c].pc = "sending" /\ GoesOut(cl[c].key)
              /\ \/ logged' = logged /\ doubt' = doubt \cup {cl[c].key}
                 \/ logged' = logged \cup {cl[c].key} /\ doubt' = doubt
    PROVE  SendInv'
<1>1. ASSUME NEW d \in Clients, NEW k, SendingKey(d, k)' PROVE SendingKey(d, k) /\ d # c
    BY <1>1 DEF SendingKey
<1>2. CASE UNCHANGED <<logged, sent, doubt>>
    BY <1>1, <1>2 DEF AnyInv, SendInv
<1>3. ASSUME cl[c].pc = "sending", GoesOut(cl[c].key)
      PROVE  /\ cl[c].key \in Keys
             /\ sent'[cl[c].key] > 0 /\ (sent[cl[c].key] = 0 => sent'[cl[c].key] = 1)
             /\ \A j \in Keys : j # cl[c].key => sent'[j] = sent[j]
             /\ \A j \in Keys : sent[j] > 0 => sent'[j] > 0
             /\ logged \subseteq Keys
    BY <1>3, KeyType, GoesOutOp DEF AnyInv, TypeOK
<1>4. CASE /\ cl[c].pc = "sending" /\ GoesOut(cl[c].key)
           /\ logged' = logged /\ doubt' = doubt \cup {cl[c].key}
    BY <1>1, <1>3, <1>4 DEF AnyInv, SendInv
<1>5. CASE /\ cl[c].pc = "sending" /\ GoesOut(cl[c].key)
           /\ logged' = logged \cup {cl[c].key} /\ doubt' = doubt
  <2> DEFINE key == cl[c].key
  <2>1. SendingKey(c, key)
      BY <1>5 DEF SendingKey
  <2>2. \A k \in logged' : sent'[k] > 0
      BY <1>3, <1>5 DEF AnyInv, SendInv
  <2>3. ASSUME NEW k \in Keys \ doubt
        PROVE  /\ sent'[k] \in {0, 1}
               /\ sent'[k] = 1 => k \in logged'
               /\ \A d \in Clients : SendingKey(d, k)' =>
                    k \notin logged' /\ \A e \in Clients : SendingKey(e, k)' => e = d
    <3>1. CASE k = key
      <4>1. k \notin logged /\ sent[k] = 0 /\ \A d \in Clients : SendingKey(d, k) => d = c
          BY <1>3, <1>5, <2>1, <3>1 DEF AnyInv, SendInv
      <4>2. sent'[k] = 1 /\ k \in logged'
          BY <1>3, <1>5, <3>1, <4>1
      <4>3. \A d \in Clients : ~SendingKey(d, k)'
          BY <1>1, <4>1
      <4> QED BY <4>2, <4>3
    <3>2. CASE k # key
        BY <1>1, <1>3, <1>5, <3>2 DEF AnyInv, SendInv
    <3> QED BY <3>1, <3>2
  <2> QED BY <1>5, <2>2, <2>3 DEF SendInv
<1> QED BY <1>2, <1>4, <1>5

LEMMA DispatchStepAny ==
    ASSUME AnyInv, NEW c \in Clients,
           Duplicate(c) \/ Blocked(c) \/ Sent(c) \/ SendFailed(c)
    PROVE  AnyInv'
<1> USE DEF Outside, Saved
<1>0. /\ \A k \in logged : k \in Keys /\ sent[k] > 0
      /\ logged \subseteq Keys /\ doubt \subseteq Keys /\ sent \in [Keys -> 0..2]
    BY DEF AnyInv, SendInv, TypeOK
<1>1. CASE Duplicate(c) \/ Blocked(c)
  <2>1. PICK k \in cl[c].todo, success \in BOOLEAN :
          Receipt(c, k, success) /\ (success => k \in logged)
    <3>1. CASE Duplicate(c)
      <4>1. PICK k \in cl[c].todo : k \in logged /\ Receipt(c, k, TRUE)
          BY <3>1 DEF Duplicate
      <4> QED BY <4>1
    <3>2. CASE Blocked(c)
      <4>1. PICK k \in cl[c].todo : Receipt(c, k, FALSE)
          BY <3>2 DEF Blocked
      <4> QED BY <4>1
    <3> QED BY <1>1, <3>1, <3>2
  <2>2. /\ Dispatching(c)
        /\ UNCHANGED <<stored, nextPack, logged, sent, doubt, recorded, renderings, closedPack, overlaps>>
      BY <1>1 DEF Duplicate, Blocked, Dispatching
  <2>3. k \in Keys
      BY ClientType DEF AnyInv
  <2>4. cl'[c].pc = "dispatching" /\ \A d \in Clients : d # c => cl'[d] = cl[d]
      BY <2>1, <2>3, ReceiptOp DEF AnyInv
  <2>5. SendInv'
      BY <2>2, <2>4, NoNewSend
  <2> QED BY <1>0, <2>1, <2>2, <2>5, ReceiptAny
<1>2. CASE Sent(c) \/ SendFailed(c)
  <2> DEFINE key == cl[c].key
  <2>1. PICK success \in BOOLEAN : Receipt(c, key, success) /\ (success => Sent(c))
    <3>1. CASE Sent(c)
      <4>1. Receipt(c, key, TRUE)
          BY <3>1 DEF Sent
      <4> QED BY <3>1, <4>1
    <3>2. CASE SendFailed(c)
      <4>1. Receipt(c, key, FALSE)
          BY <3>2 DEF SendFailed
      <4> QED BY <4>1
    <3> QED BY <1>2, <3>1, <3>2
  <2>2. cl[c].pc = "sending" /\ UNCHANGED <<stored, nextPack, recorded, renderings, closedPack, overlaps>>
      BY <1>2 DEF Sent, SendFailed
  <2>3. key \in cl[c].todo /\ key \in Keys /\ Dispatching(c)
      BY <2>2, KeyType
  <2>4. cl'[c].pc = "dispatching" /\ \A d \in Clients : d # c => cl'[d] = cl[d]
      BY <2>1, <2>3, ReceiptOp DEF AnyInv
  <2>5. \/ UNCHANGED <<logged, sent, doubt>> /\ ~success
        \/ /\ GoesOut(key)
           /\ \/ logged' = logged /\ doubt' = doubt \cup {key}
              \/ logged' = logged \cup {key} /\ doubt' = doubt
      BY <1>2, <2>1 DEF Sent, SendFailed, NoAnswer
  <2>6. SendInv'
      BY <2>2, <2>4, <2>5, NoNewSend
  <2>7. /\ logged' \subseteq Keys /\ doubt' \subseteq Keys /\ sent' \in [Keys -> 0..2]
        /\ \A j \in Keys : sent[j] > 0 => sent'[j] > 0
        /\ success => sent'[key] > 0
    <3>1. CASE UNCHANGED <<logged, sent, doubt>> /\ ~success
        BY <1>0, <3>1
    <3>2. CASE GoesOut(key)
        BY <1>0, <2>3, <2>5, <3>2, GoesOutOp DEF AnyInv
    <3> QED BY <2>5, <3>1, <3>2
  <2> HIDE DEF key
  <2> QED BY <2>1, <2>2, <2>3, <2>6, <2>7, ReceiptAny
<1> QED BY <1>1, <1>2

LEMMA AttemptOp ==
    ASSUME AnyInv, NEW c \in Clients, Attempt(c)
    PROVE  \E k \in cl[c].todo \ logged :
             /\ cl' \in [Clients -> Client]
             /\ \A d \in Clients : d # c => cl'[d] = cl[d]
             /\ cl'[c].pc = "sending" /\ cl'[c].b = cl[c].b /\ cl'[c].key = k
             /\ cl'[c].todo = cl[c].todo /\ cl'[c].reached = cl[c].reached
             /\ k \in Keys /\ k[2] \in cl[c].b.pack.rendered
             /\ doubt' = IF InFlight(k) THEN doubt \cup {k} ELSE doubt
<1>1. PICK k \in cl[c].todo \ logged :
        /\ PolicyAllows(cl[c].b.pack, k, cl[c].approved)
        /\ doubt' = IF InFlight(k) THEN doubt \cup {k} ELSE doubt
        /\ cl' = [cl EXCEPT ![c].pc = "sending", ![c].key = k]
    BY DEF Attempt
<1>2. k \in Keys /\ cl[c] \in Client
    BY ClientType DEF AnyInv
<1>3. cl' = [cl EXCEPT ![c] = [cl[c] EXCEPT !.pc = "sending", !.key = k]]
    BY <1>1 DEF AnyInv, TypeOK, Client
<1>4. [cl[c] EXCEPT !.pc = "sending", !.key = k] \in Client
    BY <1>2 DEF Client, Phases
<1>5. /\ cl'[c].pc = "sending" /\ cl'[c].b = cl[c].b /\ cl'[c].key = k
      /\ cl'[c].todo = cl[c].todo /\ cl'[c].reached = cl[c].reached
    BY <1>2, <1>3 DEF AnyInv, TypeOK, Client
<1>6. k[2] \in cl[c].b.pack.rendered
    BY <1>1 DEF PolicyAllows
<1>7. cl' \in [Clients -> Client] /\ \A d \in Clients : d # c => cl'[d] = cl[d]
    BY <1>3, <1>4 DEF AnyInv, TypeOK
<1> QED BY <1>1, <1>2, <1>5, <1>6, <1>7

LEMMA AttemptAny ==
    ASSUME AnyInv, NEW c \in Clients, Attempt(c)
    PROVE  AnyInv'
<1>1. PICK k \in cl[c].todo \ logged :
        /\ cl' \in [Clients -> Client]
        /\ \A d \in Clients : d # c => cl'[d] = cl[d]
        /\ cl'[c].pc = "sending" /\ cl'[c].b = cl[c].b /\ cl'[c].key = k
        /\ cl'[c].todo = cl[c].todo /\ cl'[c].reached = cl[c].reached
        /\ k \in Keys /\ k[2] \in cl[c].b.pack.rendered
        /\ doubt' = IF InFlight(k) THEN doubt \cup {k} ELSE doubt
    BY AttemptOp
<1>2. UNCHANGED <<stored, nextPack, logged, sent, recorded, renderings, closedPack, overlaps>> /\ Dispatching(c)
    BY DEF Attempt, Dispatching, Saved
<1>3. TypeOK'
    BY <1>1, <1>2 DEF AnyInv, TypeOK
<1>4. BundleInv'
  <2>1. ASSUME NEW d \in Clients PROVE cl'[d].b = cl[d].b
      BY <1>1
  <2> QED BY <1>2, <2>1 DEF AnyInv, BundleInv, VerdictOK, PackOK, AnySent
<1>5. WorkInv'
  <2> SUFFICES ASSUME NEW d \in Clients
               PROVE  /\ Working(d)' => cl'[d].b.version < MaxVersion
                      /\ Dispatching(d)' =>
                           /\ \A j \in cl'[d].todo : j[1] = cl'[d].b.pack.id
                           /\ cl'[d].reached # {} => AnySent(cl[d].b.pack.id)'
                      /\ cl'[d].pc = "verifying" => cl'[d].run \in Runs
                      /\ cl'[d].pc = "rendering" => cl'[d].slot \in Slots
                      /\ cl'[d].pc = "sending" =>
                           cl'[d].key \in cl'[d].todo /\ cl'[d].key[2] \in cl'[d].b.pack.rendered
      BY DEF WorkInv
  <2>1. CASE d = c
      BY <1>1, <1>2, <2>1 DEF AnyInv, WorkInv, Working, Dispatching, AnySent
  <2>2. CASE d # c
      BY <1>1, <1>2, <2>2 DEF AnyInv, WorkInv, Working, Dispatching, AnySent
  <2> QED BY <2>1, <2>2
<1>6. SendInv'
  <2>1. ASSUME NEW d \in Clients, NEW j, SendingKey(d, j)'
        PROVE  IF d = c THEN j = k ELSE SendingKey(d, j)
      BY <1>1, <2>1 DEF SendingKey
  <2> SUFFICES ASSUME NEW j \in Keys \ doubt', NEW d \in Clients, SendingKey(d, j)'
               PROVE  j \notin logged /\ \A e \in Clients : SendingKey(e, j)' => e = d
      BY <1>1, <1>2 DEF AnyInv, SendInv
  <2>2. CASE j = k
    <3>1. \A e \in Clients : ~SendingKey(e, k)
        BY <1>1, <2>2 DEF InFlight, SendingKey
    <3> QED BY <2>1, <2>2, <3>1
  <2>3. CASE j # k
      BY <1>1, <2>1, <2>3 DEF AnyInv, SendInv
  <2> QED BY <2>2, <2>3
<1> QED BY <1>3, <1>4, <1>5, <1>6 DEF AnyInv

LEMMA DieAny ==
    ASSUME AnyInv, NEW c \in Clients, Die(c)
    PROVE  AnyInv'
<1>1. /\ cl' \in [Clients -> Client]
      /\ \A d \in Clients : d # c => cl'[d] = cl[d]
      /\ cl'[c].pc = "idle" /\ cl'[c].b = NoBundle
    BY ToIdleOp DEF AnyInv, Die
<1>2. UNCHANGED <<stored, nextPack, logged, recorded, renderings, closedPack, overlaps>>
    BY DEF Die, Saved
<1>3. \/ UNCHANGED <<sent, doubt>>
      \/ cl[c].pc = "sending" /\ GoesOut(cl[c].key) /\ doubt' = doubt \cup {cl[c].key}
    BY DEF Die, NoAnswer
<1>4. SendInv'
    BY <1>1, <1>2, <1>3, NoNewSend
<1>5. /\ sent' \in [Keys -> 0..2] /\ doubt' \subseteq Keys
      /\ \A j \in Keys : sent[j] > 0 => sent'[j] > 0
    BY <1>3, KeyType, GoesOutOp DEF AnyInv, TypeOK
<1>6. ASSUME NEW p, AnySent(p) PROVE AnySent(p)'
    BY <1>5, <1>6 DEF AnySent
<1>7. TypeOK'
    BY <1>1, <1>2, <1>5 DEF AnyInv, TypeOK
<1>8. BundleInv'
  <2>1. VerdictOK(NoBundle) /\ NoBundle.pack.status # "dispatched"
      BY DEF VerdictOK, NoBundle, NoVerdict, NoPack
  <2>2. VerdictOK(stored)' /\ PackOK(stored.pack)'
      BY <1>2, <1>6 DEF AnyInv, BundleInv, VerdictOK, PackOK
  <2>3. ASSUME NEW d \in Clients PROVE VerdictOK(cl[d].b)' /\ PackOK(cl[d].b.pack)'
    <3>1. CASE d = c
        BY <1>1, <2>1, <3>1 DEF VerdictOK, PackOK
    <3>2. CASE d # c
        BY <1>1, <1>2, <1>6, <3>2 DEF AnyInv, BundleInv, VerdictOK, PackOK
    <3> QED BY <3>1, <3>2
  <2> QED BY <2>2, <2>3 DEF BundleInv
<1>9. WorkInv'
  <2>1. ASSUME NEW d \in Clients, cl'[d].pc # "idle" PROVE cl'[d] = cl[d]
      BY <1>1, <2>1
  <2> QED BY <1>6, <2>1 DEF AnyInv, WorkInv, Working, Dispatching
<1> QED BY <1>4, <1>7, <1>8, <1>9 DEF AnyInv

(* The bundle of a client is stored. *)
LEMMA WriteAny ==
    ASSUME AnyInv, NEW c \in Clients, Write(c)
    PROVE  AnyInv'
<1>1. /\ cl' \in [Clients -> Client]
      /\ \A d \in Clients : d # c => cl'[d] = cl[d]
      /\ cl'[c].pc = "idle" /\ cl'[c].b = NoBundle
    BY ToIdleOp DEF AnyInv, Write
<1>2. /\ stored' = cl[c].b /\ UNCHANGED <<nextPack, logged, sent, doubt, recorded>>
      /\ renderings' = renderings \cup {<<cl[c].b.pack.id, s>> : s \in cl[c].b.pack.rendered}
      /\ closedPack' \in {closedPack, cl[c].b.pack.id}
      /\ overlaps' \in {overlaps, overlaps + 1} /\ overlaps' <= MaxOverlaps
    BY DEF Write, Commit, Outside
<1>3. /\ cl[c].b \in Bundle /\ cl[c].b.pack.id \in {0} \cup PackIds
      /\ cl[c].b.pack.rendered \subseteq Slots
    BY ClientType DEF AnyInv, Pack
<1>4. TypeOK'
  <2>1. renderings' \subseteq ({0} \cup PackIds) \X Slots
      BY <1>2, <1>3 DEF AnyInv, TypeOK
  <2>2. overlaps' \in 0..MaxOverlaps
      BY <1>2, BoundAssumption DEF AnyInv, TypeOK
  <2>3. closedPack' \in {0} \cup PackIds
      BY <1>2, <1>3 DEF AnyInv, TypeOK
  <2> QED BY <1>1, <1>2, <1>3, <2>1, <2>2, <2>3 DEF AnyInv, TypeOK
<1>5. BundleInv'
  <2>1. VerdictOK(NoBundle) /\ NoBundle.pack.status # "dispatched"
      BY DEF VerdictOK, NoBundle, NoVerdict, NoPack
  <2>2. ASSUME NEW d \in Clients
        PROVE  VerdictOK(cl[d].b)' /\ PackOK(cl[d].b.pack)'
    <3>1. CASE d = c
        BY <1>1, <2>1, <3>1 DEF VerdictOK, PackOK
    <3>2. CASE d # c
        BY <1>1, <1>2, <3>2 DEF AnyInv, BundleInv, VerdictOK, PackOK, AnySent
    <3> QED BY <3>1, <3>2
  <2>3. VerdictOK(stored)' /\ PackOK(stored.pack)'
      BY <1>2 DEF AnyInv, BundleInv, VerdictOK, PackOK, AnySent
  <2> QED BY <2>2, <2>3 DEF BundleInv
<1>6. WorkInv'
  <2>1. ASSUME NEW d \in Clients, cl'[d].pc # "idle" PROVE cl'[d] = cl[d]
      BY <1>1, <2>1
  <2> QED BY <1>2, <2>1 DEF AnyInv, WorkInv, Working, Dispatching, AnySent
<1>7. SendInv'
    BY <1>1, <1>2, NoNewSend
<1> QED BY <1>4, <1>5, <1>6, <1>7 DEF AnyInv

LEMMA CreateAny ==
    ASSUME AnyInv, NEW c \in Clients, Create(c)
    PROVE  AnyInv'
<1>1. PICK d \in SUBSET Slots, n \in BOOLEAN : stored' = NewContract(d, n)
    BY DEF Create
<1>2. UNCHANGED <<cl, nextPack, logged, sent, doubt, recorded, renderings, closedPack, overlaps>>
    BY DEF Create, Outside, Saved
<1>3. /\ stored' \in Bundle /\ stored'.status = "draft" /\ stored'.verdict.kind = "none"
      /\ stored'.pack.status = "none"
  <2>1. NoVerdict \in Verdict /\ NoVerdict.kind = "none" /\ NoPack \in Pack /\ NoPack.status = "none"
      BY DEF NoVerdict, NoPack, Verdict, Results, Pack, PackStatus
  <2> QED BY <1>1, <2>1, BoundAssumption DEF NewContract, Bundle, Statuses
<1>4. TypeOK'
    BY <1>2, <1>3 DEF AnyInv, TypeOK
<1>5. BundleInv'
    BY <1>2, <1>3 DEF AnyInv, BundleInv, VerdictOK, PackOK, AnySent
<1>6. WorkInv' /\ SendInv'
    BY <1>2 DEF AnyInv, WorkInv, SendInv, Working, Dispatching, AnySent, SendingKey
<1> QED BY <1>4, <1>5, <1>6 DEF AnyInv

LEMMA CheckOp ==
    ASSUME AnyInv, NEW c \in Clients, CheckVersion(c)
    PROVE  /\ cl' \in [Clients -> Client]
           /\ \A d \in Clients : d # c => cl'[d] = cl[d]
           /\ cl'[c].pc = "writing" /\ cl'[c].b = cl[c].b /\ cl'[c].closes = cl[c].closes
           /\ UNCHANGED <<stored, nextPack, logged, sent, doubt, recorded, renderings, closedPack, overlaps>>
<1>1. cl[c] \in Client
    BY ClientType DEF AnyInv
<1>2. cl' = [cl EXCEPT ![c] = [cl[c] EXCEPT !.pc = "writing"]]
    BY DEF CheckVersion, AnyInv, TypeOK, Client
<1> QED BY <1>1, <1>2 DEF CheckVersion, Outside, Saved, AnyInv, TypeOK, Client, Phases

LEMMA CheckAny ==
    ASSUME AnyInv, NEW c \in Clients, CheckVersion(c)
    PROVE  AnyInv'
<1> DEFINE b == cl[c].b
<1>1. /\ b \in Bundle /\ VerdictOK(b) /\ PackOK(b.pack)
    BY ClientType DEF AnyInv, BundleInv
<1>2. /\ cl' \in [Clients -> Client]
      /\ \A d \in Clients : d # c => cl'[d] = cl[d]
      /\ cl'[c].pc = "writing" /\ cl'[c].b = b
      /\ UNCHANGED <<stored, nextPack, logged, sent, doubt, recorded, renderings, closedPack, overlaps>>
    BY CheckOp
<1>3. b.pack.status = "dispatched" /\ b.pack.id \notin recorded' => AnySent(b.pack.id)
    BY <1>1, <1>2 DEF PackOK
<1> HIDE DEF b
<1> QED BY <1>1, <1>2, <1>3, SettleAny DEF AnyInv, TypeOK

LEMMA StutterAny ==
    ASSUME AnyInv, UNCHANGED vars
    PROVE  AnyInv'
BY DEF vars, AnyInv, TypeOK, BundleInv, WorkInv, SendInv, VerdictOK, PackOK, AnySent, Working,
       Dispatching, SendingKey

LEMMA InitAny ==
    ASSUME Init
    PROVE  AnyInv
<1> USE DEF Init
<1>1. TypeOK
    BY NoBundleType, IdleType, BoundAssumption DEF TypeOK, PackIds
<1>2. \A c \in Clients : cl[c] = Idle
    OBVIOUS
<1>3. \A c \in Clients : cl[c].pc = "idle" /\ cl[c].b = NoBundle
    BY <1>2 DEF Idle
<1>4. VerdictOK(NoBundle) /\ PackOK(NoBundle.pack)
    BY DEF VerdictOK, PackOK, NoBundle, NoVerdict, NoPack
<1>5. BundleInv
    BY <1>3, <1>4 DEF BundleInv
<1>6. WorkInv
    BY <1>3 DEF WorkInv, Working, Dispatching
<1>7. SendInv
    BY <1>3 DEF SendInv, SendingKey
<1> QED BY <1>1, <1>5, <1>6, <1>7 DEF AnyInv

(* Every step, in the order of Next. *)
LEMMA NextAny ==
    ASSUME AnyInv, [Next]_vars
    PROVE  AnyInv'
<1>1. ASSUME NEW c \in Clients, Edits(c) PROVE AnyInv'
  <2>1. CASE Create(c)
      BY <2>1, CreateAny
  <2>2. CASE View(c) \/ StartVerifier(c)
      BY <2>2, ReadAny
  <2>3. CASE VersionConflict(c) \/ UpdateRefused(c)
      BY <2>3, ToIdleAny DEF VersionConflict, UpdateRefused, Outside, Saved
  <2>4. CASE Revision(c)
      BY <2>4, RevisionAny
  <2>5. CASE BuildDeliveryPack(c)
      BY <2>5, BuildRepacks, RepackAny
  <2>6. CASE RecordDeliveryPack(c)
      BY <2>6, RecordRepacks, RepackAny
  <2> QED BY <1>1, <2>1, <2>2, <2>3, <2>4, <2>5, <2>6 DEF Edits, Revision
<1>2. ASSUME NEW c \in Clients, Delivers(c) PROVE AnyInv'
  <2>1. CASE StartRender(c) \/ StartDispatch(c)
      BY <2>1, StartAny
  <2>2. CASE FinishRender(c)
      BY <2>2, RenderRepacks, RepackAny
  <2>3. CASE FinishDispatch(c)
      BY <2>3, DispatchRepacks, RepackAny
  <2>4. CASE Duplicate(c) \/ Blocked(c) \/ Sent(c) \/ SendFailed(c)
      BY <2>4, DispatchStepAny
  <2>5. CASE Attempt(c)
      BY <2>5, AttemptAny
  <2> QED BY <1>2, <2>1, <2>2, <2>3, <2>4, <2>5 DEF Delivers
<1>3. ASSUME NEW c \in Clients, Saves(c) PROVE AnyInv'
  <2>1. CASE SaveConflict(c)
      BY <2>1, ToIdleAny DEF SaveConflict, Outside, Saved
  <2>2. CASE CheckVersion(c)
      BY <2>2, CheckAny
  <2>3. CASE Write(c)
      BY <2>3, WriteAny
  <2>4. CASE Die(c)
      BY <2>4, DieAny
  <2> QED BY <1>3, <2>1, <2>2, <2>3, <2>4 DEF Saves
<1> QED BY <1>1, <1>2, <1>3, StutterAny, ClientAssumption DEF Next

THEOREM InductiveInvariant == Spec => []AnyInv
<1>1. Init => AnyInv
    BY InitAny
<1>2. AnyInv /\ [Next]_vars => AnyInv'
    BY NextAny
<1> QED BY <1>1, <1>2, PTL DEF Spec

-----------------------------------------------------------------------------
(* What was rendered, sent and closed.                                     *)

(* What the stored pack p shows is on record. *)
ShownOK(p) ==
    /\ {p.id} \X p.rendered \subseteq renderings
    /\ p.id \notin recorded => {p.id} \X p.delivered \subseteq renderings

(* What the pack p will show once it is stored. *)
ShowsOK(p) ==
    p.id \notin recorded => \A s \in p.delivered : s \in p.rendered \/ <<p.id, s>> \in renderings

CopyShown(c) ==
    /\ Working(c) => ShownOK(cl[c].b.pack)
    /\ Dispatching(c) => {cl[c].b.pack.id} \X cl[c].reached \subseteq renderings
    /\ Keeping(c) => ShowsOK(cl[c].b.pack)
    /\ Keeping(c) /\ cl[c].closes /\ cl[c].b.mission => ChannelsSent(cl[c].b.pack.id)

EvidenceInv ==
    /\ \A k \in logged : <<k[1], k[2]>> \in renderings
    /\ ShownOK(stored.pack)
    /\ \A c \in Clients : CopyShown(c)
    /\ closedPack # 0 => ChannelsSent(closedPack)

LEMMA SentStays ==
    ASSUME \A k \in Keys : sent[k] > 0 => sent'[k] > 0, NEW p, ChannelsSent(p)
    PROVE  ChannelsSent(p)'
BY DEF ChannelsSent

(* A step of c that does not write: what it has to show of its copy. *)
LEMMA EvidenceStep ==
    ASSUME EvidenceInv, NEW c \in Clients,
           \A d \in Clients : d # c => cl'[d] = cl[d],
           UNCHANGED <<stored, renderings, closedPack>>, recorded \subseteq recorded',
           \A k \in Keys : sent[k] > 0 => sent'[k] > 0,
           \A k \in logged' \ logged : <<k[1], k[2]>> \in renderings,
           CopyShown(c)'
    PROVE  EvidenceInv'
<1>1. ASSUME NEW p, ShownOK(p) PROVE ShownOK(p)'
    BY <1>1 DEF ShownOK
<1>2. ASSUME NEW d \in Clients, d # c PROVE CopyShown(d)'
  <2>1. cl'[d] = cl[d] /\ CopyShown(d)
      BY <1>2 DEF EvidenceInv
  <2>2. Working(d)' => ShownOK(cl[d].b.pack)'
      BY <2>1, <1>1 DEF CopyShown, Working
  <2>3. Dispatching(d)' => ({cl[d].b.pack.id} \X cl[d].reached \subseteq renderings)'
      BY <2>1 DEF CopyShown, Dispatching
  <2>4. Keeping(d)' => ShowsOK(cl[d].b.pack)'
      BY <2>1 DEF CopyShown, Keeping, ShowsOK
  <2>5. (Keeping(d) /\ cl[d].closes /\ cl[d].b.mission)' => ChannelsSent(cl[d].b.pack.id)'
    <3>1. Keeping(d) /\ cl[d].closes /\ cl[d].b.mission => ChannelsSent(cl[d].b.pack.id)'
        BY <2>1, SentStays DEF CopyShown
    <3> QED BY <2>1, <3>1 DEF Keeping, ChannelsSent
  <2> QED BY <2>2, <2>3, <2>4, <2>5 DEF CopyShown
<1>3. closedPack' # 0 => ChannelsSent(closedPack)'
    BY DEF EvidenceInv, ChannelsSent
<1>4. ShownOK(stored.pack)'
    BY DEF EvidenceInv, ShownOK
<1>5. \A k \in logged' : <<k[1], k[2]>> \in renderings'
    BY DEF EvidenceInv
<1> QED BY <1>2, <1>3, <1>4, <1>5 DEF EvidenceInv

(* A client gives up, or waits without a copy of its own. *)
LEMMA RestEvidence ==
    ASSUME EvidenceInv, NEW c \in Clients,
           \A d \in Clients : d # c => cl'[d] = cl[d],
           cl'[c].pc \in {"idle", "viewed", "verifying"},
           UNCHANGED <<stored, logged, recorded, renderings, closedPack>>,
           \A k \in Keys : sent[k] > 0 => sent'[k] > 0
    PROVE  EvidenceInv'
<1>1. CopyShown(c)'
    BY DEF CopyShown, Working, Dispatching, Keeping
<1> QED BY <1>1, EvidenceStep

(* A client goes on to save the pack p. *)
LEMMA SaveEvidence ==
    ASSUME EvidenceInv, NEW c \in Clients,
           \A d \in Clients : d # c => cl'[d] = cl[d], cl'[c].pc = "saving",
           UNCHANGED <<stored, logged, sent, renderings, closedPack>>, recorded \subseteq recorded',
           ShowsOK(cl[c].b.pack)',
           cl'[c].closes /\ cl'[c].b.mission => ChannelsSent(cl'[c].b.pack.id)
    PROVE  EvidenceInv'
<1>1. ~Working(c)' /\ ~Dispatching(c)'
    BY DEF Working, Dispatching
<1>2. (cl[c].closes /\ cl[c].b.mission)' => ChannelsSent(cl[c].b.pack.id)'
    BY DEF ChannelsSent
<1>3. CopyShown(c)'
    BY <1>1, <1>2 DEF CopyShown
<1> QED BY <1>3, EvidenceStep

LEMMA RevisionEvidence ==
    ASSUME AnyInv, EvidenceInv, NEW c \in Clients, Revision(c)
    PROVE  EvidenceInv'
<1>1. PICK b \in Bundle, closes \in BOOLEAN : Revises(c, b, closes)
    BY RevisionRevises
<1> DEFINE t == Touched(b)
<1>2. t.mission = b.mission /\ t.pack = stored.pack
    BY <1>1, TouchedType DEF Revises, Readable
<1>3. /\ \A d \in Clients : d # c => cl'[d] = cl[d]
      /\ cl'[c].pc = "saving" /\ cl'[c].b = t /\ cl'[c].closes = closes
    BY <1>1, SaveAsOp DEF Revises, Readable, AnyInv
<1> HIDE DEF t
<1>4. UNCHANGED <<stored, nextPack, logged, sent, doubt, recorded, renderings, closedPack, overlaps>>
    BY <1>1 DEF Revises
<1>5. MissionSatisfied(b) => ChannelsSent(stored.pack.id)
  <2> SUFFICES ASSUME MissionSatisfied(b), NEW ch \in MissionChannels
               PROVE  \E k \in Keys : k[1] = stored.pack.id /\ k[3] = ch /\ sent[k] > 0
      BY DEF ChannelsSent
  <2>1. PICK s \in Slots : <<stored.pack.id, s, ch>> \in logged
      BY <1>1 DEF MissionSatisfied, Revises
  <2>2. <<stored.pack.id, s, ch>> \in Keys /\ sent[<<stored.pack.id, s, ch>>] > 0
      BY <2>1 DEF AnyInv, TypeOK, SendInv
  <2> QED BY <2>2
<1>6. closes /\ b.mission => MissionSatisfied(b)
    BY <1>1 DEF Revises
<1>7. ShowsOK(stored.pack)'
  <2>1. ShownOK(stored.pack)
      BY DEF EvidenceInv
  <2> QED BY <1>4, <2>1 DEF ShownOK, ShowsOK
<1>8. ShowsOK(cl[c].b.pack)'
    BY <1>2, <1>3, <1>4, <1>7 DEF ShowsOK
<1> QED BY <1>2, <1>3, <1>4, <1>5, <1>6, <1>8, SaveEvidence

(* The client saves the bundle it loaded with the pack p. *)
LEMMA RepackEvidence ==
    ASSUME AnyInv, EvidenceInv, NEW c \in Clients, NEW old, NEW p, Repacks(c, old, p),
           UNCHANGED renderings,
           p.id \notin recorded' => \A s \in p.delivered : s \in p.rendered \/ <<p.id, s>> \in renderings
    PROVE  EvidenceInv'
<1> DEFINE b == [old EXCEPT !.pack = p]
           t == Touched(b)
<1>1. b \in Bundle /\ b.pack = p /\ b.version < MaxVersion
    BY PackedType DEF Repacks
<1>2. SaveAs(c, b, FALSE)
    BY DEF Repacks, ToSave
<1> HIDE DEF b
<1>3. t.pack = p
    BY <1>1, TouchedType
<1>4. /\ \A d \in Clients : d # c => cl'[d] = cl[d]
      /\ cl'[c].pc = "saving" /\ cl'[c].b = t /\ cl'[c].closes = FALSE
    BY <1>1, <1>2, SaveAsOp DEF AnyInv
<1> HIDE DEF t
<1>5. UNCHANGED <<stored, logged, sent, closedPack>> /\ recorded \subseteq recorded'
    BY DEF Repacks
<1>6. ShowsOK(cl[c].b.pack)'
    BY <1>3, <1>4 DEF ShowsOK
<1> QED BY <1>4, <1>5, <1>6, SaveEvidence

LEMMA PackingEvidence ==
    ASSUME AnyInv, EvidenceInv, NEW c \in Clients,
           BuildDeliveryPack(c) \/ RecordDeliveryPack(c) \/ FinishRender(c) \/ FinishDispatch(c)
    PROVE  EvidenceInv'
<1>1. CASE BuildDeliveryPack(c)
  <2>1. PICK s \in SUBSET Slots : Repacks(c, stored, NewPack(s))
      BY <1>1, BuildRepacks
  <2>2. NewPack(s).delivered = {} /\ UNCHANGED renderings
      BY <1>1 DEF NewPack, BuildDeliveryPack, Saved
  <2> QED BY <2>1, <2>2, RepackEvidence
<1>2. CASE RecordDeliveryPack(c)
  <2>1. PICK p \in Pack : p.id = nextPack /\ Repacks(c, stored, p)
      BY <1>2, RecordRepacks
  <2>2. p.id \in recorded' /\ UNCHANGED renderings
      BY <1>2, <2>1 DEF RecordDeliveryPack, Saved
  <2> QED BY <2>1, <2>2, RepackEvidence
<1>3. CASE FinishRender(c)
  <2>1. PICK o \in RenderOutcomes, s \in Slots :
          Repacks(c, cl[c].b, Rendered(cl[c].b.pack, s, o)) /\ UNCHANGED <<nextPack, recorded>>
      BY <1>3, RenderRepacks
  <2> DEFINE p == Rendered(cl[c].b.pack, s, o)
  <2>2. p.delivered = p.rendered
      BY ClientType DEF AnyInv, Rendered, Pack
  <2>3. UNCHANGED renderings
      BY <1>3 DEF FinishRender, Saved
  <2> HIDE DEF p
  <2> QED BY <2>1, <2>2, <2>3, RepackEvidence DEF p
<1>4. CASE FinishDispatch(c)
  <2> DEFINE q == cl[c].b.pack
             p == Dispatched(q, cl[c].reached, cl[c].refused)
  <2>1. Repacks(c, cl[c].b, p) /\ UNCHANGED <<nextPack, recorded>>
      BY <1>4, DispatchRepacks
  <2>2. p.id = q.id /\ p.delivered = q.delivered \cup cl[c].reached
      BY ClientType DEF AnyInv, Dispatched, Pack
  <2>3. /\ ShownOK(q) /\ {q.id} \X cl[c].reached \subseteq renderings
        /\ UNCHANGED renderings
      BY <1>4 DEF FinishDispatch, Saved, EvidenceInv, CopyShown, Working, Dispatching
  <2>4. p.id \notin recorded' => \A s \in p.delivered : <<p.id, s>> \in renderings
      BY <2>1, <2>2, <2>3 DEF ShownOK
  <2> HIDE DEF p
  <2> QED BY <2>1, <2>3, <2>4, RepackEvidence
<1> QED BY <1>1, <1>2, <1>3, <1>4

LEMMA StartEvidence ==
    ASSUME AnyInv, EvidenceInv, NEW c \in Clients, StartRender(c) \/ StartDispatch(c)
    PROVE  EvidenceInv'
<1>1. /\ \A d \in Clients : d # c => cl'[d] = cl[d]
      /\ cl'[c].pc \in {"rendering", "dispatching"} /\ cl'[c].b = stored
      /\ cl'[c].pc = "dispatching" => cl'[c].reached = {}
      /\ UNCHANGED <<stored, nextPack, logged, sent, doubt, recorded, renderings, closedPack, overlaps>>
    BY StartOp
<1>2. ShownOK(cl[c].b.pack)'
    BY <1>1 DEF EvidenceInv, ShownOK
<1>3. CopyShown(c)'
    BY <1>1, <1>2 DEF CopyShown, Working, Dispatching, Keeping
<1> QED BY <1>1, <1>3, EvidenceStep

(* A step of a dispatch: the copy stays, and what is new of it was rendered. *)
LEMMA DispatchEvidence ==
    ASSUME EvidenceInv, NEW c \in Clients, Dispatching(c),
           \A d \in Clients : d # c => cl'[d] = cl[d],
           cl'[c].pc \in {"dispatching", "sending"}, cl'[c].b = cl[c].b,
           NEW more, cl'[c].reached \subseteq cl[c].reached \cup more,
           {cl[c].b.pack.id} \X more \subseteq renderings,
           UNCHANGED <<stored, recorded, renderings, closedPack>>,
           \A k \in logged' \ logged : <<k[1], k[2]>> \in renderings,
           \A k \in Keys : sent[k] > 0 => sent'[k] > 0
    PROVE  EvidenceInv'
<1>1. ShownOK(cl[c].b.pack) /\ {cl[c].b.pack.id} \X cl[c].reached \subseteq renderings
    BY DEF EvidenceInv, CopyShown, Working, Dispatching
<1>2. ShownOK(cl[c].b.pack)'
    BY <1>1 DEF ShownOK
<1>3. ({cl[c].b.pack.id} \X cl[c].reached \subseteq renderings)'
    BY <1>1
<1>4. ~Keeping(c)'
    BY DEF Keeping
<1>5. CopyShown(c)'
    BY <1>2, <1>3, <1>4 DEF CopyShown
<1> QED BY <1>5, EvidenceStep

LEMMA ReceiptEvidence ==
    ASSUME AnyInv, EvidenceInv, NEW c \in Clients,
           Duplicate(c) \/ Blocked(c) \/ Sent(c) \/ SendFailed(c)
    PROVE  EvidenceInv'
<1> USE DEF Outside, Saved
<1>1. CASE Duplicate(c) \/ Blocked(c)
  <2>1. PICK k \in cl[c].todo, success \in BOOLEAN :
          Receipt(c, k, success) /\ (success => k \in logged)
    <3>1. CASE Duplicate(c)
      <4>1. PICK k \in cl[c].todo : k \in logged /\ Receipt(c, k, TRUE)
          BY <3>1 DEF Duplicate
      <4> QED BY <4>1
    <3>2. CASE Blocked(c)
      <4>1. PICK k \in cl[c].todo : Receipt(c, k, FALSE)
          BY <3>2 DEF Blocked
      <4> QED BY <4>1
    <3> QED BY <1>1, <3>1, <3>2
  <2>2. Dispatching(c) /\ UNCHANGED <<stored, logged, sent, recorded, renderings, closedPack>>
      BY <1>1 DEF Duplicate, Blocked, Dispatching
  <2>3. k \in Keys /\ k[1] = cl[c].b.pack.id
      BY <2>2, ClientType DEF AnyInv, WorkInv
  <2>4. /\ \A d \in Clients : d # c => cl'[d] = cl[d]
        /\ cl'[c].pc = "dispatching" /\ cl'[c].b = cl[c].b
        /\ cl'[c].reached = IF success THEN cl[c].reached \cup {k[2]} ELSE cl[c].reached
      BY <2>1, <2>3, ReceiptOp DEF AnyInv
  <2> DEFINE more == IF success THEN {k[2]} ELSE {}
  <2>5. cl'[c].reached \subseteq cl[c].reached \cup more
      BY <2>4
  <2>6. {cl[c].b.pack.id} \X more \subseteq renderings
    <3>1. success => <<cl[c].b.pack.id, k[2]>> \in renderings
        BY <2>1, <2>3 DEF EvidenceInv
    <3> QED BY <3>1
  <2> HIDE DEF more
  <2> QED BY <2>2, <2>4, <2>5, <2>6, DispatchEvidence
<1>2. CASE Sent(c) \/ SendFailed(c)
  <2> DEFINE more == {cl[c].key[2]}
  <2>1. PICK success \in BOOLEAN : Receipt(c, cl[c].key, success)
      BY <1>2 DEF Sent, SendFailed
  <2>2. /\ cl[c].pc = "sending" /\ UNCHANGED <<stored, recorded, renderings, closedPack>>
        /\ logged' \in {logged, logged \cup {cl[c].key}}
        /\ UNCHANGED sent \/ GoesOut(cl[c].key)
      BY <1>2 DEF Sent, SendFailed, NoAnswer
  <2>3. /\ cl[c].key \in Keys /\ cl[c].key[1] = cl[c].b.pack.id
        /\ cl[c].key[2] \in cl[c].b.pack.rendered /\ Dispatching(c)
      BY <2>2, KeyType
  <2>4. /\ \A d \in Clients : d # c => cl'[d] = cl[d]
        /\ cl'[c].pc = "dispatching" /\ cl'[c].b = cl[c].b
        /\ cl'[c].reached \subseteq cl[c].reached \cup more
      BY <2>1, <2>3, ReceiptOp DEF AnyInv
  <2>5. \A k \in Keys : sent[k] > 0 => sent'[k] > 0
      BY <2>2, <2>3, GoesOutOp DEF AnyInv
  <2>6. ShownOK(cl[c].b.pack)
      BY <2>3 DEF EvidenceInv, CopyShown, Working, Dispatching
  <2>7. <<cl[c].b.pack.id, cl[c].key[2]>> \in renderings
      BY <2>3, <2>6 DEF ShownOK
  <2>8. \A k \in logged' \ logged : <<k[1], k[2]>> \in renderings
      BY <2>2, <2>3, <2>7
  <2>9. {cl[c].b.pack.id} \X more \subseteq renderings
      BY <2>7
  <2> HIDE DEF more
  <2> QED BY <2>2, <2>3, <2>4, <2>5, <2>8, <2>9, DispatchEvidence
<1> QED BY <1>1, <1>2

LEMMA AttemptEvidence ==
    ASSUME AnyInv, EvidenceInv, NEW c \in Clients, Attempt(c)
    PROVE  EvidenceInv'
<1>1. /\ \A d \in Clients : d # c => cl'[d] = cl[d]
      /\ cl'[c].pc = "sending" /\ cl'[c].b = cl[c].b /\ cl'[c].reached = cl[c].reached
    BY AttemptOp
<1>2. Dispatching(c) /\ UNCHANGED <<stored, logged, sent, recorded, renderings, closedPack>>
    BY DEF Attempt, Dispatching, Saved
<1>3. cl'[c].reached \subseteq cl[c].reached \cup {} /\ {cl[c].b.pack.id} \X {} \subseteq renderings
    BY <1>1
<1> QED BY <1>1, <1>2, <1>3, DispatchEvidence

(* A client gives up or dies. *)
LEMMA GiveUpOp ==
    ASSUME AnyInv, NEW c \in Clients,
           VersionConflict(c) \/ UpdateRefused(c) \/ SaveConflict(c) \/ Die(c)
    PROVE  /\ \A d \in Clients : d # c => cl'[d] = cl[d]
           /\ cl'[c].pc = "idle"
           /\ UNCHANGED <<stored, nextPack, logged, recorded, renderings, closedPack, overlaps>>
           /\ \A k \in Keys : sent[k] > 0 => sent'[k] > 0
<1>1. /\ cl' = [cl EXCEPT ![c] = Idle]
      /\ UNCHANGED <<stored, nextPack, logged, recorded, renderings, closedPack, overlaps>>
    BY DEF VersionConflict, UpdateRefused, SaveConflict, Die, Outside, Saved
<1>2. /\ \A d \in Clients : d # c => cl'[d] = cl[d]
      /\ cl'[c].pc = "idle"
    BY <1>1, ToIdleOp DEF AnyInv
<1>3. ASSUME NEW k \in Keys, sent[k] > 0 PROVE sent'[k] > 0
  <2>1. CASE Die(c)
      BY <1>3, <2>1, KeyType, GoesOutOp DEF Die, NoAnswer, AnyInv
  <2>2. CASE ~Die(c)
      BY <1>3, <2>2 DEF VersionConflict, UpdateRefused, SaveConflict, Outside
  <2> QED BY <2>1, <2>2
<1> QED BY <1>1, <1>2, <1>3

(* A client reads without keeping a copy. *)
LEMMA ReadOp ==
    ASSUME AnyInv, NEW c \in Clients, View(c) \/ StartVerifier(c)
    PROVE  /\ \A d \in Clients : d # c => cl'[d] = cl[d]
           /\ cl'[c].pc \in {"viewed", "verifying"}
           /\ UNCHANGED <<stored, logged, sent, recorded, renderings, closedPack, overlaps>>
<1>1. cl[c] \in Client
    BY ClientType DEF AnyInv
<1>2. /\ \A d \in Clients : d # c => cl'[d] = cl[d]
      /\ cl'[c].pc \in {"viewed", "verifying"}
  <2>1. CASE View(c)
    <3>1. cl' = [cl EXCEPT ![c] = [cl[c] EXCEPT !.pc = "viewed", !.expected = stored.version]]
        BY <2>1 DEF View, AnyInv, TypeOK, Client
    <3> QED BY <1>1, <3>1 DEF AnyInv, TypeOK, Client
  <2>2. CASE StartVerifier(c)
    <3>1. PICK r \in Runs : cl' = [cl EXCEPT ![c].pc = "verifying", ![c].run = r]
        BY <2>2 DEF StartVerifier
    <3>2. cl' = [cl EXCEPT ![c] = [cl[c] EXCEPT !.pc = "verifying", !.run = r]]
        BY <3>1 DEF AnyInv, TypeOK, Client
    <3> QED BY <1>1, <3>2 DEF AnyInv, TypeOK, Client
  <2> QED BY <2>1, <2>2
<1>3. UNCHANGED <<stored, logged, sent, recorded, renderings, closedPack, overlaps>>
    BY DEF View, StartVerifier, Outside, Saved
<1> QED BY <1>2, <1>3

LEMMA CheckEvidence ==
    ASSUME AnyInv, EvidenceInv, NEW c \in Clients, CheckVersion(c)
    PROVE  EvidenceInv'
<1>1. /\ \A d \in Clients : d # c => cl'[d] = cl[d]
      /\ cl'[c].pc = "writing" /\ cl'[c].b = cl[c].b /\ cl'[c].closes = cl[c].closes
      /\ UNCHANGED <<stored, nextPack, logged, sent, doubt, recorded, renderings, closedPack, overlaps>>
    BY CheckOp
<1>2. Keeping(c) /\ CopyShown(c)
    BY DEF CheckVersion, Keeping, EvidenceInv
<1>3. ShowsOK(cl[c].b.pack)'
    BY <1>1, <1>2 DEF CopyShown, ShowsOK
<1>4. (cl[c].closes /\ cl[c].b.mission)' => ChannelsSent(cl[c].b.pack.id)'
    BY <1>1, <1>2 DEF CopyShown, ChannelsSent
<1>5. CopyShown(c)'
    BY <1>1, <1>3, <1>4 DEF CopyShown, Working, Dispatching, Keeping
<1> QED BY <1>1, <1>5, EvidenceStep

(* What is stored goes on record. *)
LEMMA WriteEvidence ==
    ASSUME AnyInv, EvidenceInv, NEW c \in Clients, Write(c)
    PROVE  EvidenceInv'
<1> DEFINE b == cl[c].b
<1>1. /\ \A d \in Clients : d # c => cl'[d] = cl[d]
      /\ cl'[c].pc = "idle"
    BY ToIdleOp DEF AnyInv, Write
<1>2. /\ stored' = b /\ UNCHANGED <<logged, sent, recorded>>
      /\ renderings' = renderings \cup {<<b.pack.id, s>> : s \in b.pack.rendered}
      /\ closedPack' = IF cl[c].closes /\ b.mission THEN b.pack.id ELSE closedPack
    BY DEF Write, Commit, Outside
<1>3. Keeping(c) /\ CopyShown(c)
    BY DEF Write, Keeping, EvidenceInv
<1>4. ShowsOK(b.pack) /\ (cl[c].closes /\ b.mission => ChannelsSent(b.pack.id))
    BY <1>3 DEF CopyShown
<1> HIDE DEF b
<1>5. renderings \subseteq renderings' /\ {b.pack.id} \X b.pack.rendered \subseteq renderings'
    BY <1>2
<1>6. ShownOK(stored.pack)'
    BY <1>2, <1>4, <1>5 DEF ShownOK, ShowsOK
<1>7. ASSUME NEW d \in Clients PROVE CopyShown(d)'
  <2>1. CASE d = c
      BY <1>1, <2>1 DEF CopyShown, Working, Dispatching, Keeping
  <2>2. CASE d # c
    <3>1. cl'[d] = cl[d] /\ CopyShown(d)
        BY <1>1, <2>2 DEF EvidenceInv
    <3>2. Working(d)' => ShownOK(cl[d].b.pack)'
        BY <1>2, <1>5, <3>1 DEF CopyShown, Working, ShownOK
    <3>3. Dispatching(d)' => ({cl[d].b.pack.id} \X cl[d].reached \subseteq renderings)'
        BY <1>5, <3>1 DEF CopyShown, Dispatching
    <3>4. Keeping(d)' => ShowsOK(cl[d].b.pack)'
        BY <1>2, <1>5, <3>1 DEF CopyShown, Keeping, ShowsOK
    <3>5. (Keeping(d) /\ cl[d].closes /\ cl[d].b.mission)' => ChannelsSent(cl[d].b.pack.id)'
        BY <1>2, <3>1 DEF CopyShown, Keeping, ChannelsSent
    <3> QED BY <3>2, <3>3, <3>4, <3>5 DEF CopyShown
  <2> QED BY <2>1, <2>2
<1>8. closedPack' # 0 => ChannelsSent(closedPack)'
    BY <1>2, <1>4 DEF EvidenceInv, ChannelsSent
<1>9. \A k \in logged' : <<k[1], k[2]>> \in renderings'
    BY <1>2, <1>5 DEF EvidenceInv
<1> QED BY <1>6, <1>7, <1>8, <1>9 DEF EvidenceInv

LEMMA CreateEvidence ==
    ASSUME EvidenceInv, NEW c \in Clients, Create(c)
    PROVE  EvidenceInv'
<1>1. UNCHANGED <<cl, logged, sent, recorded, renderings, closedPack>>
    BY DEF Create, Outside, Saved
<1>2. stored'.pack.rendered = {} /\ stored'.pack.delivered = {}
  <2>1. PICK d \in SUBSET Slots, n \in BOOLEAN : stored' = NewContract(d, n)
      BY DEF Create
  <2> QED BY <2>1 DEF NewContract, NoPack
<1>3. ShownOK(stored.pack)'
    BY <1>2 DEF ShownOK
<1>4. ASSUME NEW d \in Clients PROVE CopyShown(d)'
    BY <1>1 DEF EvidenceInv, CopyShown, Working, Dispatching, Keeping, ShownOK, ShowsOK, ChannelsSent
<1> QED BY <1>1, <1>3, <1>4 DEF EvidenceInv, ChannelsSent

LEMMA StutterEvidence ==
    ASSUME EvidenceInv, UNCHANGED vars
    PROVE  EvidenceInv'
BY DEF vars, EvidenceInv, CopyShown, Working, Dispatching, Keeping, ShownOK, ShowsOK, ChannelsSent

LEMMA InitEvidence ==
    ASSUME Init
    PROVE  EvidenceInv
<1>1. \A c \in Clients : cl[c].pc = "idle"
    BY DEF Init, Idle
<1>2. /\ stored.pack.rendered = {} /\ stored.pack.delivered = {}
      /\ logged = {} /\ closedPack = 0
    BY DEF Init, NoBundle, NoPack
<1> QED BY <1>1, <1>2 DEF EvidenceInv, CopyShown, ShownOK, Working, Dispatching, Keeping

(* Every step, in the order of Next. *)
LEMMA NextEvidence ==
    ASSUME AnyInv, EvidenceInv, [Next]_vars
    PROVE  EvidenceInv'
<1>1. ASSUME NEW c \in Clients, Edits(c) PROVE EvidenceInv'
  <2>1. CASE Create(c)
      BY <2>1, CreateEvidence
  <2>2. CASE View(c) \/ StartVerifier(c)
      BY <2>2, ReadOp, RestEvidence
  <2>3. CASE VersionConflict(c) \/ UpdateRefused(c)
      BY <2>3, GiveUpOp, RestEvidence
  <2>4. CASE Revision(c)
      BY <2>4, RevisionEvidence
  <2>5. CASE BuildDeliveryPack(c) \/ RecordDeliveryPack(c)
      BY <2>5, PackingEvidence
  <2> QED BY <1>1, <2>1, <2>2, <2>3, <2>4, <2>5 DEF Edits, Revision
<1>2. ASSUME NEW c \in Clients, Delivers(c) PROVE EvidenceInv'
  <2>1. CASE StartRender(c) \/ StartDispatch(c)
      BY <2>1, StartEvidence
  <2>2. CASE FinishRender(c) \/ FinishDispatch(c)
      BY <2>2, PackingEvidence
  <2>3. CASE Duplicate(c) \/ Blocked(c) \/ Sent(c) \/ SendFailed(c)
      BY <2>3, ReceiptEvidence
  <2>4. CASE Attempt(c)
      BY <2>4, AttemptEvidence
  <2> QED BY <1>2, <2>1, <2>2, <2>3, <2>4 DEF Delivers
<1>3. ASSUME NEW c \in Clients, Saves(c) PROVE EvidenceInv'
  <2>1. CASE SaveConflict(c) \/ Die(c)
      BY <2>1, GiveUpOp, RestEvidence
  <2>2. CASE CheckVersion(c)
      BY <2>2, CheckEvidence
  <2>3. CASE Write(c)
      BY <2>3, WriteEvidence
  <2> QED BY <1>3, <2>1, <2>2, <2>3 DEF Saves
<1> QED BY <1>1, <1>2, <1>3, StutterEvidence, ClientAssumption DEF Next

THEOREM EvidenceInvariant == Spec => [](AnyInv /\ EvidenceInv)
<1>1. Init => AnyInv /\ EvidenceInv
    BY InitAny, InitEvidence
<1>2. (AnyInv /\ EvidenceInv) /\ [Next]_vars => (AnyInv /\ EvidenceInv)'
    BY NextAny, NextEvidence
<1> QED BY <1>1, <1>2, PTL DEF Spec

-----------------------------------------------------------------------------
(* The copies, until a save is written in the window of another.           *)

(* What has passed the check still follows what is stored. *)
CheckedInv == \A c \in Clients : cl[c].pc = "writing" => cl[c].b.version = stored.version + 1

AgeInv ==
    /\ stored.status = "none" => stored.version = 0 /\ stored.autoRuns = {}
    /\ \A c \in Clients : /\ Working(c) => cl[c].b.version <= stored.version
                          /\ Keeping(c) => cl[c].b.version <= stored.version + 1
                          /\ Working(c) \/ Keeping(c) => stored.status # "none"

(* b is a copy of the stored bundle after one edit. *)
Follows(b) ==
    /\ stored.status # "none"
    /\ b.status = stored.status \/ b.status \in Allowed[stored.status]
    /\ stored.autoRuns \subseteq b.autoRuns

Fresh(c) == Keeping(c) /\ cl[c].b.version = stored.version + 1
CopyInv == \A c \in Clients :
    /\ Working(c) /\ cl[c].b.version = stored.version => cl[c].b = stored
    /\ Fresh(c) => Follows(cl[c].b)

CurrentInv == CheckedInv /\ AgeInv /\ CopyInv
UntilOverlap == overlaps = 0 => CurrentInv

(* What a step of c that does not write has to show of its copy. *)
NewCopy(c) ==
    /\ Working(c) => /\ cl[c].b.version <= stored.version
                     /\ cl[c].b.version = stored.version => cl[c].b = stored
    /\ Keeping(c) => cl[c].b.version <= stored.version + 1
    /\ Working(c) \/ Keeping(c) => stored.status # "none"
    /\ Fresh(c) => Follows(cl[c].b)
    /\ cl[c].pc = "writing" => cl[c].b.version = stored.version + 1

LEMMA CurrentStep ==
    ASSUME CurrentInv, NEW c \in Clients,
           \A d \in Clients : d # c => cl'[d] = cl[d],
           UNCHANGED stored, NewCopy(c)'
    PROVE  CurrentInv'
<1>1. CheckedInv'
    BY DEF NewCopy, CurrentInv, CheckedInv
<1>2. AgeInv'
    BY DEF NewCopy, CurrentInv, AgeInv, Working, Keeping
<1>3. CopyInv'
    BY DEF NewCopy, CurrentInv, CopyInv, Working, Keeping, Fresh, Follows
<1> QED BY <1>1, <1>2, <1>3 DEF CurrentInv

(* A client gives up, or waits without a copy of its own. *)
LEMMA RestCurrent ==
    ASSUME CurrentInv, NEW c \in Clients,
           \A d \in Clients : d # c => cl'[d] = cl[d],
           cl'[c].pc \in {"idle", "viewed", "verifying"}, UNCHANGED stored
    PROVE  CurrentInv'
<1>1. NewCopy(c)'
    BY DEF NewCopy, Working, Keeping, Fresh
<1> QED BY <1>1, CurrentStep

LEMMA RevisionCurrent ==
    ASSUME AnyInv, CurrentInv, NEW c \in Clients, Revision(c)
    PROVE  CurrentInv'
<1>1. PICK b \in Bundle, closes \in BOOLEAN : Revises(c, b, closes)
    BY RevisionRevises
<1> DEFINE t == Touched(b)
<1>2. /\ t.version = stored.version + 1 /\ t.status = b.status /\ t.autoRuns = b.autoRuns
    BY <1>1, TouchedType DEF Revises, Readable
<1>3. /\ \A d \in Clients : d # c => cl'[d] = cl[d]
      /\ cl'[c].pc = "saving" /\ cl'[c].b = t
    BY <1>1, SaveAsOp DEF Revises, Readable, AnyInv
<1> HIDE DEF t
<1>4. UNCHANGED stored /\ stored.version \in Nat
    BY <1>1, StoredType DEF Revises, AnyInv
<1>5. Follows(t)
    BY <1>1, <1>2 DEF Revises, Readable, Follows
<1>6. NewCopy(c)'
    BY <1>2, <1>3, <1>4, <1>5 DEF NewCopy, Working, Keeping, Follows
<1> QED BY <1>3, <1>4, <1>6, CurrentStep

(* The client saves the bundle it loaded with another pack. *)
LEMMA RepackCurrent ==
    ASSUME AnyInv, CurrentInv, NEW c \in Clients, NEW old, NEW p, Repacks(c, old, p),
           stored.status # "none", old.version <= stored.version,
           old.version = stored.version =>
             old.status = stored.status /\ old.autoRuns = stored.autoRuns
    PROVE  CurrentInv'
<1> DEFINE b == [old EXCEPT !.pack = p]
           t == Touched(b)
<1>1. /\ b \in Bundle /\ b.version = old.version /\ b.status = old.status
      /\ b.autoRuns = old.autoRuns
    BY PackedType DEF Repacks
<1>2. SaveAs(c, b, FALSE) /\ b.version < MaxVersion
    BY <1>1 DEF Repacks, ToSave
<1> HIDE DEF b
<1>3. t.version = old.version + 1 /\ t.status = old.status /\ t.autoRuns = old.autoRuns
    BY <1>1, <1>2, TouchedType
<1>4. /\ \A d \in Clients : d # c => cl'[d] = cl[d]
      /\ cl'[c].pc = "saving" /\ cl'[c].b = t
    BY <1>1, <1>2, SaveAsOp DEF AnyInv
<1> HIDE DEF t
<1>5. UNCHANGED stored /\ stored.version \in Nat /\ old.version \in Nat
    BY StoredType, BoundAssumption DEF Repacks, AnyInv, Bundle
<1>6. NewCopy(c)'
    BY <1>3, <1>4, <1>5 DEF NewCopy, Working, Keeping, Fresh, Follows
<1> QED BY <1>4, <1>5, <1>6, CurrentStep

LEMMA PackingCurrent ==
    ASSUME AnyInv, CurrentInv, NEW c \in Clients,
           BuildDeliveryPack(c) \/ RecordDeliveryPack(c) \/ FinishRender(c) \/ FinishDispatch(c)
    PROVE  CurrentInv'
<1>1. CASE BuildDeliveryPack(c) \/ RecordDeliveryPack(c)
  <2>1. \E p : Repacks(c, stored, p)
      BY <1>1, BuildRepacks, RecordRepacks
  <2>2. stored.status # "none" /\ stored.version <= stored.version
      BY <1>1, StoredType DEF AnyInv, BuildDeliveryPack, RecordDeliveryPack, Loads, Readable
  <2> QED BY <2>1, <2>2, RepackCurrent
<1>2. CASE FinishRender(c) \/ FinishDispatch(c)
  <2>1. \E p : Repacks(c, cl[c].b, p)
      BY <1>2, RenderRepacks, DispatchRepacks
  <2>2. Working(c)
      BY <1>2 DEF FinishRender, FinishDispatch, Working
  <2>3. /\ stored.status # "none" /\ cl[c].b.version <= stored.version
        /\ cl[c].b.version = stored.version => cl[c].b = stored
      BY <2>2 DEF CurrentInv, AgeInv, CopyInv
  <2> QED BY <2>1, <2>3, RepackCurrent
<1> QED BY <1>1, <1>2

LEMMA StartCurrent ==
    ASSUME AnyInv, CurrentInv, NEW c \in Clients, StartRender(c) \/ StartDispatch(c)
    PROVE  CurrentInv'
<1>1. /\ \A d \in Clients : d # c => cl'[d] = cl[d]
      /\ cl'[c].pc \in {"rendering", "dispatching"} /\ cl'[c].b = stored
      /\ Readable /\ UNCHANGED stored
    BY StartOp
<1>2. stored.version \in Nat
    BY StoredType DEF AnyInv
<1>3. NewCopy(c)'
    BY <1>1, <1>2 DEF NewCopy, Working, Keeping, Fresh, Readable
<1> QED BY <1>1, <1>3, CurrentStep

(* A step of a dispatch: the copy stays. *)
LEMMA DispatchCurrent ==
    ASSUME AnyInv, CurrentInv, NEW c \in Clients,
           Duplicate(c) \/ Blocked(c) \/ Attempt(c) \/ Sent(c) \/ SendFailed(c)
    PROVE  CurrentInv'
<1>1. Working(c) /\ UNCHANGED stored
    BY DEF Duplicate, Blocked, Attempt, Sent, SendFailed, Working
<1>2. /\ \A d \in Clients : d # c => cl'[d] = cl[d]
      /\ cl'[c].pc \in {"dispatching", "sending"} /\ cl'[c].b = cl[c].b
  <2>1. CASE Attempt(c)
      BY <2>1, AttemptOp
  <2>2. CASE ~Attempt(c)
    <3>1. \E k \in Keys, success \in BOOLEAN : Receipt(c, k, success)
      <4>1. CASE Duplicate(c) \/ Blocked(c)
        <5>1. \E k \in cl[c].todo : Receipt(c, k, TRUE) \/ Receipt(c, k, FALSE)
            BY <4>1 DEF Duplicate, Blocked
        <5> QED BY <5>1, ClientType DEF AnyInv
      <4>2. CASE Sent(c) \/ SendFailed(c)
        <5>1. cl[c].pc = "sending" /\ (Receipt(c, cl[c].key, TRUE) \/ Receipt(c, cl[c].key, FALSE))
            BY <4>2 DEF Sent, SendFailed
        <5> QED BY <5>1, KeyType
      <4> QED BY <2>2, <4>1, <4>2
    <3> QED BY <3>1, ReceiptOp DEF AnyInv
  <2> QED BY <2>1, <2>2
<1>3. NewCopy(c)'
    BY <1>1, <1>2 DEF NewCopy, Working, Keeping, Fresh, CurrentInv, AgeInv, CopyInv
<1> QED BY <1>1, <1>2, <1>3, CurrentStep

(* The version check: the copy is the next version of what is stored. *)
LEMMA CheckCurrent ==
    ASSUME AnyInv, CurrentInv, NEW c \in Clients, CheckVersion(c)
    PROVE  CurrentInv'
<1>1. /\ \A d \in Clients : d # c => cl'[d] = cl[d]
      /\ cl'[c].pc = "writing" /\ cl'[c].b = cl[c].b /\ UNCHANGED stored
    BY CheckOp
<1>2. stored.version \in Nat /\ cl[c].b.version \in Nat
    BY StoredType, ClientType DEF AnyInv
<1>3. cl[c].b.version = stored.version + 1 /\ Fresh(c) /\ stored.status # "none"
    BY <1>2 DEF CheckVersion, Fresh, Keeping, CurrentInv, AgeInv
<1>4. Follows(cl[c].b)
    BY <1>3 DEF CurrentInv, CopyInv
<1>5. NewCopy(c)'
    BY <1>1, <1>2, <1>3, <1>4 DEF NewCopy, Working, Keeping, Follows
<1> QED BY <1>1, <1>5, CurrentStep

(* What a client stores follows what was stored. *)
LEMMA WriteFollows ==
    ASSUME CurrentInv, NEW c \in Clients, Write(c)
    PROVE  /\ stored' = cl[c].b /\ stored'.version = stored.version + 1
           /\ Follows(cl[c].b)
<1>1. cl[c].pc = "writing" /\ stored' = cl[c].b
    BY DEF Write, Commit
<1>2. cl[c].b.version = stored.version + 1
    BY <1>1 DEF CurrentInv, CheckedInv
<1>3. Fresh(c)
    BY <1>1, <1>2 DEF Fresh, Keeping
<1> QED BY <1>1, <1>2, <1>3 DEF CurrentInv, CopyInv

(* A save without an overlap: nobody else has passed the check. *)
LEMMA WriteCurrent ==
    ASSUME AnyInv, CurrentInv, NEW c \in Clients, Write(c), Others(c) = {}
    PROVE  CurrentInv'
<1> DEFINE b == cl[c].b
<1>1. stored' = b /\ b.version = stored.version + 1 /\ Follows(b)
    BY WriteFollows
<1>2. /\ \A d \in Clients : d # c => cl'[d] = cl[d]
      /\ cl'[c].pc = "idle"
    BY ToIdleOp DEF AnyInv, Write
<1>3. /\ stored.version \in Nat /\ stored.status \in Statuses
      /\ \A d \in Clients : cl[d].b.version \in Nat
    BY StoredType, ClientType DEF AnyInv, Bundle
<1> HIDE DEF b
<1>4. b.status # "none"
    BY <1>1, <1>3 DEF Follows, Statuses, Allowed
<1>5. ASSUME NEW d \in Clients, (Working(d) \/ Keeping(d))'
      PROVE  /\ cl'[d] = cl[d] /\ cl[d].pc # "writing"
             /\ Working(d)' => cl[d].b.version <= stored.version
             /\ cl[d].b.version <= stored.version + 1
  <2>1. d # c /\ cl'[d] = cl[d]
      BY <1>2, <1>5 DEF Working, Keeping
  <2>2. cl[d].pc # "writing"
      BY <2>1 DEF Others
  <2> QED BY <1>3, <1>5, <2>1, <2>2 DEF CurrentInv, AgeInv, Working, Keeping
<1>6. CheckedInv'
    BY <1>5 DEF CheckedInv, Keeping
<1>7. AgeInv'
    BY <1>1, <1>3, <1>4, <1>5 DEF AgeInv
<1>8. CopyInv'
    BY <1>1, <1>3, <1>5 DEF CopyInv, Fresh
<1> QED BY <1>6, <1>7, <1>8 DEF CurrentInv

LEMMA CreateCurrent ==
    ASSUME CurrentInv, NEW c \in Clients, Create(c)
    PROVE  CurrentInv'
<1>1. /\ stored.status = "none" /\ UNCHANGED cl
      /\ stored'.version = 1 /\ stored'.status = "draft"
  <2>1. PICK d \in SUBSET Slots, n \in BOOLEAN : stored' = NewContract(d, n)
      BY DEF Create
  <2> QED BY <2>1 DEF Create, NewContract
<1>2. \A d \in Clients : ~Working(d) /\ ~Keeping(d) /\ cl[d].pc # "writing"
    BY <1>1 DEF CurrentInv, AgeInv, Keeping
<1>3. \A d \in Clients : ~Working(d)' /\ ~Keeping(d)' /\ cl'[d].pc # "writing"
    BY <1>1, <1>2 DEF Working, Keeping
<1> QED BY <1>1, <1>3 DEF CurrentInv, CheckedInv, AgeInv, CopyInv, Fresh

LEMMA InitCurrent ==
    ASSUME Init
    PROVE  CurrentInv
<1>1. \A c \in Clients : cl[c].pc = "idle"
    BY DEF Init, Idle
<1>2. stored.version = 0 /\ stored.autoRuns = {}
    BY DEF Init, NoBundle
<1> QED BY <1>1, <1>2
        DEF CurrentInv, CheckedInv, AgeInv, CopyInv, Fresh, Working, Keeping

(* What a step does to the stored bundle and to the count of overlaps. *)
LEMMA StoredStep ==
    ASSUME [Next]_vars
    PROVE  \/ UNCHANGED <<stored, overlaps>>
           \/ \E c \in Clients : Create(c) /\ UNCHANGED overlaps
           \/ \E c \in Clients : Write(c) /\ Others(c) = {} /\ UNCHANGED overlaps
           \/ \E c \in Clients : Write(c) /\ overlaps' = overlaps + 1
<1>1. CASE \E c \in Editors : Edits(c)
  <2>1. \/ UNCHANGED <<stored, overlaps>>
        \/ \E c \in Editors : Create(c) /\ UNCHANGED overlaps
      BY <1>1 DEF Edits, Create, View, VersionConflict, Update, Close, UpdateRefused,
           EditAssumption, RecordReviewVerdict, StartVerifier, RecordAutoVerdict,
           BuildDeliveryPack, RecordDeliveryPack, Saved
  <2> QED BY <2>1, ClientAssumption
<1>2. CASE \E c \in Clients : Delivers(c)
    BY <1>2 DEF Delivers, StartRender, FinishRender, StartDispatch, Duplicate, Blocked, Attempt,
         Sent, SendFailed, FinishDispatch, Saved
<1>3. CASE \E c \in Clients : Saves(c)
    BY <1>3 DEF Saves, SaveConflict, CheckVersion, Write, Die, Saved
<1>4. CASE UNCHANGED vars
    BY <1>4 DEF vars
<1> QED BY <1>1, <1>2, <1>3, <1>4 DEF Next

(* Every step without an overlap, in the order of Next. *)
LEMMA NextCurrent ==
    ASSUME AnyInv, CurrentInv, [Next]_vars, overlaps' = overlaps
    PROVE  CurrentInv'
<1>1. ASSUME NEW c \in Clients, Edits(c) PROVE CurrentInv'
  <2>1. CASE Create(c)
      BY <2>1, CreateCurrent
  <2>2. CASE View(c) \/ StartVerifier(c)
      BY <2>2, ReadOp, RestCurrent
  <2>3. CASE VersionConflict(c) \/ UpdateRefused(c)
      BY <2>3, GiveUpOp, RestCurrent
  <2>4. CASE Revision(c)
      BY <2>4, RevisionCurrent
  <2>5. CASE BuildDeliveryPack(c) \/ RecordDeliveryPack(c)
      BY <2>5, PackingCurrent
  <2> QED BY <1>1, <2>1, <2>2, <2>3, <2>4, <2>5 DEF Edits, Revision
<1>2. ASSUME NEW c \in Clients, Delivers(c) PROVE CurrentInv'
  <2>1. CASE StartRender(c) \/ StartDispatch(c)
      BY <2>1, StartCurrent
  <2>2. CASE FinishRender(c) \/ FinishDispatch(c)
      BY <2>2, PackingCurrent
  <2>3. CASE Duplicate(c) \/ Blocked(c) \/ Attempt(c) \/ Sent(c) \/ SendFailed(c)
      BY <2>3, DispatchCurrent
  <2> QED BY <1>2, <2>1, <2>2, <2>3 DEF Delivers
<1>3. ASSUME NEW c \in Clients, Saves(c) PROVE CurrentInv'
  <2>1. CASE SaveConflict(c) \/ Die(c)
      BY <2>1, GiveUpOp, RestCurrent
  <2>2. CASE CheckVersion(c)
      BY <2>2, CheckCurrent
  <2>3. CASE Write(c)
    <3>1. overlaps \in Nat
        BY BoundAssumption DEF AnyInv, TypeOK
    <3>2. Others(c) = {}
        BY <2>3, <3>1 DEF Write
    <3> QED BY <2>3, <3>2, WriteCurrent
  <2> QED BY <1>3, <2>1, <2>2, <2>3 DEF Saves
<1>4. CASE UNCHANGED vars
    BY <1>4 DEF vars, CurrentInv, CheckedInv, AgeInv, CopyInv, Fresh, Follows, Working, Keeping
<1> QED BY <1>1, <1>2, <1>3, <1>4, ClientAssumption DEF Next

(* Until the first overlap every copy is as old as its version says (save_bundle). *)
THEOREM CurrentInvariant == Spec => [](AnyInv /\ UntilOverlap)
<1>1. Init => AnyInv /\ UntilOverlap
    BY InitAny, InitCurrent DEF UntilOverlap
<1>2. (AnyInv /\ UntilOverlap) /\ [Next]_vars => (AnyInv /\ UntilOverlap)'
  <2> SUFFICES ASSUME AnyInv, UntilOverlap, [Next]_vars, overlaps' = 0
               PROVE  CurrentInv'
      BY NextAny DEF UntilOverlap
  <2>1. overlaps \in Nat
      BY BoundAssumption DEF AnyInv, TypeOK
  <2>2. overlaps = 0
      BY <2>1, StoredStep
  <2> QED BY <2>2, NextCurrent DEF UntilOverlap
<1> QED BY <1>1, <1>2, PTL DEF Spec

-----------------------------------------------------------------------------
(* The properties, whatever overlaps.                                      *)

LEMMA KeyParts ==
    ASSUME NEW k \in Keys
    PROVE  k[2] \in Slots /\ k[3] \in Channels /\ k = <<k[1], k[2], k[3]>>
BY DEF Keys

(* Every variable keeps its type: versions and packs stay in their bounds, and every copy *)
(* a client works on is a bundle a store may hold.                                        *)
THEOREM TypeCorrect == Spec => []TypeOK
<1>1. AnyInv => TypeOK
    BY DEF AnyInv
<1> QED BY <1>1, InductiveInvariant, PTL

(* A contract in review or closed carries a verdict of the automatic verifier, even where *)
(* updates are lost (_ensure_auto_verifier_evidence, save_bundle).                        *)
THEOREM ReviewHasVerdict == Spec => []ReviewHasAutoVerdict
<1>1. AnyInv => ReviewHasAutoVerdict
    BY DEF AnyInv, BundleInv, VerdictOK, ReviewHasAutoVerdict
<1> QED BY <1>1, InductiveInvariant, PTL

(* A pack marked dispatched by a dispatch went out (DispatchDeliveryPackUseCase). *)
THEOREM DispatchedSent == Spec => []DispatchedWasSent
<1>1. AnyInv => DispatchedWasSent
    BY KeyParts DEF AnyInv, BundleInv, PackOK, AnySent, DispatchedWasSent
<1> QED BY <1>1, InductiveInvariant, PTL

(* A key goes out twice only where a send went unrecorded or two dispatches overlapped *)
(* (DeliveryRouter._dispatch_one, successful_dispatch_for).                            *)
THEOREM SentAtMostOnce == Spec => []SentOnce
<1>1. AnyInv => SentOnce
    BY DEF AnyInv, SendInv, SentOnce
<1> QED BY <1>1, InductiveInvariant, PTL

(* What the application marks delivered was rendered in that pack, however saves overlap *)
(* (_synchronize_views, DispatchDeliveryPackUseCase, successful_dispatch_for).           *)
THEOREM DeliveredRendered == Spec => []DeliveredWasRendered
<1>1. EvidenceInv => DeliveredWasRendered
    BY DEF EvidenceInv, ShownOK, DeliveredWasRendered
<1> QED BY <1>1, EvidenceInvariant, PTL

(* A mission's contract closes with a pack that went out on every required channel, even *)
(* where a stale copy is stored over what was read (mission_required_delivery_channels). *)
THEOREM ClosedSent == Spec => []ClosedWasSent
<1>1. EvidenceInv => ClosedWasSent
    BY KeyParts DEF EvidenceInv, ChannelsSent, ClosedWasSent
<1> QED BY <1>1, EvidenceInvariant, PTL

-----------------------------------------------------------------------------
(* The properties that the first overlap ends.                             *)

(* A closed or abandoned contract leaves its status only once a save was written in the *)
(* window of another (validate_transition, save_bundle).                                *)
THEOREM TerminalFinal ==
    Spec => [][stored.status \in {"closed", "abandoned"} /\ stored'.status # stored.status
                 => overlaps' > 0]_vars
<1>1. ASSUME AnyInv, UntilOverlap, [Next]_vars
      PROVE  [stored.status \in {"closed", "abandoned"} /\ stored'.status # stored.status
                => overlaps' > 0]_vars
  <2> SUFFICES ASSUME stored.status \in {"closed", "abandoned"}, ~(overlaps' > 0)
               PROVE  stored'.status = stored.status
      OBVIOUS
  <2>1. overlaps \in Nat
      BY <1>1, BoundAssumption DEF AnyInv, TypeOK
  <2>2. overlaps = 0 /\ overlaps' = 0
      BY <1>1, <2>1, StoredStep DEF Write
  <2>3. \A c \in Clients : ~Create(c)
      BY DEF Create
  <2>4. ASSUME NEW c \in Clients, Write(c) PROVE stored'.status = stored.status
      BY <1>1, <2>2, <2>4, WriteFollows DEF Follows, Allowed, UntilOverlap
  <2> QED BY <1>1, <2>3, <2>4, StoredStep
<1> QED BY <1>1, CurrentInvariant, PTL DEF Spec

(* TaskContract implements ContractPromise: it starts where the promise starts, and every *)
(* step is an edit of the promise, changes nothing of it, or comes after an overlap.      *)
THEOREM Implements == Spec => KeepsPromise
<1>1. Init => Promised!Begin
    BY DEF Init, NoBundle, Promised!Begin
<1>2. ASSUME AnyInv, AnyInv', UntilOverlap, [Next]_vars
      PROVE  [Promised!Edit \/ Promised!Overlap]_Promised!promised
  <2>1. stored'.autoRuns \subseteq Runs /\ stored.status \in Statuses /\ overlaps \in Nat
      BY <1>2, StoredType, BoundAssumption DEF AnyInv, TypeOK, Bundle
  <2>2. overlaps' \in {overlaps, overlaps + 1}
      BY <1>2, StoredStep
  <2>3. CASE overlaps' > 0
      BY <2>3 DEF Promised!Overlap
  <2>4. CASE overlaps' = 0
    <3>1. CurrentInv /\ overlaps = 0
        BY <1>2, <2>1, <2>2, <2>4 DEF UntilOverlap
    <3>2. CASE UNCHANGED stored
        BY <2>4, <3>1, <3>2 DEF Promised!promised
    <3>3. ASSUME NEW c \in Clients, Create(c) PROVE Promised!Edit
      <4>1. PICK d \in SUBSET Slots, n \in BOOLEAN : stored' = NewContract(d, n)
          BY <3>3 DEF Create
      <4>2. stored.status = "none" /\ stored.version = 0 /\ stored.autoRuns = {}
          BY <3>1, <3>3 DEF Create, CurrentInv, AgeInv
      <4>3. stored'.status = "draft" /\ stored'.version = 1
          BY <4>1 DEF NewContract
      <4> QED BY <2>1, <2>4, <4>2, <4>3 DEF Promised!Edit, Promised!Edges
    <3>4. ASSUME NEW c \in Clients, Write(c) PROVE Promised!Edit
      <4>1. /\ stored'.version = stored.version + 1 /\ stored.status # "none"
            /\ stored'.status = stored.status \/ stored'.status \in Allowed[stored.status]
            /\ stored.autoRuns \subseteq stored'.autoRuns
          BY <3>1, <3>4, WriteFollows DEF Follows
      <4>2. Allowed[stored.status] = Promised!Edges[stored.status]
          BY <2>1, <4>1 DEF Statuses, Allowed, Promised!Edges
      <4> QED BY <2>1, <2>4, <4>1, <4>2 DEF Promised!Edit
    <3> QED BY <1>2, <3>2, <3>3, <3>4, StoredStep
  <2> QED BY <2>1, <2>2, <2>3, <2>4
<1> QED BY <1>1, <1>2, CurrentInvariant, PTL DEF Spec, KeepsPromise, Promised!Promise
=============================================================================
