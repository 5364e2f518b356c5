--------------------------- MODULE WorkloadsProofs ---------------------------
(* Theorems about Workloads, for any workloads, commands and setbacks. *)
EXTENDS Workloads, TLAPS

USE WorkloadsAssumption DEF WorkloadsAssumption

LEMMA TypeInit == Init => TypeOK
<1> SUFFICES ASSUME Init PROVE TypeOK
  OBVIOUS
<1>1. /\ state \in [Objects -> States] /\ seen \in [Objects -> States]
      /\ Applications \cap Existing = {}
  BY DEF Init, States, Existing
<1>2. pc \in Resting /\ kind \in 1 .. 4 /\ setbacks \in 0 .. MaxSetbacks
  BY DEF Init, Resting
<1> QED
  BY <1>1, <1>2, Zenon DEF Init, TypeOK

LEMMA ChangeType ==
    ASSUME TypeOK, NEW o \in Objects, NEW s \in States, Change(o, s),
           crd' = crd, setbacks' \in 0 .. MaxSetbacks,
           s # "absent" /\ o \in Applications => crd
    PROVE  TypeOK'
<1>1. state' \in [Objects -> States] /\ moved' \subseteq Objects
  BY DEF Change, TypeOK
<1>2. crd \/ Applications \cap Existing' = {}
  BY DEF Change, TypeOK, Existing
<1>3. unsettled' \in BOOLEAN
  BY Zenon DEF Change, TypeOK
<1> QED
  BY <1>1, <1>2, <1>3 DEF Change, TypeOK

LEMMA TypeInductive == TypeOK /\ [Next]_vars => TypeOK'
<1> SUFFICES ASSUME TypeOK, [Next]_vars PROVE TypeOK'
  OBVIOUS
<1> USE DEF States, Resting, cluster, round, Return
<1>1. CASE Begin
  BY <1>1 DEF Begin, TypeOK, Existing
<1>2. CASE NewRESTClient
  BY <1>2 DEF NewRESTClient, Round, TypeOK, Existing
<1>3. CASE HasApplications
  BY <1>3 DEF HasApplications, TypeOK, Existing
<1>4. CASE List
  BY <1>4 DEF List, LastKind, TypeOK, Existing
<1>5. CASE AreWorkloadsReady
  <2>1. shown' \in BOOLEAN
    BY <1>5, Zenon DEF AreWorkloadsReady, TypeOK
  <2>2. pc' \in {"sleep", "ok"} /\ result' \in {"none", "ready", "shown", "timeout", "error"}
    BY <1>5 DEF AreWorkloadsReady, Verdict, TypeOK
  <2> QED
    BY <1>5, <2>1, <2>2 DEF AreWorkloadsReady, TypeOK, Existing
<1>6. CASE Poll
  BY <1>6 DEF Poll, Round, TypeOK, Existing
<1>7. CASE Timeout
  <2>1. unsettled' \in BOOLEAN
    BY <1>7, Zenon DEF Timeout
  <2> QED
    BY <1>7, <2>1 DEF Timeout, TypeOK, Existing
<1>8. ASSUME NEW o \in Objects, Create(o) PROVE TypeOK'
  BY <1>8, ChangeType DEF Create, Change, TypeOK
<1>9. ASSUME NEW o \in Objects, Settle(o) PROVE TypeOK'
  BY <1>9, ChangeType DEF Settle, Change, TypeOK, Existing
<1>10. ASSUME NEW o \in Objects, Setback(o) PROVE TypeOK'
  <2>1. PICK s \in States : Change(o, s)
    BY <1>10 DEF Setback
  <2>2. o \in Applications => crd
    BY <1>10 DEF Setback, TypeOK, Existing
  <2> QED
    BY <1>10, <2>1, <2>2, ChangeType DEF Setback, TypeOK
<1>11. CASE KnowApplications
  BY <1>11 DEF KnowApplications, TypeOK, Existing
<1>12. CASE UNCHANGED vars
  BY <1>12 DEF vars, TypeOK, Existing
<1> QED
  BY <1>1, <1>2, <1>3, <1>4, <1>5, <1>6, <1>7, <1>8, <1>9, <1>10, <1>11, <1>12
  DEF Next, Wait, Cluster

(* Every variable keeps a value the program or the cluster can give it. *)
THEOREM TypeCorrect == Spec => []TypeOK
  BY TypeInit, TypeInductive, PTL DEF Spec

-----------------------------------------------------------------------------
(***************************************************************************)
(* Why nothing is overlooked: a workload that existed when the round began   *)
(* and did not go away exists still; once its kind is listed it has been     *)
(* seen, and if it was seen ready it is ready, or has moved. The kind        *)
(* Application is listed whenever one existed when the round began, because  *)
(* its discovery belongs to the round.                                       *)
(***************************************************************************)
Rounds == {"hasApplications", "list", "verdict"}

Tracked == began \ moved

KindDone(k) == k <= LastKind /\ (pc = "list" => k < kind)

Faithful(o) == seen[o] # "absent" /\ (seen[o] = "ready" => state[o] = "ready")

RoundInv ==
    pc \in Rounds =>
      /\ \A o \in Tracked : state[o] # "absent"
      /\ began \cap Applications # {} => crd
      /\ pc = "hasApplications" => kind = 1
      /\ pc = "list" => kind <= LastKind
      /\ pc # "hasApplications" =>
            /\ began \cap Applications # {} => hasApps
            /\ \A k \in 1 .. 4 : KindDone(k) =>
                   \A o \in OfKind(k) \cap Tracked : Faithful(o)

LEMMA EveryKind == \A o \in Objects : \E k \in 1 .. 4 : o \in OfKind(k)
  BY DEF Objects, OfKind

LEMMA RoundBegins == TypeOK /\ Round /\ UNCHANGED cluster => RoundInv'
  BY DEF cluster, Round, RoundInv, Rounds, Tracked, Existing, TypeOK

LEMMA RoundChange ==
    ASSUME TypeOK, RoundInv, NEW o \in Objects, NEW s \in States, Change(o, s), crd' = crd
    PROVE  RoundInv'
<1> SUFFICES ASSUME pc \in Rounds PROVE RoundInv'
  BY DEF RoundInv, Change
<1>1. /\ UNCHANGED <<pc, kind, hasApps, seen, began>> /\ LastKind' = LastKind
      /\ Tracked' \subseteq Tracked
      /\ o \in Tracked' => state[o] # "ready" /\ s # "absent"
      /\ \A q \in Objects \ {o} : state'[q] = state[q]
      /\ state'[o] = s
  BY DEF Change, Tracked, TypeOK, LastKind
<1>2. \A q \in Tracked : q \in Objects
  BY DEF Tracked, TypeOK
<1>3. \A q \in Tracked' : state'[q] # "absent"
  BY <1>1, <1>2 DEF RoundInv
<1>4. \A q \in Tracked' : Faithful(q) => Faithful(q)'
  BY <1>1, <1>2 DEF Faithful
<1>5. \A k : KindDone(k)' = KindDone(k)
  BY <1>1 DEF KindDone
<1>6. \A k \in 1 .. 4 : OfKind(k)' = OfKind(k)
  BY DEF OfKind
<1>7. pc # "hasApplications" => \A k \in 1 .. 4 : KindDone(k)' =>
          \A q \in OfKind(k) \cap Tracked' : Faithful(q)'
  BY <1>1, <1>4, <1>5 DEF RoundInv
<1> QED
  BY <1>1, <1>3, <1>7 DEF RoundInv

LEMMA RoundInductive == TypeOK /\ RoundInv /\ [Next]_vars => RoundInv'
<1> SUFFICES ASSUME TypeOK, RoundInv, [Next]_vars PROVE RoundInv'
  OBVIOUS
<1> USE DEF cluster, round, Return
<1>1. CASE Begin
  BY <1>1 DEF Begin, RoundInv, Rounds
<1>2. CASE NewRESTClient
  BY <1>2, RoundBegins DEF NewRESTClient, RoundInv, Rounds
<1>3. CASE HasApplications
  <2>1. CASE pc' = "ok"
    BY <2>1 DEF RoundInv, Rounds
  <2>2. CASE pc' = "list" /\ hasApps' = crd
    <3>1. kind = 1 /\ \A k \in 1 .. 4 : ~KindDone(k)'
      BY <1>3, <2>2 DEF HasApplications, RoundInv, Rounds, KindDone
    <3> QED
      BY <1>3, <2>2, <3>1 DEF HasApplications, RoundInv, Rounds, Tracked, LastKind
  <2> QED
    BY <1>3, <2>1, <2>2 DEF HasApplications
<1>4. CASE List
  <2>1. CASE pc' = "ok"
    BY <2>1 DEF RoundInv, Rounds
  <2>2. CASE pc' # "ok"
    <3>1. /\ pc = "list" /\ pc' \in {"list", "verdict"} /\ kind \in 1 .. LastKind
          /\ pc' = "list" => kind < LastKind /\ kind' = kind + 1
          /\ pc' = "verdict" => kind = LastKind
          /\ seen' = [o \in Objects |-> IF o \in OfKind(kind) THEN state[o] ELSE seen[o]]
          /\ UNCHANGED <<state, crd, hasApps, began, moved>>
          /\ LastKind' = LastKind /\ LastKind \in 3 .. 4
      BY <1>4, <2>2 DEF List, RoundInv, Rounds, LastKind, TypeOK
    <3>2. \A k \in 1 .. 4 : KindDone(k)' => k = kind \/ KindDone(k)
      BY <3>1 DEF KindDone, TypeOK
    <3>3. \A o \in Tracked : o \in OfKind(kind) => Faithful(o)'
      BY <3>1 DEF Faithful, RoundInv, Rounds, Tracked, TypeOK
    <3>4. \A o \in Tracked : Faithful(o) => Faithful(o)'
      BY <3>1 DEF Faithful, RoundInv, Rounds, Tracked, TypeOK
    <3>5. \A k \in 1 .. 4 : KindDone(k)' => \A o \in OfKind(k) \cap Tracked' : Faithful(o)'
      BY <3>1, <3>2, <3>3, <3>4 DEF RoundInv, Rounds, Tracked
    <3> QED
      BY <3>1, <3>5 DEF RoundInv, Rounds, Tracked
  <2> QED
    BY <2>1, <2>2
<1>5. CASE AreWorkloadsReady
  BY <1>5 DEF AreWorkloadsReady, RoundInv, Rounds
<1>6. CASE Poll
  BY <1>6, RoundBegins DEF Poll
<1>7. CASE Timeout
  BY <1>7 DEF Timeout, RoundInv, Rounds, Tracked, KindDone, Faithful, LastKind
<1>8. ASSUME NEW o \in Objects, Create(o) \/ Settle(o) \/ Setback(o) PROVE RoundInv'
  BY <1>8, RoundChange DEF Create, Settle, Setback, States
<1>9. CASE KnowApplications
  BY <1>9 DEF KnowApplications, RoundInv, Rounds, Tracked, KindDone, Faithful, LastKind
<1>10. CASE UNCHANGED vars
  BY <1>10 DEF vars, RoundInv, Rounds, Tracked, KindDone, Faithful, LastKind
<1> QED
  BY <1>1, <1>2, <1>3, <1>4, <1>5, <1>6, <1>7, <1>8, <1>9, <1>10 DEF Next, Wait, Cluster

(* A command that has not ended has no result yet. *)
Pending == pc \notin Resting => result = "none"

LEMMA PendingInductive == Pending /\ [Next]_vars => Pending'
<1> SUFFICES ASSUME Pending, [Next]_vars PROVE Pending'
  OBVIOUS
<1> USE DEF Pending, Resting, Return
<1>1. CASE Begin \/ Timeout \/ UNCHANGED vars
  BY <1>1 DEF Begin, Timeout, vars
<1>2. CASE NewRESTClient \/ HasApplications \/ List \/ Poll
  BY <1>2 DEF NewRESTClient, HasApplications, List, Poll
<1>3. CASE AreWorkloadsReady
  BY <1>3 DEF AreWorkloadsReady
<1>4. CASE Cluster
  BY <1>4 DEF Cluster, Create, Settle, Setback, Change, KnowApplications
<1> QED
  BY <1>1, <1>2, <1>3, <1>4 DEF Next, Wait

(* Only the verdict says "ready" or "timeout". *)
LEMMA Verdicts ==
    ASSUME Pending, [Next]_vars, pc \notin Resting, result' \in {"ready", "timeout"}
    PROVE  AreWorkloadsReady /\ Verdict = result'
<1> USE DEF Pending, Resting, Return
<1>1. result = "none"
  OBVIOUS
<1>2. ~Begin /\ ~UNCHANGED vars /\ ~Timeout /\ ~Poll
  BY <1>1 DEF Begin, vars, Timeout, Poll
<1>3. ~NewRESTClient /\ ~HasApplications /\ ~List
  BY <1>1 DEF NewRESTClient, HasApplications, List
<1>4. ~Cluster
  BY <1>1 DEF Cluster, Create, Settle, Setback, Change, KnowApplications
<1>5. AreWorkloadsReady
  BY <1>2, <1>3, <1>4 DEF Next, Wait
<1> QED
  BY <1>1, <1>5 DEF AreWorkloadsReady

LEMMA ReadyStep == TypeOK /\ RoundInv /\ Pending /\ [Next]_vars => [ReadyWasSeen]_vars
<1> SUFFICES ASSUME TypeOK, RoundInv, Pending, [Next]_vars, SaysReady, NEW o \in Tracked
             PROVE  state[o] = "ready"
  BY DEF ReadyWasSeen, Tracked
<1>1. pc = "verdict" /\ ~Listed("broken") /\ ~Listed("unready")
  BY Verdicts DEF SaysReady, AreWorkloadsReady, Verdict
<1>2. PICK k \in 1 .. 4 : o \in OfKind(k)
  BY EveryKind DEF Tracked, TypeOK
<1>3. \E j \in 1 .. 4 : KindDone(j) /\ o \in OfKind(j)
  BY <1>1, <1>2 DEF KindDone, LastKind, RoundInv, Rounds, OfKind, Tracked
<1>4. Faithful(o)
  BY <1>1, <1>3 DEF RoundInv, Rounds
<1> QED
  BY <1>1, <1>4 DEF Faithful, Listed, TypeOK, States, Tracked

(* A wait that says the cluster is ready overlooked no workload. *)
THEOREM ReadyIsTrueHolds == Spec => ReadyIsTrue
<1>1. Init => RoundInv /\ Pending
  BY DEF Init, RoundInv, Rounds, Pending, Resting
<1>2. Spec => [](TypeOK /\ RoundInv /\ Pending)
  BY <1>1, TypeInit, TypeInductive, RoundInductive, PendingInductive, PTL DEF Spec
<1> QED
  BY <1>2, ReadyStep, PTL DEF Spec, ReadyIsTrue

-----------------------------------------------------------------------------
(***************************************************************************)
(* Why a wait that gives up has a reason: what is not ready after the        *)
(* timeout is recorded, and the last round only sees what is there after it. *)
(***************************************************************************)
LateInv ==
    /\ due /\ NotReady # {} => unsettled
    /\ pc \in Rounds /\ last => due
    /\ pc \in {"list", "verdict"} /\ last /\ Listed("unready") => unsettled
    /\ pc = "hasApplications" => ~Listed("unready")

LEMMA LateChange ==
    ASSUME TypeOK, LateInv, NEW o \in Objects, NEW s \in States, Change(o, s)
    PROVE  LateInv'
<1>1. /\ UNCHANGED <<pc, due, last, seen>> /\ (unsettled => unsettled')
      /\ due /\ s \in {"unready", "broken"} => unsettled'
  BY DEF Change
<1>2. NotReady' \subseteq NotReady \cup {o} /\ (o \in NotReady' => s \in {"unready", "broken"})
  BY DEF Change, NotReady, TypeOK
<1> QED
  BY <1>1, <1>2 DEF LateInv, Listed

LEMMA LateInductive == TypeOK /\ LateInv /\ [Next]_vars => LateInv'
<1> SUFFICES ASSUME TypeOK, LateInv, [Next]_vars PROVE LateInv'
  OBVIOUS
<1> USE DEF cluster, round, Return, Rounds, NotReady, Listed, Round
<1>1. CASE Begin
  BY <1>1 DEF Begin, LateInv, Resting
<1>2. CASE NewRESTClient
  BY <1>2 DEF NewRESTClient, LateInv
<1>3. CASE HasApplications
  BY <1>3 DEF HasApplications, LateInv
<1>4. CASE List
  BY <1>4 DEF List, LateInv, TypeOK
<1>5. CASE AreWorkloadsReady
  BY <1>5 DEF AreWorkloadsReady, LateInv
<1>6. CASE Poll
  BY <1>6 DEF Poll, LateInv
<1>7. CASE Timeout
  BY <1>7 DEF Timeout, LateInv
<1>8. ASSUME NEW o \in Objects, Create(o) \/ Settle(o) \/ Setback(o) PROVE LateInv'
  BY <1>8, LateChange DEF Create, Settle, Setback, States
<1>9. CASE KnowApplications
  BY <1>9 DEF KnowApplications, LateInv
<1>10. CASE UNCHANGED vars
  BY <1>10 DEF vars, LateInv
<1> QED
  BY <1>1, <1>2, <1>3, <1>4, <1>5, <1>6, <1>7, <1>8, <1>9, <1>10 DEF Next, Wait, Cluster

LEMMA GivesUpStep == LateInv /\ Pending /\ [Next]_vars => [GaveUpOverUnready]_vars
<1> SUFFICES ASSUME LateInv, Pending, [Next]_vars, pc \notin Resting, result' = "timeout"
             PROVE  unsettled
  BY DEF GaveUpOverUnready
<1>1. pc = "verdict" /\ Listed("unready") /\ last
  BY Verdicts DEF AreWorkloadsReady, Verdict
<1> QED
  BY <1>1 DEF LateInv

(* A wait that gives up does so over a workload that was late. *)
THEOREM GivesUpHonestlyHolds == Spec => GivesUpHonestly
<1>1. Init => LateInv /\ Pending
  BY DEF Init, LateInv, Rounds, Pending, Resting
<1>2. Spec => [](TypeOK /\ LateInv /\ Pending)
  BY <1>1, TypeInit, TypeInductive, LateInductive, PendingInductive, PTL DEF Spec
<1> QED
  BY <1>2, GivesUpStep, PTL DEF Spec, GivesUpHonestly

=============================================================================
