------------------------ MODULE LifecycleHistoryProofs ------------------------
(***************************************************************************)
(* Theorems about LifecycleHistory, for any number of processes, under every *)
(* interleaving of their calls: nothing here assumes Serial.                 *)
(***************************************************************************)
EXTENDS LifecycleHistory, LifecycleProofs

USE DEF AllCalls, StatusCalls, StopCalls, StartCalls, UninstallCalls

(* The history only watches: what is proved of Lifecycle holds here. *)
LEMMA HistoryImplementsSpec == HistorySpec => Spec
<1>1. HistoryInit => Init
  BY DEF HistoryInit
<1>2. [HistoryNext]_hvars => [Next]_vars
  BY DEF HistoryNext, hvars
<1> QED
  BY <1>1, <1>2, PTL DEF HistorySpec, Spec

-----------------------------------------------------------------------------
(* What is at work in the distribution goes down with it. *)
Alive == iknite \/ jobs # {} \/ orphan => running

LEMMA AliveStep ==
    ASSUME Alive, NEW p \in Procs, Step(p)
    PROVE  Alive'
<1> USE DEF Alive, Boot, Halt, world
<1>1. CASE GetClusterStatus(p)
  BY <1>1 DEF GetClusterStatus, IsRegistered, List, FileExists, Decide
<1>2. CASE Start(p)
  BY <1>2 DEF Start, StatRootFS, EnsureRootFS, EnsureWSLDirectory, RegisterDistribution,
              Configure, Launch, LaunchDone, MergeLoad, MergeWrite, Wait
<1>3. CASE StopCluster(p)
  BY <1>3 DEF StopCluster, StopList, RcStop, Terminate
<1>4. CASE RemoveAll(p)
  BY <1>4 DEF RemoveAll, Uninstall, Unregister, Gone, RemoveLoad, RemoveWrite, RemoveDir
<1> QED
  BY <1>1, <1>2, <1>3, <1>4 DEF Step

LEMMA AliveCorrect == Spec => []Alive
<1>1. Init => Alive
  BY DEF Init, Alive
<1>2. Alive /\ [Next]_vars => Alive'
  <2> SUFFICES ASSUME Alive, [Next]_vars PROVE Alive'
    OBVIOUS
  <2>1. ASSUME NEW p \in Procs, Begin(p) \/ Crash(p) PROVE Alive'
    BY <2>1 DEF Begin, Crash, Alive, world
  <2>2. CASE HostStop \/ Iknite \/ UNCHANGED vars
    BY <2>2 DEF HostStop, Halt, Iknite, IkniteWritesKubeconfig, IkniteServiceUp, OrphanEnds,
                IkniteRuns, vars, world, Alive
  <2> QED
    BY <2>1, <2>2, AliveStep DEF Next
<1> QED
  BY <1>1, <1>2, PTL DEF Spec

-----------------------------------------------------------------------------
(* A call of one process leaves the locals of the others alone. *)
Elsewhere(p) == \A q \in Procs \ {p} :
                    pc'[q] = pc[q] /\ cmd'[q] = cmd[q] /\ status'[q] = status[q]

LEMMA CallIsLocal ==
    ASSUME ProcTypeOK, NEW p \in Procs, Step(p) \/ Begin(p) \/ Crash(p)
    PROVE  Elsewhere(p)
<1> USE DEF Elsewhere, ProcTypeOK, Goto, Exit, Move, Fails
<1>1. CASE GetClusterStatus(p)
  BY <1>1 DEF GetClusterStatus, IsRegistered, List, FileExists, Decide
<1>2. CASE Start(p)
  BY <1>2 DEF Start, StatRootFS, EnsureRootFS, EnsureWSLDirectory, RegisterDistribution,
              Configure, Launch, LaunchDone, MergeLoad, MergeWrite, Wait
<1>3. CASE StopCluster(p)
  BY <1>3 DEF StopCluster, StopList, RcStop, Terminate
<1>4. CASE RemoveAll(p)
  BY <1>4 DEF RemoveAll, Uninstall, Unregister, Gone, RemoveLoad, RemoveWrite, RemoveDir
<1>5. CASE Begin(p) \/ Crash(p)
  BY <1>5 DEF Begin, Crash
<1> QED
  BY <1>1, <1>2, <1>3, <1>4, <1>5 DEF Step

-----------------------------------------------------------------------------
(***************************************************************************)
(* What a command has met when it is at a call: the present condition; and a *)
(* moment when the cluster was up, past the launch and wherever the status   *)
(* Started is in hand; or a moment when there was no distribution, past the  *)
(* unregister. The two statuses of a distribution that is registered are     *)
(* told apart by the second and third read.                                  *)
(***************************************************************************)
SawStarted(p) == \/ pc[p] \in {"mergeLoad", "mergeWrite"}
                 \/ pc[p] = "wait" /\ cmd[p] = "start"
                 \/ pc[p] = "decide" /\ status[p] = "Started"

(* The status in hand was so. *)
Backed(p) == \/ status[p] = "Uninstalled" /\ "Uninstalled" \in held[p]
             \/ status[p] = "Installed" /\ held[p] \cap {"Stopped", "Idle", "Uninstalled"} # {}
             \/ status[p] = "Started" /\ "Started" \in held[p]

WitnessAt(p) ==
    /\ pc[p] \notin Resting => Condition \in held[p]
    /\ pc[p] \in {"list", "fileExists"} => status[p] = "Installed"
    /\ SawStarted(p) => "Started" \in held[p]
    /\ pc[p] \in {"removeLoad", "removeWrite", "removeDir"} => "Uninstalled" \in held[p]
    /\ ~ListFaults /\ pc[p] = "decide" => Backed(p)

Witness == \A p \in Procs : WitnessAt(p)

LEMMA WitnessElsewhere ==
    ASSUME Witness, Remember, NEW p \in Procs, Elsewhere(p), NEW q \in Procs \ {p}
    PROVE  WitnessAt(q)'
  BY DEF Witness, WitnessAt, SawStarted, Backed, Remember, Elsewhere, Resting, Outcomes

LEMMA WitnessStep ==
    ASSUME TypeOK, Grounded, Alive, Witness, Remember, NEW p \in Procs, Step(p)
    PROVE  WitnessAt(p)'
<1> USE DEF WitnessAt, SawStarted, Backed, Resting, Outcomes, Goto, Exit, Move, Fails, Boot, Halt, world
<1>1. ProcTypeOK /\ WitnessAt(p)
  BY DEF TypeOK, Witness
<1>2. /\ pc'[p] \notin Resting => /\ Condition' \in held'[p]
                                  /\ held[p] \cup {Condition, Condition'} \subseteq held'[p]
  BY DEF Remember
<1>3. CASE GetClusterStatus(p)
  BY <1>1, <1>2, <1>3, Caller
  DEF ProcTypeOK, GetClusterStatus, IsRegistered, List, FileExists, Decide, AfterStatus,
      StartAfter, StopAfter, StatusAfter, ConfigureAfter, Condition
<1>4. CASE LaunchDone(p)
  BY <1>1, <1>2, <1>4 DEF ProcTypeOK, LaunchDone, Condition, Alive, Grounded
<1>5. CASE Start(p) /\ ~LaunchDone(p)
  BY <1>1, <1>2, <1>5
  DEF ProcTypeOK, Start, StatRootFS, EnsureRootFS, EnsureWSLDirectory, RegisterDistribution,
      Configure, Launch, MergeLoad, MergeWrite, Wait
<1>6. CASE StopCluster(p)
  BY <1>1, <1>2, <1>6 DEF ProcTypeOK, StopCluster, StopList, RcStop, Terminate, AfterStop
<1>7. CASE RemoveAll(p)
  BY <1>1, <1>2, <1>7
  DEF ProcTypeOK, RemoveAll, Uninstall, Unregister, Gone, RemoveLoad, RemoveWrite, RemoveDir,
      Condition
<1> QED
  BY <1>3, <1>4, <1>5, <1>6, <1>7 DEF Step

LEMMA WitnessInductive ==
    TypeOK /\ Grounded /\ Alive /\ Witness /\ [HistoryNext]_hvars => Witness'
<1> SUFFICES ASSUME TypeOK, Grounded, Alive, Witness, [HistoryNext]_hvars PROVE Witness'
  OBVIOUS
<1> USE DEF Resting, Outcomes
<1>1. ASSUME NEW p \in Procs, Begin(p) \/ Step(p) \/ Crash(p), Remember PROVE Witness'
  <2>1. \A q \in Procs \ {p} : WitnessAt(q)'
    BY <1>1, CallIsLocal, WitnessElsewhere DEF TypeOK
  <2>2. CASE Begin(p)
    <3>1. PICK c \in Commands : pc' = [pc EXCEPT ![p] = FirstCall(c)]
      BY <2>2 DEF Begin
    <3>2. FirstCall(c) \in {"uninstall", "update", "isRegistered"}
      BY DEF FirstCall
    <3>3. WitnessAt(p)'
      BY <1>1, <3>1, <3>2 DEF WitnessAt, SawStarted, Backed, Remember, TypeOK, ProcTypeOK
    <3> QED
      BY <2>1, <3>3 DEF Witness
  <2>3. CASE Crash(p)
    BY <2>1, <2>3 DEF Crash, Exit, Witness, WitnessAt, SawStarted, Backed, TypeOK, ProcTypeOK
  <2>4. CASE Step(p)
    BY <1>1, <2>1, <2>4, WitnessStep DEF Witness
  <2> QED
    BY <1>1, <2>2, <2>3, <2>4
<1>2. CASE (HostStop \/ Iknite) /\ Remember
  <2>1. UNCHANGED <<pc, cmd, status>>
    BY <1>2 DEF HostStop, Iknite, IkniteWritesKubeconfig, IkniteServiceUp, OrphanEnds, proc
  <2> QED
    BY <1>2, <2>1 DEF Witness, WitnessAt, SawStarted, Backed, Remember
<1>3. CASE UNCHANGED hvars
  BY <1>3 DEF hvars, vars, proc, world, Witness, WitnessAt, SawStarted, Backed, Condition
<1> QED
  BY <1>1, <1>2, <1>3 DEF HistoryNext, Next

THEOREM WitnessCorrect == HistorySpec => []Witness
<1>1. HistoryInit => Witness
  BY DEF HistoryInit, Init, Witness, WitnessAt, SawStarted, Backed, Resting
<1> QED
  BY <1>1, WitnessInductive, HistoryImplementsSpec, TypeCorrect, GroundedCorrect, AliveCorrect,
     PTL DEF HistorySpec

(* What GetClusterStatus answers was so at some moment of the command, although *)
(* it reads the world in three calls and other commands act between them. A     *)
(* `wsl --list` that fails unseen is excluded: it reads as not running.         *)
THEOREM StatusWasTrueHolds == ~ListFaults => (HistorySpec => StatusWasTrue)
<1> SUFFICES ASSUME ~ListFaults PROVE HistorySpec => StatusWasTrue
  OBVIOUS
<1>1. Witness' /\ [HistoryNext]_hvars => [AnswerHeld]_hvars
  <2> SUFFICES ASSUME Witness', HistoryNext, NEW p \in Procs, pc'[p] = "decide"
               PROVE  \E c \in Means(status'[p]) : c \in Seen(p)
    BY DEF AnswerHeld
  <2>1. Backed(p)' /\ pc'[p] \notin Resting
    BY DEF Witness, WitnessAt, Resting, Outcomes
  <2>2. held'[p] \subseteq Seen(p)
    BY <2>1 DEF HistoryNext, Remember, Seen
  <2> QED
    BY <2>1, <2>2 DEF Backed, Means
<1> QED
  BY <1>1, WitnessCorrect, PTL DEF HistorySpec, StatusWasTrue

-----------------------------------------------------------------------------
(***************************************************************************)
(* LifecycleHistory implements ClusterPromise. A step of a process goes one  *)
(* of the ways its command has (WayStep), leaves an `iknite start` at work   *)
(* only as promised (ComingStep), and ends well only if it has earned it     *)
(* (EarnedStep); the other steps are those of the host and of iknite.        *)
(***************************************************************************)
Coming == jobs # {} \/ orphan
Doing  == [p \in Procs |-> IF pc[p] \in Resting THEN pc[p] ELSE cmd[p]]

LEMMA WayStep ==
    ASSUME TypeOK, Grounded, Alive, NEW p \in Procs, Step(p)
    PROVE  Condition' = Condition \/ <<Condition, Condition'>> \in Promise!Ways(cmd[p])
<1> USE DEF Condition, Promise!Ways, Promise!Boots, Promise!Installs, Promise!Stops,
            Promise!Removes, Boot, Halt, world
<1>1. ProcTypeOK
  BY DEF TypeOK
<1>2. CASE GetClusterStatus(p)
  BY <1>1, <1>2, Caller DEF GetClusterStatus, IsRegistered, List, FileExists, Decide, Alive
<1>3. CASE Start(p)
  BY <1>1, <1>3, Caller
  DEF Start, StatRootFS, EnsureRootFS, EnsureWSLDirectory, RegisterDistribution,
      Configure, Launch, LaunchDone, MergeLoad, MergeWrite, Wait, Alive, Grounded
<1>4. CASE StopCluster(p)
  BY <1>1, <1>4, Caller DEF StopCluster, StopList, RcStop, Terminate
<1>5. CASE RemoveAll(p)
  BY <1>1, <1>5, Caller
  DEF RemoveAll, Uninstall, Unregister, Gone, RemoveLoad, RemoveWrite, RemoveDir
<1> QED
  BY <1>2, <1>3, <1>4, <1>5 DEF Step

LEMMA ComingStep ==
    ASSUME TypeOK, Grounded, Alive, NEW p \in Procs, Step(p), Coming'
    PROVE  /\ Coming \/ cmd[p] = "start"
           /\ Condition' \in {"Idle", "Started"}
<1>1. ProcTypeOK
  BY DEF TypeOK
<1>2. Coming \/ Launch(p)
  <2> USE DEF Coming, Boot, Halt, world
  <2>1. CASE GetClusterStatus(p)
    BY <2>1 DEF GetClusterStatus, IsRegistered, List, FileExists, Decide
  <2>2. CASE Start(p)
    BY <2>2 DEF Start, StatRootFS, EnsureRootFS, EnsureWSLDirectory, RegisterDistribution,
                Configure, LaunchDone, MergeLoad, MergeWrite, Wait
  <2>3. CASE StopCluster(p)
    BY <2>3 DEF StopCluster, StopList, RcStop, Terminate
  <2>4. CASE RemoveAll(p)
    BY <2>4 DEF RemoveAll, Uninstall, Unregister, Gone, RemoveLoad, RemoveWrite, RemoveDir
  <2> QED
    BY <2>1, <2>2, <2>3, <2>4 DEF Step
<1>3. Alive' /\ Grounded'
  BY AliveStep, GroundedStep
<1> QED
  BY <1>1, <1>2, <1>3, Caller DEF Alive, Grounded, Coming, Condition, Launch

LEMMA EarnedStep ==
    ASSUME TypeOK, Grounded, Witness, NEW p \in Procs, Step(p), pc'[p] = "ok"
    PROVE  Promise!Earned(cmd[p], held[p] \cup {Condition, Condition'}, p \notin hurt')
<1> USE DEF Resting, Outcomes, Goto, Exit, Move, Fails, Fault, Boot, Halt, world
<1>1. ProcTypeOK /\ hurt \subseteq Procs /\ WitnessAt(p)
  BY DEF TypeOK, BudgetTypeOK, Witness
<1>2. cmd[p] = "start" => "Started" \in held[p]
  <2> SUFFICES ASSUME cmd[p] = "start" PROVE "Started" \in held[p]
    OBVIOUS
  <2>0. pc[p] \in StatusCalls \cup StartCalls
    BY <1>1, Successors DEF ProcTypeOK, AtCall, Calls
  <2>1. CASE Wait(p)
    BY <1>1, <2>1 DEF Wait, WitnessAt, SawStarted
  <2>2. CASE GetClusterStatus(p)
    BY <1>1, <2>2 DEF ProcTypeOK, GetClusterStatus, IsRegistered, List, FileExists, Decide,
                      AfterStatus, StartAfter
  <2>3. CASE Start(p) /\ ~Wait(p)
    BY <1>1, <2>3
    DEF ProcTypeOK, Start, StatRootFS, EnsureRootFS, EnsureWSLDirectory, RegisterDistribution,
        Configure, Launch, LaunchDone, MergeLoad, MergeWrite
  <2>4. CASE StopCluster(p) \/ RemoveAll(p)
    BY <2>0, <2>4 DEF StopCluster, StopList, RcStop, Terminate, RemoveAll, Uninstall,
                      Unregister, RemoveLoad, RemoveWrite, RemoveDir
  <2> QED
    BY <2>1, <2>2, <2>3, <2>4 DEF Step
<1>3. cmd[p] = "stop" /\ p \notin hurt' => Condition' \in {"Stopped", "Uninstalled"}
  BY StopStep DEF Condition
<1>4. cmd[p] = "uninstall" => "Uninstalled" \in held[p]
  <2> SUFFICES ASSUME cmd[p] = "uninstall" PROVE "Uninstalled" \in held[p]
    OBVIOUS
  <2>1. RemoveDir(p)
    BY Successors
  <2> QED
    BY <1>1, <2>1 DEF RemoveDir, WitnessAt
<1> QED
  BY <1>2, <1>3, <1>4 DEF Promise!Earned

LEMMA BusyIsActive == ASSUME TypeOK PROVE Promise!Busy = Active
<1>1. \A c \in Commands : c \notin Outcomes /\ c # "idle"
  BY LifecycleAssumption DEF LifecycleAssumption, AllCommands, Outcomes
<1> QED
  BY <1>1 DEF TypeOK, ProcTypeOK, AtCall, Promise!Busy, Promise!Ends, Active, Resting, Outcomes

LEMMA MeetStep == ASSUME TypeOK, TypeOK', Remember PROVE Promise!Meet
<1>1. \A c \in Commands : c \notin Outcomes /\ c # "idle"
  BY LifecycleAssumption DEF LifecycleAssumption, AllCommands, Outcomes
<1>2. \A p \in Procs : p \in Promise!Busy' <=> pc'[p] \notin Resting
  BY <1>1 DEF TypeOK, ProcTypeOK, AtCall, Promise!Busy, Promise!Ends, Resting, Outcomes
<1> QED
  BY <1>2 DEF Remember, Promise!Meet

LEMMA HurtStep ==
    ASSUME NEW p \in Procs, Step(p)
    PROVE  hurt' \in {hurt, hurt \cup {p}}
<1> USE DEF Fails, Fault, budget
<1>1. CASE GetClusterStatus(p)
  BY <1>1 DEF GetClusterStatus, IsRegistered, List, FileExists, Decide
<1>2. CASE Start(p)
  BY <1>2 DEF Start, StatRootFS, EnsureRootFS, EnsureWSLDirectory, RegisterDistribution,
              Configure, Launch, LaunchDone, MergeLoad, MergeWrite, Wait
<1>3. CASE StopCluster(p)
  BY <1>3 DEF StopCluster, StopList, RcStop, Terminate
<1>4. CASE RemoveAll(p)
  BY <1>4 DEF RemoveAll, Uninstall, Unregister, RemoveLoad, RemoveWrite, RemoveDir
<1> QED
  BY <1>1, <1>2, <1>3, <1>4 DEF Step

(* A command stays the one it is until it ends. *)
LEMMA CallStays ==
    ASSUME TypeOK, NEW p \in Procs, Step(p)
    PROVE  pc'[p] \in Outcomes \/ (pc'[p] \notin Resting /\ cmd'[p] = cmd[p])
<1> DEFINE To(l) == pc' = [pc EXCEPT ![p] = l] /\ cmd' = cmd
           Over(o) == pc' = [pc EXCEPT ![p] = o]
<1>1. ProcTypeOK
  BY DEF TypeOK
<1>2. ASSUME NEW l \in AllCalls, To(l) PROVE pc'[p] \notin Resting /\ cmd'[p] = cmd[p]
  BY <1>1, <1>2, RestIsNoCall DEF ProcTypeOK
<1>3. ASSUME NEW o \in Outcomes, Over(o) PROVE pc'[p] \in Outcomes
  BY <1>1, <1>3 DEF ProcTypeOK
<1>4. (\E l \in AllCalls : To(l)) \/ (\E o \in Outcomes : Over(o))
  <2> USE DEF Resting, Outcomes, Goto, Exit, Move
  <2>1. CASE GetClusterStatus(p)
    BY <1>1, <2>1, Caller
    DEF ProcTypeOK, GetClusterStatus, IsRegistered, List, FileExists, Decide, AfterStatus,
        StartAfter, StopAfter, StatusAfter, ConfigureAfter
  <2>2. CASE Start(p)
    BY <1>1, <2>2
    DEF Start, StatRootFS, EnsureRootFS, EnsureWSLDirectory, RegisterDistribution,
        Configure, Launch, LaunchDone, MergeLoad, MergeWrite, Wait
  <2>3. CASE StopCluster(p)
    BY <1>1, <2>3 DEF StopCluster, StopList, RcStop, Terminate, AfterStop
  <2>4. CASE RemoveAll(p)
    BY <1>1, <2>4
    DEF RemoveAll, Uninstall, Unregister, Gone, RemoveLoad, RemoveWrite, RemoveDir
  <2> QED
    BY <2>1, <2>2, <2>3, <2>4 DEF Step
<1> QED
  BY <1>2, <1>3, <1>4

(* A call of a process is a step of its command. *)
LEMMA ActStep ==
    ASSUME TypeOK, Grounded, Alive, Witness, NEW p \in Procs, Step(p)
    PROVE  Promise!Act(p)
<1>1. p \in Promise!Busy /\ Doing[p] = cmd[p]
  BY Successors, BusyIsActive DEF Active, Doing
<1>2. Condition' = Condition \/ <<Condition, Condition'>> \in Promise!Ways(Doing[p])
  BY <1>1, WayStep
<1>3. Coming' => /\ Coming \/ Doing[p] = "start"
                 /\ Condition' \in {"Idle", "Started"}
  BY <1>1, ComingStep
<1>4. hurt' \in {hurt, hurt \cup {p}}
  BY HurtStep
<1>5. /\ Elsewhere(p)
      /\ pc'[p] \in Outcomes \/ (pc'[p] \notin Resting /\ cmd'[p] = cmd[p])
  BY CallIsLocal, CallStays DEF TypeOK
<1>6. /\ Doing' = [Doing EXCEPT ![p] = Doing'[p]]
      /\ Doing'[p] \in {Doing[p]} \cup Outcomes
  BY <1>1, <1>5 DEF Doing, Elsewhere, Resting
<1>7. ASSUME Doing'[p] = "ok"
      PROVE  Promise!Earned(Doing[p], held[p] \cup {Condition, Condition'}, p \notin hurt')
  <2>1. pc'[p] = "ok"
    BY <1>7, <1>5, <1>1 DEF Doing, Resting, Promise!Busy, Promise!Ends
  <2> QED
    BY <1>1, <2>1, EarnedStep
<1>8. \E d \in {Doing[p]} \cup Outcomes :
         /\ Doing' = [Doing EXCEPT ![p] = d]
         /\ d = "ok" => Promise!Earned(Doing[p], held[p] \cup {Condition, Condition'},
                                      p \notin hurt')
  <2> DEFINE d == Doing'[p]
  <2>1. d \in {Doing[p]} \cup Outcomes /\ Doing' = [Doing EXCEPT ![p] = d]
    BY <1>6
  <2>2. d = "ok" => Promise!Earned(Doing[p], held[p] \cup {Condition, Condition'}, p \notin hurt')
    BY <1>7
  <2> HIDE DEF d
  <2> QED
    BY <2>1, <2>2
<1> QED
  BY <1>1, <1>2, <1>3, <1>4, <1>8 DEF Promise!Act, Promise!Ends, Outcomes, Doing, Coming

LEMMA BeginStep ==
    ASSUME TypeOK, NEW p \in Procs, Begin(p)
    PROVE  Promise!Begin(p)
<1>1. PICK c \in Commands : /\ cmd' = [cmd EXCEPT ![p] = c]
                            /\ pc' = [pc EXCEPT ![p] = FirstCall(c)]
  BY DEF Begin
<1>2. FirstCall(c) \notin Resting
  BY DEF FirstCall, Resting, Outcomes
<1>3. p \notin Promise!Busy
  BY BusyIsActive DEF Active, Begin
<1>4. Doing' = [Doing EXCEPT ![p] = c]
  BY <1>1, <1>2 DEF Doing, TypeOK, ProcTypeOK
<1>5. UNCHANGED <<Condition, jobs, orphan>> /\ hurt' = hurt \ {p}
  BY DEF Begin, world, Condition
<1> QED
  BY <1>3, <1>4, <1>5 DEF Promise!Begin, Doing

LEMMA CrashStep ==
    ASSUME TypeOK, Grounded, Alive, NEW p \in Procs, Crash(p)
    PROVE  Promise!Act(p)
<1>1. p \in Promise!Busy /\ UNCHANGED Condition
  BY BusyIsActive DEF Crash, Active, Condition
<1>2. Coming' => Coming /\ Condition' \in {"Idle", "Started"}
  BY <1>1 DEF Crash, Coming, Condition, Alive, Grounded
<1>3. hurt' = hurt \cup {p}
  BY DEF Crash, Fault
<1>4. Doing' = [Doing EXCEPT ![p] = "crashed"]
  BY DEF Crash, Exit, Doing, Resting, Outcomes, TypeOK, ProcTypeOK
<1> QED
  BY <1>1, <1>2, <1>3, <1>4 DEF Promise!Act, Promise!Ends, Doing, Coming

(* LifecycleHistory implements ClusterPromise under every interleaving of any   *)
(* number of commands, whatever fails or is killed, and host stops included:    *)
(* who may change the cluster, and what an end that says ok is worth.           *)
THEOREM PromiseKeptHolds == HistorySpec => PromiseKept
<1>1. HistoryInit => Promise!Init
  BY DEF HistoryInit, Init, Condition, Promise!Init, Resting
<1>2. /\ TypeOK /\ TypeOK' /\ Grounded /\ Grounded' /\ Alive /\ Witness
      /\ [HistoryNext]_hvars
      => [Promise!Next]_(Promise!vars)
  <2> SUFFICES ASSUME TypeOK, TypeOK', Grounded, Grounded', Alive, Witness,
                      [HistoryNext]_hvars
               PROVE  [Promise!Next]_(Promise!vars)
    OBVIOUS
  <2>1. CASE UNCHANGED hvars
    BY <2>1 DEF hvars, vars, proc, world, budget, Promise!vars, Condition
  <2>2. CASE HistoryNext
    <3>1. Promise!Meet
      BY <2>2, MeetStep DEF HistoryNext
    <3>2. ASSUME NEW p \in Procs, Begin(p) PROVE Promise!Begin(p)
      BY <3>2, BeginStep
    <3>3. ASSUME NEW p \in Procs, Step(p) PROVE Promise!Act(p)
      BY <3>3, ActStep
    <3>4. ASSUME NEW p \in Procs, Crash(p) PROVE Promise!Act(p)
      BY <3>4, CrashStep
    <3>5. ASSUME HostStop PROVE Promise!HostStop
      <4>1. Condition \in {"Idle", "Started"} /\ Condition' = "Stopped" /\ ~Coming'
        BY <3>5 DEF HostStop, Halt, Condition, Coming, Grounded
      <4>2. UNCHANGED Doing /\ hurt' = hurt \cup Active
        BY <3>5 DEF HostStop, proc, Doing
      <4> QED
        BY <4>1, <4>2, BusyIsActive DEF Promise!HostStop, Coming, Doing
    <3>6. ASSUME Iknite PROVE Promise!Iknite
      <4>1. /\ Coming
            /\ \/ Condition = "Idle" /\ Condition' = "Started" /\ Coming'
               \/ Condition' = Condition /\ Coming' \in BOOLEAN
        BY <3>6 DEF Iknite, IkniteWritesKubeconfig, IkniteServiceUp, OrphanEnds, IkniteRuns,
                    Condition, Coming, Alive, Grounded
      <4>2. UNCHANGED <<Doing, hurt>>
        BY <3>6 DEF Iknite, IkniteWritesKubeconfig, IkniteServiceUp, OrphanEnds, proc,
                    budget, Doing
      <4> QED
        BY <4>1, <4>2 DEF Promise!Iknite, Coming, Doing
    <3> QED
      BY <2>2, <3>1, <3>2, <3>3, <3>4, <3>5, <3>6 DEF HistoryNext, Next, Promise!Next
  <2> QED
    BY <2>1, <2>2
<1> QED
  BY <1>1, <1>2, WitnessCorrect, HistoryImplementsSpec, TypeCorrect, GroundedCorrect,
     AliveCorrect, PTL DEF HistorySpec, PromiseKept, Promise!Spec

-----------------------------------------------------------------------------
(***************************************************************************)
(* Two facts that RetryConverges and StartReturns rest on, which are         *)
(* themselves left to TLC: what is up stays up, and no command goes back.    *)
(***************************************************************************)

(* Whoever else is at work: a cluster that is up stays up until a stop or an    *)
(* uninstall is in flight, or the host takes it down. No failure, no kill and   *)
(* no other start does (cluster.go:115-143, uninstall.go:43-64).                *)
TakenDown == Condition = "Started" /\ Condition' # "Started"
                 => HostStop \/ \E p \in Procs : cmd[p] \in {"stop", "uninstall"}

THEOREM UpStaysUp == Spec => [][TakenDown]_vars
<1>1. TypeOK /\ Grounded /\ Alive /\ [Next]_vars => [TakenDown]_vars
  <2> SUFFICES ASSUME TypeOK, Grounded, Alive, Next,
                      Condition = "Started", Condition' # "Started", ~HostStop
               PROVE  \E p \in Procs : cmd[p] \in {"stop", "uninstall"}
    BY DEF TakenDown
  <2>1. ASSUME NEW p \in Procs, Step(p) PROVE cmd[p] \in {"stop", "uninstall"}
    BY <2>1, WayStep
    DEF Promise!Ways, Promise!Boots, Promise!Installs, Promise!Stops, Promise!Removes
  <2>2. ASSUME NEW p \in Procs, Begin(p) \/ Crash(p) PROVE FALSE
    BY <2>2 DEF Begin, Crash, world, Condition
  <2>3. CASE Iknite
    BY <2>3 DEF Iknite, IkniteWritesKubeconfig, IkniteServiceUp, OrphanEnds, Condition
  <2> QED
    BY <2>1, <2>2, <2>3 DEF Next
<1> QED
  BY <1>1, TypeCorrect, GroundedCorrect, AliveCorrect, PTL DEF Spec

(* How many calls a command may still have before it. *)
Ahead(l) ==
    CASE l = "isRegistered" -> 16 [] l = "list"        -> 15
      [] l = "fileExists"   -> 14 [] l = "decide"      -> 13
      [] l = "rootfs"       -> 12 [] l = "mkdir"       -> 11
      [] l = "import"       -> 10 [] l = "configure"   -> 9
      [] l = "launch"       -> 8  [] l = "launched"    -> 7
      [] l = "mergeLoad"    -> 6  [] l = "mergeWrite"  -> 5
      [] l = "uninstall"    -> 8  [] l = "stopList"    -> 7
      [] l = "rcStop"       -> 6  [] l = "terminate"   -> 5
      [] l = "unregister"   -> 4  [] l = "removeLoad"  -> 3
      [] l = "removeWrite"  -> 2  [] l = "removeDir"   -> 1
      [] l \in {"wait", "update"} -> 1
      [] OTHER -> 0

(* No command makes a call twice, whatever it meets, so that none makes more    *)
(* than sixteen: only a call that does not come back can hold a command up.     *)
GoesForward == \A p \in Procs : Step(p) => Ahead(pc'[p]) < Ahead(pc[p])

THEOREM NoCallTwice == Spec => [][GoesForward]_vars
<1>1. TypeOK => GoesForward
  <2> SUFFICES ASSUME TypeOK, NEW p \in Procs, Step(p)
               PROVE  Ahead(pc'[p]) < Ahead(pc[p])
    BY DEF GoesForward
  <2> USE DEF Ahead, Resting, Outcomes, Goto, Exit, Move, Fails
  <2>1. ProcTypeOK
    BY DEF TypeOK
  <2>2. CASE GetClusterStatus(p)
    BY <2>1, <2>2, Caller
    DEF ProcTypeOK, GetClusterStatus, IsRegistered, List, FileExists, Decide, AfterStatus,
        StartAfter, StopAfter, StatusAfter, ConfigureAfter
  <2>3. CASE Start(p)
    BY <2>1, <2>3, Caller
    DEF ProcTypeOK, Start, StatRootFS, EnsureRootFS, EnsureWSLDirectory,
        RegisterDistribution, Configure, Launch, LaunchDone, MergeLoad, MergeWrite, Wait
  <2>4. CASE StopCluster(p)
    BY <2>1, <2>4 DEF ProcTypeOK, StopCluster, StopList, RcStop, Terminate, AfterStop
  <2>5. CASE RemoveAll(p)
    BY <2>1, <2>5
    DEF ProcTypeOK, RemoveAll, Uninstall, Unregister, Gone, RemoveLoad, RemoveWrite, RemoveDir
  <2> QED
    BY <2>2, <2>3, <2>4, <2>5 DEF Step
<1> QED
  BY <1>1, TypeCorrect, PTL DEF Spec

=============================================================================
