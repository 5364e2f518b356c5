--------------------------- MODULE LifecycleProofs ---------------------------
(* Theorems about Lifecycle, for any number of processes, faults and commands. *)
EXTENDS Lifecycle, TLAPS

USE DEF AllCalls, StatusCalls, StopCalls, StartCalls, UninstallCalls

LEMMA RestIsNoCall == ASSUME NEW l \in AllCalls PROVE l \notin Resting
  BY DEF Resting, Outcomes

LEMMA CallsAreCalls == ASSUME NEW c, NEW l \in Calls(c) PROVE l \in AllCalls
  BY DEF Calls

(* Which command makes a call. *)
LEMMA Caller ==
    ASSUME ProcTypeOK, NEW p \in Procs
    PROVE  /\ pc[p] \in StatusCalls =>
                cmd[p] \in {"start", "stop", "status", "configure"}
           /\ pc[p] \in StartCalls \ {"configure", "wait"} => cmd[p] = "start"
           /\ pc[p] = "configure" => cmd[p] \in {"start", "configure"}
           /\ pc[p] = "wait" => cmd[p] \in {"start", "status"}
           /\ pc[p] \in StopCalls => cmd[p] \in {"stop", "uninstall"}
           /\ pc[p] \in UninstallCalls => cmd[p] = "uninstall"
           /\ pc[p] = "update" => cmd[p] = "update"
  BY DEF ProcTypeOK, AtCall, Calls, Resting, Outcomes

(***************************************************************************)
(* The ways a process goes on keep its part of the type invariant, if it     *)
(* goes to a call of its command or to rest.                                 *)
(***************************************************************************)
LEMMA GotoType ==
    ASSUME ProcTypeOK, NEW p \in Procs, pc[p] \notin Resting,
           NEW l \in Calls(cmd[p]), Goto(p, l)
    PROVE  ProcTypeOK'
<1>1. l \in AllCalls /\ l \notin Resting
  BY CallsAreCalls, RestIsNoCall
<1> QED
  BY <1>1 DEF ProcTypeOK, AtCall, Goto

LEMMA ExitType ==
    ASSUME ProcTypeOK, NEW p \in Procs, NEW o \in Resting, Exit(p, o)
    PROVE  ProcTypeOK'
<1>1. "none" \in Contexts
  BY DEF Contexts
<1> QED
  BY <1>1 DEF ProcTypeOK, AtCall, Exit

LEMMA MoveType ==
    ASSUME ProcTypeOK, NEW p \in Procs, pc[p] \notin Resting,
           NEW l \in Resting \cup Calls(cmd[p]), Move(p, l)
    PROVE  ProcTypeOK'
<1>1. CASE l \in Resting
  BY <1>1, ExitType DEF Move
<1>2. CASE l \notin Resting
  BY <1>2, GotoType DEF Move
<1> QED
  BY <1>1, <1>2

LEMMA FaultType ==
    ASSUME BudgetTypeOK, NEW p \in Procs, Fault(p) \/ UNCHANGED budget
    PROVE  BudgetTypeOK'
  BY LifecycleAssumption DEF LifecycleAssumption, BudgetTypeOK, Fault, budget

(***************************************************************************)
(* A process that answers, reads, or starts something keeps the type.        *)
(***************************************************************************)
LEMMA TypeStep ==
    ASSUME TypeOK, NEW p \in Procs, Step(p)
    PROVE  TypeOK'
<1> USE DEF Resting, Outcomes
<1>1. CASE IsRegistered(p)
  <2>1. ProcTypeOK'
    BY <1>1, Caller DEF IsRegistered, TypeOK, ProcTypeOK, AtCall, Calls, Statuses
  <2> QED
    BY <1>1, <2>1 DEF IsRegistered, TypeOK, WorldTypeOK, HostTypeOK, BudgetTypeOK, world, host, budget
<1>2. CASE List(p)
  <2>1. ProcTypeOK'
    BY <1>2, Caller, GotoType DEF List, TypeOK, Calls
  <2>2. BudgetTypeOK'
    BY <1>2, FaultType DEF List, TypeOK
  <2> QED
    BY <1>2, <2>1, <2>2 DEF List, TypeOK, WorldTypeOK, HostTypeOK, world, host
<1>3. CASE FileExists(p)
  <2>1. CASE /\ registered /\ Boot
             /\ status' = [status EXCEPT ![p] = IF iknite THEN "Started" ELSE @]
             /\ pc' = [pc EXCEPT ![p] = "decide"]
             /\ UNCHANGED <<cmd, snap, budget>>
    <3>1. ProcTypeOK'
      BY <1>3, <2>1, Caller DEF FileExists, TypeOK, ProcTypeOK, AtCall, Calls, Statuses
    <3> QED
      BY <1>3, <2>1, <3>1 DEF FileExists, Boot, TypeOK, WorldTypeOK, HostTypeOK, BudgetTypeOK, host, budget
  <2>2. CASE Fails(p, ~registered) /\ Exit(p, "fail") /\ UNCHANGED world
    <3>1. ProcTypeOK' /\ BudgetTypeOK'
      BY <2>2, ExitType, FaultType DEF Fails, TypeOK
    <3> QED
      BY <1>3, <2>2, <3>1 DEF FileExists, TypeOK, WorldTypeOK, HostTypeOK, world, host
  <2> QED
    BY <1>3, <2>1, <2>2 DEF FileExists
<1>4. CASE Decide(p)
  <2>1. AfterStatus(cmd[p], status[p]) \in Resting \cup Calls(cmd[p])
    BY <1>4, Caller DEF Decide, TypeOK, AfterStatus, StartAfter, StopAfter,
                             StatusAfter, ConfigureAfter, Calls
  <2>2. ProcTypeOK'
    BY <1>4, <2>1, MoveType DEF Decide, TypeOK
  <2> QED
    BY <1>4, <2>2 DEF Decide, TypeOK, WorldTypeOK, HostTypeOK, BudgetTypeOK, world, host, budget
<1>5. CASE StatRootFS(p)
  <2>1. ProcTypeOK'
    BY <1>5, Caller, MoveType DEF StatRootFS, TypeOK, Calls
  <2> QED
    BY <1>5, <2>1 DEF StatRootFS, TypeOK, WorldTypeOK, HostTypeOK, BudgetTypeOK, world, host, budget
<1>6. CASE EnsureRootFS(p)
  <2>1. PICK l \in {"ok", "mkdir", "fail"} : Move(p, l) /\ (l = "mkdir" => cmd[p] # "update")
    BY <1>6 DEF EnsureRootFS
  <2>2. l \in Resting \cup Calls(cmd[p]) /\ pc[p] \notin Resting
    BY <1>6, <2>1, Caller DEF EnsureRootFS, TypeOK, Calls
  <2>3. ProcTypeOK' /\ BudgetTypeOK'
    BY <1>6, <2>1, <2>2, MoveType, FaultType DEF EnsureRootFS, TypeOK
  <2> QED
    BY <1>6, <2>3 DEF EnsureRootFS, TypeOK, WorldTypeOK, HostTypeOK, world
<1>7. CASE EnsureWSLDirectory(p)
  <2>1. ProcTypeOK' /\ BudgetTypeOK'
    BY <1>7, Caller, GotoType, ExitType, FaultType DEF EnsureWSLDirectory, TypeOK, Calls
  <2> QED
    BY <1>7, <2>1 DEF EnsureWSLDirectory, TypeOK, WorldTypeOK, HostTypeOK, host
<1>8. CASE RegisterDistribution(p)
  <2>1. CASE /\ registered' = TRUE /\ wslDir' = "disk"
             /\ pc' = [pc EXCEPT ![p] = "configure"]
             /\ status' = [status EXCEPT ![p] = "Installed"]
             /\ UNCHANGED <<cmd, snap, budget>>
    <3>1. ProcTypeOK'
      BY <1>8, <2>1, Caller DEF RegisterDistribution, TypeOK, ProcTypeOK, AtCall, Calls, Statuses
    <3> QED
      BY <1>8, <2>1, <3>1 DEF RegisterDistribution, TypeOK, WorldTypeOK, HostTypeOK, BudgetTypeOK, host, budget
  <2>2. CASE Exit(p, "fail") /\ (Fault(p) \/ UNCHANGED budget) /\ UNCHANGED <<registered, wslDir>>
    <3>1. ProcTypeOK' /\ BudgetTypeOK'
      BY <2>2, ExitType, FaultType DEF TypeOK
    <3> QED
      BY <1>8, <2>2, <3>1 DEF RegisterDistribution, TypeOK, WorldTypeOK, HostTypeOK, host
  <2> QED
    BY <1>8, <2>1, <2>2 DEF RegisterDistribution, Fails
<1>9. CASE Configure(p)
  <2>1. ProcTypeOK'
    BY <1>9, Caller, MoveType DEF Configure, TypeOK, Calls
  <2>2. BudgetTypeOK'
    BY <1>9, FaultType DEF Configure, Fails, TypeOK
  <2> QED
    BY <1>9, <2>1, <2>2 DEF Configure, Boot, TypeOK, WorldTypeOK, HostTypeOK, world, host
<1>10. CASE Launch(p)
  <2>1. ProcTypeOK'
    BY <1>10, Caller, GotoType, ExitType DEF Launch, TypeOK, Calls
  <2>2. BudgetTypeOK'
    BY <1>10, FaultType DEF Launch, Fails, TypeOK
  <2> QED
    BY <1>10, <2>1, <2>2 DEF Launch, TypeOK, WorldTypeOK, HostTypeOK, world, host
<1>11. CASE LaunchDone(p)
  <2>1. ProcTypeOK'
    BY <1>11, Caller, GotoType, ExitType DEF LaunchDone, TypeOK, Calls
  <2>2. BudgetTypeOK'
    BY <1>11, FaultType DEF LaunchDone, Fails, TypeOK
  <2> QED
    BY <1>11, <2>1, <2>2 DEF LaunchDone, TypeOK, WorldTypeOK, HostTypeOK, host
<1>12. CASE MergeLoad(p)
  <2>1. CASE /\ snap' = [snap EXCEPT ![p] = IF kubeconf THEN "current" ELSE ctx]
             /\ pc' = [pc EXCEPT ![p] = "mergeWrite"]
             /\ UNCHANGED <<cmd, status, budget>>
    <3>1. ProcTypeOK'
      BY <1>12, <2>1, Caller DEF MergeLoad, TypeOK, ProcTypeOK, HostTypeOK, AtCall, Calls, Contexts
    <3> QED
      BY <1>12, <2>1, <3>1 DEF MergeLoad, Boot, TypeOK, WorldTypeOK, HostTypeOK, BudgetTypeOK, world, host, budget
  <2>2. CASE (Fault(p) \/ UNCHANGED budget) /\ Exit(p, "fail")
    <3>1. ProcTypeOK' /\ BudgetTypeOK'
      BY <2>2, ExitType, FaultType DEF TypeOK
    <3> QED
      BY <1>12, <3>1 DEF MergeLoad, Boot, TypeOK, WorldTypeOK, HostTypeOK, world, host
  <2> QED
    BY <1>12, <2>1, <2>2 DEF MergeLoad, Fails
<1>13. CASE MergeWrite(p)
  <2>1. ProcTypeOK' /\ BudgetTypeOK'
    BY <1>13, Caller, GotoType, ExitType, FaultType DEF MergeWrite, TypeOK, Calls
  <2> QED
    BY <1>13, <2>1 DEF MergeWrite, TypeOK, ProcTypeOK, WorldTypeOK, HostTypeOK, Contexts, world
<1>14. CASE Wait(p)
  <2>1. ProcTypeOK'
    BY <1>14, ExitType DEF Wait, TypeOK
  <2> QED
    BY <1>14, <2>1 DEF Wait, Boot, TypeOK, WorldTypeOK, HostTypeOK, BudgetTypeOK, world, host, budget
<1>15. CASE StopList(p)
  <2>1. AfterStop(cmd[p]) \in Resting \cup Calls(cmd[p]) /\ "rcStop" \in Calls(cmd[p])
    BY <1>15, Caller DEF StopList, TypeOK, AfterStop, Calls
  <2>2. ProcTypeOK'
    BY <1>15, <2>1, MoveType DEF StopList, TypeOK
  <2>3. BudgetTypeOK'
    BY <1>15, FaultType DEF StopList, TypeOK
  <2> QED
    BY <1>15, <2>2, <2>3 DEF StopList, TypeOK, WorldTypeOK, HostTypeOK, world, host
<1>16. CASE RcStop(p)
  <2>1. ProcTypeOK'
    BY <1>16, Caller, GotoType DEF RcStop, TypeOK, Calls
  <2>2. BudgetTypeOK'
    BY <1>16, FaultType DEF RcStop, Fails, TypeOK
  <2> QED
    BY <1>16, <2>1, <2>2 DEF RcStop, TypeOK, WorldTypeOK, HostTypeOK, world, host
<1>17. CASE Terminate(p)
  <2>1. AfterStop(cmd[p]) \in Resting \cup Calls(cmd[p])
    BY <1>17, Caller DEF Terminate, TypeOK, AfterStop, Calls
  <2>2. ProcTypeOK'
    BY <1>17, <2>1, MoveType DEF Terminate, TypeOK
  <2>3. BudgetTypeOK'
    BY <1>17, FaultType DEF Terminate, Fails, TypeOK
  <2> QED
    BY <1>17, <2>2, <2>3 DEF Terminate, Halt, TypeOK, WorldTypeOK, HostTypeOK, world, host
<1>18. CASE Uninstall(p)
  <2>1. ProcTypeOK'
    BY <1>18, Caller, MoveType DEF Uninstall, TypeOK, Calls
  <2> QED
    BY <1>18, <2>1 DEF Uninstall, TypeOK, WorldTypeOK, HostTypeOK, BudgetTypeOK, world, host, budget
<1>19. CASE Unregister(p)
  <2>1. CASE Gone /\ pc' = [pc EXCEPT ![p] = "removeLoad"] /\ UNCHANGED budget
    <3>1. ProcTypeOK'
      BY <1>19, <2>1, Caller DEF Unregister, Gone, TypeOK, ProcTypeOK, AtCall, Calls, Contexts, Aged
    <3> QED
      BY <2>1, <3>1 DEF Gone, TypeOK, WorldTypeOK, HostTypeOK, BudgetTypeOK, budget, Aged, Contexts
  <2>2. CASE (Fault(p) \/ UNCHANGED budget) /\ Exit(p, "fail") /\ UNCHANGED <<world, host>>
    <3>1. ProcTypeOK' /\ BudgetTypeOK'
      BY <2>2, ExitType, FaultType DEF TypeOK
    <3> QED
      BY <2>2, <3>1 DEF TypeOK, WorldTypeOK, HostTypeOK, world, host
  <2> QED
    BY <1>19, <2>1, <2>2 DEF Unregister, Fails
<1>20. CASE RemoveLoad(p)
  <2>1. ProcTypeOK'
    <3>1. CASE Exit(p, "fail")
      BY <3>1, ExitType DEF TypeOK
    <3>2. CASE ~Exit(p, "fail")
      BY <1>20, <3>2, Caller DEF RemoveLoad, TypeOK, ProcTypeOK, AtCall, Calls, Contexts
    <3> QED
      BY <3>1, <3>2
  <2>2. BudgetTypeOK'
    BY <1>20, FaultType DEF RemoveLoad, TypeOK
  <2> QED
    BY <1>20, <2>1, <2>2 DEF RemoveLoad, TypeOK, WorldTypeOK, HostTypeOK, world, host
<1>21. CASE RemoveWrite(p)
  <2>1. ProcTypeOK' /\ BudgetTypeOK'
    BY <1>21, Caller, GotoType, ExitType, FaultType DEF RemoveWrite, TypeOK, Calls
  <2> QED
    BY <1>21, <2>1 DEF RemoveWrite, TypeOK, ProcTypeOK, WorldTypeOK, HostTypeOK, Contexts, world
<1>22. CASE RemoveDir(p)
  <2>1. ProcTypeOK'
    BY <1>22, ExitType DEF RemoveDir, TypeOK
  <2>2. BudgetTypeOK'
    BY <1>22, FaultType DEF RemoveDir, Fails, TypeOK
  <2> QED
    BY <1>22, <2>1, <2>2 DEF RemoveDir, TypeOK, WorldTypeOK, HostTypeOK, host
<1> QED
  BY <1>1, <1>2, <1>3, <1>4, <1>5, <1>6, <1>7, <1>8, <1>9, <1>10, <1>11, <1>12,
     <1>13, <1>14, <1>15, <1>16, <1>17, <1>18, <1>19, <1>20, <1>21, <1>22
  DEF Step, GetClusterStatus, Start, StopCluster, RemoveAll

LEMMA TypeInductive == TypeOK /\ [Next]_vars => TypeOK'
<1> SUFFICES ASSUME TypeOK, [Next]_vars PROVE TypeOK'
  OBVIOUS
<1>1. ASSUME NEW p \in Procs, Begin(p) PROVE TypeOK'
  <2>1. PICK c \in Commands : /\ cmd' = [cmd EXCEPT ![p] = c]
                              /\ pc' = [pc EXCEPT ![p] = FirstCall(c)]
    BY <1>1 DEF Begin
  <2>2. FirstCall(c) \in Calls(c)
    BY LifecycleAssumption DEF LifecycleAssumption, FirstCall, Calls, AllCommands
  <2>3. ProcTypeOK'
    BY <1>1, <2>1, <2>2, CallsAreCalls, RestIsNoCall
    DEF Begin, TypeOK, ProcTypeOK, AtCall
  <2> QED
    BY <1>1, <2>3 DEF Begin, TypeOK, WorldTypeOK, HostTypeOK, BudgetTypeOK, world, host
<1>2. ASSUME NEW p \in Procs, Step(p) PROVE TypeOK'
  BY <1>2, TypeStep
<1>3. ASSUME NEW p \in Procs, Crash(p) PROVE TypeOK'
  <2>1. ProcTypeOK' /\ BudgetTypeOK'
    BY <1>3, ExitType, FaultType DEF Crash, TypeOK, Resting, Outcomes
  <2>2. HostTypeOK'
    BY <1>3 DEF Crash, TypeOK, HostTypeOK, Contexts
  <2>3. orphan' \in BOOLEAN
    BY <1>3 DEF Crash, TypeOK, WorldTypeOK
  <2> QED
    BY <1>3, <2>1, <2>2, <2>3 DEF Crash, TypeOK, WorldTypeOK
<1>4. CASE HostStop
  <2>1. BudgetTypeOK'
    BY <1>4, LifecycleAssumption DEF LifecycleAssumption, HostStop, TypeOK, BudgetTypeOK, Active
  <2> QED
    BY <1>4, <2>1 DEF HostStop, Halt, TypeOK, ProcTypeOK, AtCall, WorldTypeOK, HostTypeOK, proc, host
<1>5. CASE Iknite
  <2>1. UNCHANGED <<proc, host, budget>> /\ UNCHANGED <<registered, running, wslDir, jobs>>
    BY <1>5 DEF Iknite, IkniteWritesKubeconfig, IkniteServiceUp, OrphanEnds
  <2>2. ProcTypeOK'
    BY <2>1 DEF TypeOK, ProcTypeOK, AtCall, proc
  <2>3. kubeconf' \in BOOLEAN /\ iknite' \in BOOLEAN /\ orphan' \in BOOLEAN
    BY <1>5 DEF Iknite, IkniteWritesKubeconfig, IkniteServiceUp, OrphanEnds, TypeOK, WorldTypeOK
  <2> QED
    BY <2>1, <2>2, <2>3 DEF TypeOK, WorldTypeOK, HostTypeOK, BudgetTypeOK, host, budget
<1>6. CASE UNCHANGED vars
  BY <1>6 DEF vars, TypeOK, ProcTypeOK, AtCall, WorldTypeOK, HostTypeOK, BudgetTypeOK,
              proc, world, host, budget
<1> QED
  BY <1>1, <1>2, <1>3, <1>4, <1>5, <1>6 DEF Next

LEMMA TypeInit == Init => TypeOK
<1> SUFFICES ASSUME Init PROVE TypeOK
  OBVIOUS
<1>1. TarAtHand \in BOOLEAN /\ MaxFaults \in Nat
  BY LifecycleAssumption DEF LifecycleAssumption
<1>2. ProcTypeOK
  BY DEF Init, ProcTypeOK, AtCall, Resting, Statuses, Contexts
<1>3. HostTypeOK
  BY <1>1 DEF Init, HostTypeOK, Contexts
<1>4. WorldTypeOK
  BY DEF Init, WorldTypeOK
<1>5. BudgetTypeOK
  BY <1>1 DEF Init, BudgetTypeOK
<1> QED
  BY <1>2, <1>3, <1>4, <1>5 DEF TypeOK

(* Every process is at a call of the command it runs, whatever fails and       *)
(* whatever the other processes do.                                            *)
THEOREM TypeCorrect == Spec => []TypeOK
  BY TypeInit, TypeInductive, PTL DEF Spec

-----------------------------------------------------------------------------
(* Where a step of a process leads, and what only some steps change.           *)
LEMMA Successors ==
    ASSUME TypeOK, NEW p \in Procs, Step(p)
    PROVE  /\ pc[p] \notin Resting
           /\ \A q \in Procs \ {p} : pc'[q] = pc[q]
           /\ pc'[p] = "removeLoad" => Unregister(p)
           /\ pc'[p] = "removeWrite" => RemoveLoad(p)
           /\ pc'[p] = "removeDir" => RemoveWrite(p)
           /\ pc'[p] = "mergeWrite" => MergeLoad(p)
           /\ pc[p] = "removeLoad" => RemoveLoad(p)
           /\ pc[p] = "removeWrite" => RemoveWrite(p)
           /\ cmd[p] = "uninstall" /\ pc'[p] = "ok" => RemoveDir(p)
           /\ ctx' # ctx => MergeWrite(p) \/ Unregister(p) \/ RemoveWrite(p)
           /\ registered' # registered => RegisterDistribution(p) \/ Unregister(p)
           /\ wslDir' # wslDir => \/ EnsureWSLDirectory(p) \/ RegisterDistribution(p)
                                  \/ Unregister(p) \/ RemoveDir(p)
           /\ faults' = 0 => faults = 0
<1> USE DEF Resting, Outcomes, Goto, Exit, Move, Fault, Fails, Boot, Halt, budget, world, host
<1>0. TypeOK /\ ProcTypeOK /\ faults \in Nat
  BY LifecycleAssumption DEF TypeOK, BudgetTypeOK, LifecycleAssumption
<1>1. CASE GetClusterStatus(p)
  BY <1>0, <1>1, Caller
  DEF ProcTypeOK, GetClusterStatus, IsRegistered, List, FileExists, Decide, AfterStatus,
      StartAfter, StopAfter, StatusAfter, ConfigureAfter
<1>2. CASE Start(p)
  BY <1>0, <1>2, Caller
  DEF ProcTypeOK, Start, StatRootFS, EnsureRootFS, EnsureWSLDirectory,
      RegisterDistribution, Configure, Launch, LaunchDone, MergeLoad, MergeWrite, Wait
<1>3. CASE StopCluster(p)
  BY <1>0, <1>3, Caller DEF ProcTypeOK, StopCluster, StopList, RcStop, Terminate, AfterStop
<1>4. CASE RemoveAll(p)
  BY <1>0, <1>4, Caller
  DEF ProcTypeOK, RemoveAll, Uninstall, Unregister, Gone, RemoveLoad, RemoveWrite, RemoveDir
<1> QED
  BY <1>1, <1>2, <1>3, <1>4 DEF Step

-----------------------------------------------------------------------------
(***************************************************************************)
(* What makes the safety properties inductive. Commands given one after the  *)
(* other are alone (Alone). The four last calls of uninstall rely on what    *)
(* the ones before them did (Removal): the registration is gone, so RemoveAll*)
(* meets no disk in use; the context was deleted from the copy to be written;*)
(* and it is still gone when the directory goes. Without a failure, a stale  *)
(* context is one that uninstall is about to delete (Staleness).             *)
(***************************************************************************)
Alone == \A p, q \in Procs : pc[p] \notin Resting /\ pc[q] \notin Resting => p = q

Removal ==
    \A p \in Procs :
        /\ pc[p] \in {"removeLoad", "removeWrite", "removeDir"} => ~registered
        /\ pc[p] = "removeWrite" => snap[p] = "none"
        /\ pc[p] = "removeDir" => ctx = "none"

Staleness ==
    faults = 0 =>
        /\ ctx = "stale" => \E p \in Procs : pc[p] \in {"removeLoad", "removeWrite"}
        /\ \A p \in Procs : pc[p] = "mergeWrite" => snap[p] # "stale"

SerialInv == Serial => Alone /\ Removal /\ Staleness

(* In a step of a process that is alone, the others stay at rest. *)
LEMMA OthersRest ==
    ASSUME TypeOK, Alone, NEW p \in Procs, pc[p] \notin Resting,
           \A q \in Procs \ {p} : pc'[q] = pc[q]
    PROVE  \A q \in Procs \ {p} : pc[q] \in Resting /\ pc'[q] \in Resting
  BY DEF Alone

LEMMA SerialStep ==
    ASSUME TypeOK, SerialInv, Serial, NEW p \in Procs, Step(p)
    PROVE  SerialInv'
<1> DEFINE Rest(q) == pc[q] \in Resting /\ pc'[q] \in Resting
<1>1. \A q \in Procs \ {p} : Rest(q)
  BY Successors, OthersRest DEF SerialInv
<1>2. ASSUME NEW q \in Procs \ {p}
      PROVE  pc'[q] \notin {"removeLoad", "removeWrite", "removeDir", "mergeWrite"}
  BY <1>1 DEF Resting, Outcomes
<1>3. Alone'
  BY <1>1 DEF Alone
<1>4. Removal'
  <2>1. CASE pc'[p] = "removeLoad"
    BY <2>1, <1>2, Successors DEF Removal, Unregister, Gone, Fails, Exit, TypeOK, ProcTypeOK
  <2>2. CASE pc'[p] = "removeWrite"
    BY <2>2, <1>2, Successors DEF SerialInv, Removal, RemoveLoad, Exit, TypeOK, ProcTypeOK, world
  <2>3. CASE pc'[p] = "removeDir"
    BY <2>3, <1>2, Successors DEF SerialInv, Removal, RemoveWrite, Goto, Exit, TypeOK, ProcTypeOK, world
  <2> QED
    BY <2>1, <2>2, <2>3, <1>2 DEF Removal
<1>5. Staleness'
  <2> SUFFICES ASSUME faults' = 0
               PROVE  /\ ctx' = "stale" => \E q \in Procs : pc'[q] \in {"removeLoad", "removeWrite"}
                      /\ \A q \in Procs : pc'[q] = "mergeWrite" => snap'[q] # "stale"
    BY DEF Staleness
  <2>1. faults = 0 /\ Staleness
    BY Successors DEF SerialInv
  <2>2. pc'[p] = "mergeWrite" => snap'[p] # "stale"
    <3> SUFFICES ASSUME pc'[p] = "mergeWrite" PROVE snap'[p] # "stale"
      OBVIOUS
    <3>1. MergeLoad(p) /\ pc[p] = "mergeLoad"
      BY Successors DEF MergeLoad
    <3>2. ctx # "stale"
      BY <2>1, <3>1, <1>1 DEF Staleness, Resting, Outcomes
    <3> QED
      BY <3>1, <3>2 DEF MergeLoad, Exit, TypeOK, ProcTypeOK
  <2>3. ASSUME ctx' = "stale"
        PROVE  \E q \in Procs : pc'[q] \in {"removeLoad", "removeWrite"}
    <3>1. ~RemoveWrite(p)
      BY <2>1, <2>3 DEF SerialInv, Removal, RemoveWrite, Fault, TypeOK, BudgetTypeOK
    <3>2. CASE ctx' = ctx
      <4>1. pc[p] = "removeLoad"
        BY <2>1, <2>3, <3>1, <3>2, <1>1, Successors DEF Staleness, Resting, Outcomes
      <4>2. RemoveLoad(p) /\ ~Fault(p)
        BY <4>1, <2>1, Successors DEF Fault
      <4> QED
        BY <4>2 DEF RemoveLoad, TypeOK, ProcTypeOK
    <3>3. CASE MergeWrite(p)
      BY <2>1, <2>3, <3>3 DEF Staleness, MergeWrite, Fault
    <3>4. CASE Unregister(p) /\ ctx' # ctx
      BY <3>4 DEF Unregister, Gone, host, TypeOK, ProcTypeOK
    <3> QED
      BY <3>1, <3>2, <3>3, <3>4, Successors
  <2> QED
    BY <2>2, <2>3, <1>2
<1> QED
  BY <1>3, <1>4, <1>5 DEF SerialInv

LEMMA SerialInductive == TypeOK /\ SerialInv /\ [Next]_vars => SerialInv'
<1> SUFFICES ASSUME TypeOK, SerialInv, Serial, [Next]_vars PROVE SerialInv'
  BY DEF SerialInv
<1> USE DEF Resting, Outcomes
<1>1. ASSUME NEW p \in Procs, Begin(p) PROVE SerialInv'
  <2>1. \A q \in Procs : pc[q] \in Resting
    BY <1>1 DEF Begin, Active
  <2>2. PICK c \in Commands : pc' = [pc EXCEPT ![p] = FirstCall(c)]
    BY <1>1 DEF Begin
  <2>3. FirstCall(c) \in {"uninstall", "update", "isRegistered"}
    BY DEF FirstCall
  <2>4. \A q \in Procs : pc'[q] \notin {"removeLoad", "removeWrite", "removeDir", "mergeWrite"}
    BY <2>1, <2>2, <2>3 DEF TypeOK, ProcTypeOK
  <2>5. Alone' /\ Removal'
    BY <2>1, <2>2, <2>4 DEF Alone, Removal, TypeOK, ProcTypeOK
  <2>6. Staleness'
    BY <1>1, <2>1, <2>4 DEF SerialInv, Staleness, Begin, host
  <2> QED
    BY <2>5, <2>6 DEF SerialInv
<1>2. ASSUME NEW p \in Procs, Step(p) PROVE SerialInv'
  BY <1>2, SerialStep
<1>3. ASSUME NEW p \in Procs, Crash(p) PROVE SerialInv'
  <2>1. pc' = [pc EXCEPT ![p] = "crashed"] /\ pc[p] \notin Resting
    BY <1>3 DEF Crash, Exit
  <2>2. Alone' /\ Removal'
    BY <2>1 DEF SerialInv, Alone, Removal, TypeOK, ProcTypeOK
  <2>3. faults' # 0
    BY <1>3 DEF Crash, Fault, TypeOK, BudgetTypeOK
  <2> QED
    BY <2>2, <2>3 DEF SerialInv, Staleness
<1>4. CASE HostStop
  <2>1. faults' # 0
    BY <1>4 DEF HostStop, TypeOK, BudgetTypeOK
  <2> QED
    BY <1>4, <2>1 DEF HostStop, Halt, SerialInv, Alone, Removal, Staleness, proc, host
<1>5. CASE Iknite
  BY <1>5 DEF Iknite, IkniteWritesKubeconfig, IkniteServiceUp, OrphanEnds,
              SerialInv, Alone, Removal, Staleness, proc, host, budget
<1>6. CASE UNCHANGED vars
  BY <1>6 DEF vars, SerialInv, Alone, Removal, Staleness, proc, world, host, budget
<1> QED
  BY <1>1, <1>2, <1>3, <1>4, <1>5, <1>6 DEF Next

LEMMA SerialInit == Init => SerialInv
  BY DEF Init, SerialInv, Alone, Removal, Staleness, Resting

THEOREM SerialCorrect == Spec => []SerialInv
  BY TypeCorrect, SerialInit, SerialInductive, PTL DEF Spec

(* Without a failure, commands given one after the other leave no kube context *)
(* of a distribution that is gone: what Staleness says of a moment when no     *)
(* process is at a call.                                                       *)
THEOREM NoDanglingContextHolds == Serial => (Spec => []NoDanglingContext)
<1> SUFFICES ASSUME Serial PROVE Spec => []NoDanglingContext
  OBVIOUS
<1>1. TypeOK /\ SerialInv => NoDanglingContext
  BY DEF SerialInv, Staleness, NoDanglingContext, Active, Resting, Outcomes
<1> QED
  BY <1>1, TypeCorrect, SerialCorrect, PTL

(* An uninstall that reports success left no registration, directory or kube   *)
(* context, whatever failed in the commands before it: RemoveDir is reached    *)
(* only after the steps that removed the rest (Removal).                       *)
THEOREM UninstallCleanHolds == Serial => (Spec => UninstallClean)
<1> SUFFICES ASSUME Serial PROVE Spec => UninstallClean
  OBVIOUS
<1>1. TypeOK /\ SerialInv /\ [Next]_vars => [UninstallLeavesNothing]_vars
  <2> SUFFICES ASSUME TypeOK, SerialInv, [Next]_vars PROVE [UninstallLeavesNothing]_vars
    OBVIOUS
  <2> SUFFICES ASSUME NEW p \in Procs, cmd[p] = "uninstall", pc'[p] = "ok", ~UNCHANGED vars
               PROVE  ~registered' /\ wslDir' = "absent" /\ ctx' = "none"
    BY DEF UninstallLeavesNothing
  <2> USE DEF Resting, Outcomes
  <2>0. pc[p] # "ok"
    BY DEF TypeOK, ProcTypeOK, AtCall
  <2>1. CASE \E q \in Procs : Begin(q)
    BY <2>0, <2>1 DEF Begin, FirstCall, TypeOK, ProcTypeOK
  <2>2. ASSUME NEW q \in Procs, Step(q)
        PROVE  ~registered' /\ wslDir' = "absent" /\ ctx' = "none"
    <3>1. q = p
      BY <2>0, <2>2, Successors
    <3>2. RemoveDir(p)
      BY <2>2, <3>1, Successors
    <3> QED
      BY <3>2 DEF RemoveDir, Exit, SerialInv, Removal, host, TypeOK, ProcTypeOK
  <2>3. CASE \E q \in Procs : Crash(q)
    BY <2>0, <2>3 DEF Crash, Exit, TypeOK, ProcTypeOK
  <2>4. CASE HostStop \/ Iknite
    BY <2>0, <2>4 DEF HostStop, Iknite, IkniteWritesKubeconfig, IkniteServiceUp, OrphanEnds, proc
  <2> QED
    BY <2>1, <2>2, <2>3, <2>4 DEF Next
<1> QED
  BY <1>1, TypeCorrect, SerialCorrect, PTL DEF Spec, UninstallClean

-----------------------------------------------------------------------------
(* A registered distribution keeps its disk if commands are given one after    *)
(* the other, or if none of them is uninstall. Neither assumption can go: an   *)
(* uninstall that is at its RemoveAll deletes the disk of a distribution that  *)
(* a start has meanwhile imported.                                             *)
THEOREM RegisteredHasDiskHolds ==
    Serial \/ "uninstall" \notin Commands => (Spec => []RegisteredHasDisk)
<1> SUFFICES ASSUME Serial \/ "uninstall" \notin Commands PROVE Spec => []RegisteredHasDisk
  OBVIOUS
<1>1. Init => RegisteredHasDisk
  BY DEF Init, RegisteredHasDisk
<1>2. TypeOK /\ SerialInv /\ RegisteredHasDisk /\ [Next]_vars => RegisteredHasDisk'
  <2> SUFFICES ASSUME TypeOK, SerialInv, RegisteredHasDisk, [Next]_vars PROVE RegisteredHasDisk'
    OBVIOUS
  <2> USE DEF RegisteredHasDisk
  <2>1. ASSUME NEW p \in Procs, Step(p) PROVE RegisteredHasDisk'
    <3>1. ASSUME RemoveDir(p) PROVE Serial /\ ~registered
      BY <3>1, Caller DEF RemoveDir, SerialInv, Removal, TypeOK, ProcTypeOK, AtCall, Resting, Outcomes
    <3>2. CASE RemoveDir(p)
      BY <3>1, <3>2 DEF RemoveDir
    <3>3. CASE EnsureWSLDirectory(p)
      BY <3>3 DEF EnsureWSLDirectory
    <3>4. CASE RegisterDistribution(p)
      BY <3>4 DEF RegisterDistribution
    <3>5. CASE Unregister(p)
      BY <3>5 DEF Unregister, Gone, world
    <3> QED
      BY <2>1, <3>2, <3>3, <3>4, <3>5, Successors
  <2>2. CASE \E p \in Procs : Begin(p) \/ Crash(p)
    BY <2>2 DEF Begin, Crash, world
  <2>3. CASE HostStop \/ Iknite \/ UNCHANGED vars
    BY <2>3 DEF HostStop, Halt, Iknite, IkniteWritesKubeconfig, IkniteServiceUp,
                      OrphanEnds, vars, world
  <2> QED
    BY <2>1, <2>2, <2>3 DEF Next
<1> QED
  BY <1>1, <1>2, TypeCorrect, SerialCorrect, PTL DEF Spec

-----------------------------------------------------------------------------
(* Whatever is started is checked to be registered first. *)
Grounded == running => registered

LEMMA GroundedStep ==
    ASSUME Grounded, NEW p \in Procs, Step(p)
    PROVE  Grounded'
<1> USE DEF Grounded, Boot, Halt, world
<1>1. CASE GetClusterStatus(p)
  BY <1>1 DEF GetClusterStatus, IsRegistered, List, FileExists, Decide
<1>2. CASE Start(p)
  BY <1>2 DEF Start, StatRootFS, EnsureRootFS, EnsureWSLDirectory, RegisterDistribution,
              Configure, Launch, LaunchDone, MergeLoad, MergeWrite, Wait
<1>3. CASE StopCluster(p)
  BY <1>3 DEF StopCluster, StopList, RcStop, Terminate
<1>4. CASE RemoveAll(p)
  BY <1>4 DEF RemoveAll, Uninstall, Unregister, Gone, RemoveLoad, RemoveWrite, RemoveDir
<1> QED
  BY <1>1, <1>2, <1>3, <1>4 DEF Step

LEMMA GroundedCorrect == Spec => []Grounded
<1>1. Init => Grounded
  BY DEF Init, Grounded
<1>2. Grounded /\ [Next]_vars => Grounded'
  <2> SUFFICES ASSUME Grounded, [Next]_vars PROVE Grounded'
    OBVIOUS
  <2>1. ASSUME NEW p \in Procs, Begin(p) \/ Crash(p) PROVE Grounded'
    BY <2>1 DEF Begin, Crash, Grounded, world
  <2>2. CASE HostStop \/ Iknite \/ UNCHANGED vars
    BY <2>2 DEF HostStop, Halt, Iknite, IkniteWritesKubeconfig, IkniteServiceUp, OrphanEnds,
                vars, world, Grounded
  <2> QED
    BY <2>1, <2>2, GroundedStep DEF Next
<1> QED
  BY <1>1, <1>2, PTL DEF Spec

(* The last step of a stop is the termination, or a listing that shows that    *)
(* the distribution is not running (cluster.go:119-138).                       *)
LEMMA StopStep ==
    ASSUME TypeOK, Grounded, NEW p \in Procs, Step(p),
           cmd[p] = "stop", pc'[p] = "ok", p \notin hurt'
    PROVE  ~running'
<1> USE DEF Resting, Outcomes, Goto, Exit, Move, Fault, Fails
<1>1. ProcTypeOK /\ pc[p] \in StatusCalls \cup StopCalls /\ hurt \subseteq Procs
  BY Successors DEF TypeOK, ProcTypeOK, BudgetTypeOK, AtCall, Calls
<1>2. CASE GetClusterStatus(p)
  BY <1>1, <1>2 DEF GetClusterStatus, IsRegistered, List, FileExists, Decide, AfterStatus,
                    StopAfter, ProcTypeOK
<1>3. CASE StopList(p)
  BY <1>1, <1>3 DEF StopList, AfterStop, ProcTypeOK, Grounded, world
<1>4. CASE RcStop(p)
  BY <1>1, <1>4 DEF RcStop, ProcTypeOK
<1>5. CASE Terminate(p)
  BY <1>1, <1>5 DEF Terminate, Halt, ProcTypeOK
<1>6. CASE Start(p)
  BY <1>1, <1>6 DEF Start, StatRootFS, EnsureRootFS, EnsureWSLDirectory,
       RegisterDistribution, Configure, Launch, LaunchDone, MergeLoad, MergeWrite, Wait
<1>7. CASE RemoveAll(p)
  BY <1>1, <1>7 DEF RemoveAll, Uninstall, Unregister, RemoveLoad, RemoveWrite, RemoveDir
<1> QED
  BY <1>2, <1>3, <1>4, <1>5, <1>6, <1>7 DEF Step, StopCluster

(* A stop that ends well and met no failure leaves the distribution down,      *)
(* whatever other commands do.                                                 *)
THEOREM StopStopsHolds == Spec => StopStops
<1>1. TypeOK /\ Grounded /\ [Next]_vars => [StopEndsDown]_vars
  <2> SUFFICES ASSUME TypeOK, Grounded, Next,
                      NEW p \in Procs, cmd[p] = "stop", pc'[p] = "ok", p \notin hurt'
               PROVE  ~running'
    BY DEF StopEndsDown
  <2>0. ProcTypeOK /\ pc[p] \notin Resting
    BY DEF TypeOK, ProcTypeOK, AtCall
  <2>1. ASSUME NEW q \in Procs, Step(q) PROVE ~running'
    BY <2>0, <2>1, Successors, StopStep DEF Resting, Outcomes
  <2>2. ASSUME NEW q \in Procs, Begin(q) \/ Crash(q) PROVE FALSE
    <3>1. PICK l : pc' = [pc EXCEPT ![q] = l] /\ l # "ok"
      BY <2>2 DEF Begin, FirstCall, Crash, Exit
    <3> QED
      BY <2>0, <3>1 DEF ProcTypeOK, Resting, Outcomes
  <2>3. CASE HostStop \/ Iknite
    BY <2>0, <2>3 DEF HostStop, Iknite, IkniteWritesKubeconfig, IkniteServiceUp, OrphanEnds, proc,
                      Resting, Outcomes
  <2> QED
    BY <2>1, <2>2, <2>3 DEF Next
<1> QED
  BY <1>1, TypeCorrect, GroundedCorrect, PTL DEF Spec, StopStops

-----------------------------------------------------------------------------
(***************************************************************************)
(* Why a start that finds the cluster started need not merge the context:    *)
(* without a failure, a cluster that is up has its context merged, or is     *)
(* about to have it by the one start there is. Each line says what one call  *)
(* relies on.                                                                *)
(***************************************************************************)
MergeCalls == {"launched", "mergeLoad", "mergeWrite"}

MergedAt(p) ==
    /\ pc[p] = "launched" => p \in jobs /\ registered
    /\ pc[p] = "mergeLoad" => kubeconf /\ registered
    /\ pc[p] = "mergeWrite" => snap[p] = "current"
    /\ pc[p] \in {"list", "fileExists"} => status[p] # "Started"
    /\ pc[p] = "decide" /\ status[p] = "Started" => ctx = "current"
    /\ pc[p] = "wait" => ctx = "current"
    /\ pc[p] \in {"removeLoad", "removeWrite", "removeDir"} => ~iknite

Merged ==
    /\ ~orphan
    /\ \A p \in jobs : pc[p] = "launched"
    /\ iknite => ctx = "current" \/ \E p \in Procs : pc[p] \in MergeCalls
    /\ \A p \in Procs : MergedAt(p)

(* The same, said of the one process that is not at rest. *)
MergedFor(p) ==
    /\ ~orphan
    /\ jobs \subseteq {p}
    /\ p \in jobs => pc[p] = "launched"
    /\ iknite => ctx = "current" \/ pc[p] \in MergeCalls
    /\ MergedAt(p)

MergedInv == Serial /\ faults = 0 => Merged

LEMMA MergedStepFor ==
    ASSUME TypeOK, NEW p \in Procs, MergedFor(p), Step(p), faults' = 0
    PROVE  MergedFor(p)'
<1> USE DEF MergedFor, MergedAt, MergeCalls, Resting, Outcomes, Goto, Exit, Move, Fails, Boot,
            Halt, world, host
<1>1. ~Fault(p) /\ ProcTypeOK /\ jobs \subseteq Procs
  BY DEF Fault, TypeOK, BudgetTypeOK, WorldTypeOK
<1>2. CASE IsRegistered(p)
  BY <1>1, <1>2 DEF ProcTypeOK, IsRegistered
<1>3. CASE List(p)
  BY <1>1, <1>3 DEF ProcTypeOK, List
<1>4. CASE FileExists(p)
  BY <1>1, <1>4 DEF ProcTypeOK, FileExists
<1>5. CASE Decide(p)
  BY <1>1, <1>5, Caller DEF ProcTypeOK, Decide, AfterStatus, StartAfter, StopAfter, StatusAfter,
                            ConfigureAfter
<1>6. CASE StatRootFS(p)
  BY <1>1, <1>6 DEF ProcTypeOK, StatRootFS
<1>7. CASE EnsureRootFS(p)
  BY <1>1, <1>7 DEF ProcTypeOK, EnsureRootFS
<1>8. CASE EnsureWSLDirectory(p)
  BY <1>1, <1>8 DEF ProcTypeOK, EnsureWSLDirectory
<1>9. CASE RegisterDistribution(p)
  BY <1>1, <1>9 DEF ProcTypeOK, RegisterDistribution
<1>10. CASE Configure(p)
  BY <1>1, <1>10 DEF ProcTypeOK, Configure
<1>11. CASE Launch(p)
  BY <1>1, <1>11 DEF ProcTypeOK, Launch
<1>12. CASE LaunchDone(p)
  BY <1>1, <1>12 DEF ProcTypeOK, LaunchDone
<1>13. CASE MergeLoad(p)
  <2>1. registered /\ kubeconf
    BY <1>13 DEF MergeLoad
  <2>2. /\ pc' = [pc EXCEPT ![p] = "mergeWrite"]
        /\ snap' = [snap EXCEPT ![p] = "current"]
        /\ UNCHANGED <<status, registered, iknite, kubeconf, jobs, orphan, ctx>>
    BY <1>1, <1>13, <2>1 DEF MergeLoad
  <2>3. pc'[p] = "mergeWrite" /\ snap'[p] = "current" /\ pc[p] = "mergeLoad"
    BY <1>1, <1>13, <2>2 DEF ProcTypeOK, MergeLoad
  <2> QED
    BY <2>2, <2>3
<1>14. CASE MergeWrite(p)
  BY <1>1, <1>14 DEF ProcTypeOK, MergeWrite
<1>15. CASE Wait(p)
  BY <1>1, <1>15 DEF ProcTypeOK, Wait
<1>16. CASE StopCluster(p)
  BY <1>1, <1>16 DEF ProcTypeOK, StopCluster, StopList, RcStop, Terminate, AfterStop
<1>17. CASE Uninstall(p)
  BY <1>1, <1>17 DEF ProcTypeOK, Uninstall
<1>18. CASE Unregister(p)
  BY <1>1, <1>18 DEF ProcTypeOK, Unregister, Gone
<1>19. CASE RemoveLoad(p)
  BY <1>1, <1>19 DEF ProcTypeOK, RemoveLoad
<1>20. CASE RemoveWrite(p)
  BY <1>1, <1>20 DEF ProcTypeOK, RemoveWrite
<1>21. CASE RemoveDir(p)
  BY <1>1, <1>21 DEF ProcTypeOK, RemoveDir
<1> QED
  BY <1>2, <1>3, <1>4, <1>5, <1>6, <1>7, <1>8, <1>9, <1>10, <1>11, <1>12, <1>13, <1>14,
     <1>15, <1>16, <1>17, <1>18, <1>19, <1>20, <1>21
  DEF Step, GetClusterStatus, Start, RemoveAll

LEMMA MergedStep ==
    ASSUME TypeOK, SerialInv, Serial, Merged, NEW p \in Procs, Step(p), faults' = 0
    PROVE  Merged'
<1>1. \A q \in Procs \ {p} : pc[q] \in Resting /\ pc'[q] \in Resting
  BY Successors, OthersRest DEF SerialInv
<1>2. \A q \in Procs \ {p} : MergedAt(q)'
  BY <1>1 DEF MergedAt, Resting, Outcomes
<1>3. MergedFor(p)
  BY <1>1 DEF Merged, MergedFor, MergeCalls, Resting, Outcomes, TypeOK, WorldTypeOK
<1>4. MergedFor(p)'
  BY <1>3, MergedStepFor
<1> QED
  BY <1>2, <1>4 DEF Merged, MergedFor

LEMMA MergedInductive == TypeOK /\ SerialInv /\ MergedInv /\ [Next]_vars => MergedInv'
<1> SUFFICES ASSUME TypeOK, SerialInv, MergedInv, [Next]_vars, Serial, faults' = 0 PROVE Merged'
  BY DEF MergedInv
<1>0. ASSUME faults = 0 PROVE Merged
  BY <1>0 DEF MergedInv
<1>1. ASSUME NEW p \in Procs, Begin(p) PROVE Merged'
  <2>1. \A q \in Procs : pc[q] \in Resting
    BY <1>1 DEF Begin, Active
  <2>2. PICK c \in Commands : pc' = [pc EXCEPT ![p] = FirstCall(c)]
    BY <1>1 DEF Begin
  <2>3. FirstCall(c) \in {"uninstall", "update", "isRegistered"}
    BY DEF FirstCall
  <2>4. Merged /\ UNCHANGED <<world, host, snap, status>>
    BY <1>0, <1>1 DEF Begin
  <2>5. jobs = {}
    BY <2>1, <2>4 DEF Merged, Resting, Outcomes, TypeOK, WorldTypeOK
  <2> QED
    BY <2>1, <2>2, <2>3, <2>4, <2>5
    DEF Merged, MergedAt, MergeCalls, Resting, Outcomes, TypeOK, ProcTypeOK, world, host
<1>2. ASSUME NEW p \in Procs, Step(p) PROVE Merged'
  BY <1>0, <1>2, MergedStep, Successors
<1>3. ASSUME NEW p \in Procs, Crash(p) PROVE FALSE
  BY <1>3 DEF Crash, Fault, TypeOK, BudgetTypeOK
<1>4. CASE HostStop
  BY <1>4 DEF HostStop, TypeOK, BudgetTypeOK
<1>5. CASE Iknite
  BY <1>0, <1>5 DEF Iknite, IkniteWritesKubeconfig, IkniteServiceUp, OrphanEnds, IkniteRuns,
                    Merged, MergedAt, MergeCalls, proc, host, budget, TypeOK, WorldTypeOK, SerialInv, Alone,
                    Resting, Outcomes
<1>6. CASE UNCHANGED vars
  BY <1>0, <1>6 DEF vars, Merged, MergedAt, MergeCalls, proc, world, host, budget
<1> QED
  BY <1>1, <1>2, <1>3, <1>4, <1>5, <1>6 DEF Next

(* On a machine where nothing has failed, a start that ends well leaves the    *)
(* kube context of the distribution there is (start.go:74-96).                 *)
THEOREM StartGivesContextHolds == Serial => (Spec => StartGivesContext)
<1> SUFFICES ASSUME Serial PROVE Spec => StartGivesContext
  OBVIOUS
<1>1. TypeOK /\ SerialInv /\ MergedInv /\ [Next]_vars => [StartEndsWithContext]_vars
  <2> SUFFICES ASSUME TypeOK, SerialInv, MergedInv, Next,
                      NEW p \in Procs, cmd[p] = "start", pc'[p] = "ok", faults' = 0
               PROVE  ctx' = "current"
    BY DEF StartEndsWithContext
  <2> USE DEF Resting, Outcomes, Goto, Exit, Move, Fails
  <2>0. ProcTypeOK /\ pc[p] \in StatusCalls \cup StartCalls
    BY DEF TypeOK, ProcTypeOK, AtCall, Calls
  <2>1. ASSUME NEW q \in Procs, Step(q) PROVE ctx' = "current"
    <3>1. q = p /\ faults = 0 /\ Merged
      BY <2>0, <2>1, Successors DEF MergedInv
    <3>2. CASE GetClusterStatus(p)
      BY <2>0, <3>2 DEF GetClusterStatus, IsRegistered, List, FileExists, Decide, AfterStatus,
                        StartAfter, ProcTypeOK
    <3>3. CASE Wait(p)
      BY <3>1, <3>3 DEF Wait, Merged, MergedAt, host
    <3>4. CASE Start(p) /\ ~Wait(p)
      BY <2>0, <3>4 DEF Start, StatRootFS, EnsureRootFS, EnsureWSLDirectory,
           RegisterDistribution, Configure, Launch, LaunchDone, MergeLoad, MergeWrite, ProcTypeOK
    <3>5. CASE StopCluster(p) \/ RemoveAll(p)
      BY <2>0, <3>5 DEF StopCluster, StopList, RcStop, Terminate, RemoveAll, Uninstall,
                        Unregister, RemoveLoad, RemoveWrite, RemoveDir
    <3> QED
      BY <2>1, <3>1, <3>2, <3>3, <3>4, <3>5 DEF Step
  <2>2. ASSUME NEW q \in Procs, Begin(q) \/ Crash(q) PROVE FALSE
    <3>1. PICK l : pc' = [pc EXCEPT ![q] = l] /\ l # "ok"
      BY <2>2 DEF Begin, FirstCall, Crash
    <3> QED
      BY <2>0, <3>1 DEF ProcTypeOK
  <2>3. CASE HostStop \/ Iknite
    BY <2>0, <2>3 DEF HostStop, Iknite, IkniteWritesKubeconfig, IkniteServiceUp, OrphanEnds, proc
  <2> QED
    BY <2>1, <2>2, <2>3 DEF Next
<1>2. Init => MergedInv
  BY DEF Init, MergedInv, Merged, MergedAt, MergeCalls
<1>3. Spec => []MergedInv
  BY <1>2, MergedInductive, TypeCorrect, SerialCorrect, PTL DEF Spec
<1> QED
  BY <1>1, <1>3, TypeCorrect, SerialCorrect, PTL DEF Spec, StartGivesContext

-----------------------------------------------------------------------------
(***************************************************************************)
(* What a lone command knows of the world at each of its calls: the status   *)
(* it read is still so, a start has made what its next call needs, and a     *)
(* disk belongs to a registration. Three things it knows only as long as it  *)
(* met no failure: that the distribution runs and iknite in it (Windows may  *)
(* stop both), and that the archive is there (EnsureRootFS hides failures).  *)
(***************************************************************************)
CourseAt(p) ==
    /\ pc[p] = "list" => registered /\ status[p] = "Installed"
    /\ pc[p] = "fileExists" => registered /\ status[p] = "Installed"
    /\ pc[p] = "decide" => IF registered THEN status[p] \in {"Installed", "Started"}
                                         ELSE status[p] = "Uninstalled"
    /\ pc[p] = "fileExists" /\ p \notin hurt => running
    /\ pc[p] = "decide" /\ status[p] = "Started" /\ p \notin hurt => running
    /\ pc[p] = "wait" /\ cmd[p] = "status" /\ p \notin hurt => running
    /\ pc[p] \in {"rootfs", "mkdir", "import"} => ~registered
    /\ pc[p] \in {"mkdir", "import"} /\ p \notin hurt => tar
    /\ pc[p] \in {"launch", "launched", "mergeLoad"} => registered
    /\ pc[p] = "configure" /\ cmd[p] = "start" => registered
    /\ pc[p] = "launched" /\ p \notin hurt => p \in jobs

OwnDisk == wslDir = "disk" => registered

OnCourse == Serial => OwnDisk /\ \A p \in Procs : CourseAt(p)

LEMMA CourseStep ==
    ASSUME TypeOK, NEW p \in Procs, OwnDisk, CourseAt(p), Step(p)
    PROVE  OwnDisk' /\ CourseAt(p)'
<1> USE DEF OwnDisk, CourseAt, Resting, Outcomes, Goto, Exit, Move, Fails, Fault, Boot, Halt,
            world, host, budget
<1>1. ProcTypeOK /\ jobs \subseteq Procs /\ hurt \subseteq Procs
  BY DEF TypeOK, BudgetTypeOK, WorldTypeOK
<1>2. CASE IsRegistered(p)
  BY <1>1, <1>2, Caller DEF ProcTypeOK, IsRegistered
<1>3. CASE List(p)
  BY <1>1, <1>3, Caller DEF ProcTypeOK, List
<1>4. CASE FileExists(p)
  BY <1>1, <1>4, Caller DEF ProcTypeOK, FileExists
<1>5. CASE Decide(p)
  BY <1>1, <1>5, Caller DEF ProcTypeOK, Decide, AfterStatus, StartAfter, StopAfter, StatusAfter,
                            ConfigureAfter
<1>6. CASE StatRootFS(p)
  BY <1>1, <1>6, Caller DEF ProcTypeOK, StatRootFS
<1>7. CASE EnsureRootFS(p)
  BY <1>1, <1>7, Caller DEF ProcTypeOK, EnsureRootFS
<1>8. CASE EnsureWSLDirectory(p)
  BY <1>1, <1>8, Caller DEF ProcTypeOK, EnsureWSLDirectory
<1>9. CASE RegisterDistribution(p)
  BY <1>1, <1>9, Caller DEF ProcTypeOK, RegisterDistribution
<1>10. CASE Configure(p)
  BY <1>1, <1>10, Caller DEF ProcTypeOK, Configure
<1>11. CASE Launch(p)
  BY <1>1, <1>11, Caller DEF ProcTypeOK, Launch
<1>12. CASE LaunchDone(p)
  BY <1>1, <1>12, Caller DEF ProcTypeOK, LaunchDone
<1>13. CASE MergeLoad(p)
  BY <1>1, <1>13, Caller DEF ProcTypeOK, MergeLoad
<1>14. CASE MergeWrite(p)
  BY <1>1, <1>14, Caller DEF ProcTypeOK, MergeWrite
<1>15. CASE Wait(p)
  BY <1>1, <1>15, Caller DEF ProcTypeOK, Wait
<1>16. CASE StopCluster(p)
  BY <1>1, <1>16, Caller DEF ProcTypeOK, StopCluster, StopList, RcStop, Terminate, AfterStop
<1>17. CASE Uninstall(p)
  BY <1>1, <1>17, Caller DEF ProcTypeOK, Uninstall
<1>18. CASE Unregister(p)
  BY <1>1, <1>18, Caller DEF ProcTypeOK, Unregister, Gone
<1>19. CASE RemoveLoad(p)
  BY <1>1, <1>19, Caller DEF ProcTypeOK, RemoveLoad
<1>20. CASE RemoveWrite(p)
  BY <1>1, <1>20, Caller DEF ProcTypeOK, RemoveWrite
<1>21. CASE RemoveDir(p)
  BY <1>1, <1>21, Caller DEF ProcTypeOK, RemoveDir
<1> QED
  BY <1>2, <1>3, <1>4, <1>5, <1>6, <1>7, <1>8, <1>9, <1>10, <1>11, <1>12, <1>13, <1>14,
     <1>15, <1>16, <1>17, <1>18, <1>19, <1>20, <1>21
  DEF Step, GetClusterStatus, Start, RemoveAll

LEMMA CourseInductive == TypeOK /\ SerialInv /\ OnCourse /\ [Next]_vars => OnCourse'
<1> SUFFICES ASSUME TypeOK, SerialInv, Serial, OwnDisk,
                    \A p \in Procs : CourseAt(p), [Next]_vars
             PROVE  OwnDisk' /\ \A p \in Procs : CourseAt(p)'
  BY DEF OnCourse
<1>1. ASSUME NEW p \in Procs, Begin(p) PROVE OwnDisk' /\ \A q \in Procs : CourseAt(q)'
  <2>1. PICK c \in Commands : pc' = [pc EXCEPT ![p] = FirstCall(c)]
    BY <1>1 DEF Begin
  <2>2. FirstCall(c) \in {"uninstall", "update", "isRegistered"}
    BY DEF FirstCall
  <2>3. pc'[p] \in {"uninstall", "update", "isRegistered"}
    BY <2>1, <2>2 DEF TypeOK, ProcTypeOK
  <2>4. \A q \in Procs \ {p} : pc'[q] \in Resting
    BY <1>1, <2>1 DEF Begin, Active, TypeOK, ProcTypeOK
  <2> QED
    BY <1>1, <2>3, <2>4 DEF Begin, OwnDisk, CourseAt, Resting, Outcomes, world
<1>2. ASSUME NEW p \in Procs, Step(p) PROVE OwnDisk' /\ \A q \in Procs : CourseAt(q)'
  <2>1. \A q \in Procs \ {p} : pc'[q] \in Resting
    BY <1>2, Successors, OthersRest DEF SerialInv
  <2>2. \A q \in Procs \ {p} : CourseAt(q)'
    BY <2>1 DEF CourseAt, Resting, Outcomes
  <2> QED
    BY <1>2, <2>2, CourseStep
<1>3. ASSUME NEW p \in Procs, Crash(p) PROVE OwnDisk' /\ \A q \in Procs : CourseAt(q)'
  <2>1. \A q \in Procs : pc'[q] \in Resting
    BY <1>3 DEF Crash, Exit, SerialInv, Alone, TypeOK, ProcTypeOK, Resting, Outcomes
  <2> QED
    BY <1>3, <2>1 DEF Crash, OwnDisk, CourseAt, Resting, Outcomes
<1>4. CASE HostStop
  <2>1. \A q \in Procs : pc[q] \notin Resting => q \in hurt'
    BY <1>4 DEF HostStop, Active
  <2> QED
    BY <1>4, <2>1 DEF HostStop, Halt, OwnDisk, CourseAt, Resting, Outcomes, proc, host
<1>5. CASE Iknite
  BY <1>5 DEF Iknite, IkniteWritesKubeconfig, IkniteServiceUp, OrphanEnds, OwnDisk, CourseAt,
              proc, host, budget
<1>6. CASE UNCHANGED vars
  BY <1>6 DEF vars, OwnDisk, CourseAt, proc, world, host, budget
<1> QED
  BY <1>1, <1>2, <1>3, <1>4, <1>5, <1>6 DEF Next

LEMMA CourseCorrect == Spec => []OnCourse
<1>1. Init => OnCourse
  BY DEF Init, OnCourse, OwnDisk, CourseAt
<1> QED
  BY <1>1, CourseInductive, TypeCorrect, SerialCorrect, PTL DEF Spec

(* Whatever earlier commands that failed or were killed left behind, a start   *)
(* that meets no failure of its own ends well, unless the archive is missing.  *)
THEOREM StartBlockedOnlyByRootFSHolds == Serial => (Spec => StartBlockedOnlyByRootFS)
<1> SUFFICES ASSUME Serial PROVE Spec => StartBlockedOnlyByRootFS
  OBVIOUS
<1>1. TypeOK /\ OnCourse /\ [Next]_vars => [StartGetsThrough]_vars
  <2> SUFFICES ASSUME TypeOK, OnCourse, Next,
                      NEW p \in Procs, cmd[p] = "start", pc'[p] = "fail", p \notin hurt'
               PROVE  ~tar
    BY DEF StartGetsThrough
  <2> USE DEF Resting, Outcomes, Goto, Exit, Move, Fails, Fault
  <2>0. /\ ProcTypeOK /\ pc[p] \in StatusCalls \cup StartCalls /\ hurt \subseteq Procs
        /\ OwnDisk /\ CourseAt(p)
    BY DEF TypeOK, ProcTypeOK, AtCall, Calls, BudgetTypeOK, OnCourse
  <2>1. ASSUME NEW q \in Procs, Step(q) PROVE ~tar
    <3>1. q = p
      BY <2>0, <2>1, Successors
    <3>2. CASE GetClusterStatus(p)
      BY <2>0, <3>2 DEF GetClusterStatus, IsRegistered, List, FileExists, Decide, AfterStatus,
                        StartAfter, ProcTypeOK, CourseAt, budget
    <3>3. CASE StatRootFS(p) \/ EnsureRootFS(p)
      BY <2>0, <3>3 DEF StatRootFS, EnsureRootFS, ProcTypeOK
    <3>4. CASE EnsureWSLDirectory(p) \/ RegisterDistribution(p)
      BY <2>0, <3>4 DEF EnsureWSLDirectory, RegisterDistribution, ProcTypeOK, CourseAt, OwnDisk,
                        budget
    <3>5. CASE Configure(p) \/ Launch(p) \/ LaunchDone(p)
      BY <2>0, <3>5 DEF Configure, Launch, LaunchDone, ProcTypeOK, CourseAt, budget
    <3>6. CASE MergeLoad(p) \/ MergeWrite(p) \/ Wait(p)
      BY <2>0, <3>6 DEF MergeLoad, MergeWrite, Wait, ProcTypeOK, CourseAt, budget
    <3>7. CASE StopCluster(p) \/ RemoveAll(p)
      BY <2>0, <3>7 DEF StopCluster, StopList, RcStop, Terminate, RemoveAll, Uninstall,
                        Unregister, RemoveLoad, RemoveWrite, RemoveDir
    <3> QED
      BY <2>1, <3>1, <3>2, <3>3, <3>4, <3>5, <3>6, <3>7 DEF Step, Start
  <2>2. ASSUME NEW q \in Procs, Begin(q) \/ Crash(q) PROVE ~tar
    <3>1. PICK l : pc' = [pc EXCEPT ![q] = l] /\ l # "fail"
      BY <2>2 DEF Begin, FirstCall, Crash
    <3> QED
      BY <2>0, <3>1 DEF ProcTypeOK
  <2>3. CASE HostStop \/ Iknite
    BY <2>0, <2>3 DEF HostStop, Iknite, IkniteWritesKubeconfig, IkniteServiceUp, OrphanEnds, proc
  <2> QED
    BY <2>1, <2>2, <2>3 DEF Next
<1> QED
  BY <1>1, TypeCorrect, CourseCorrect, PTL DEF Spec, StartBlockedOnlyByRootFS

(* Asking for the status of a distribution that is stopped does not start it:  *)
(* every call of status that looks into the distribution is made at one that   *)
(* was seen running.                                                           *)
THEOREM StatusNeverBootsHolds == Serial => (Spec => StatusNeverBoots)
<1> SUFFICES ASSUME Serial PROVE Spec => StatusNeverBoots
  OBVIOUS
<1>1. TypeOK /\ SerialInv /\ OnCourse /\ [Next]_vars => [StatusKeepsDown]_vars
  <2> SUFFICES ASSUME TypeOK, SerialInv, OnCourse, Next,
                      NEW p \in Procs, cmd[p] = "status", p \notin hurt', ~running
               PROVE  ~running'
    BY DEF StatusKeepsDown
  <2>0. /\ ProcTypeOK /\ pc[p] \in StatusCalls \cup {"wait"}
        /\ pc[p] \notin Resting /\ CourseAt(p) /\ hurt \subseteq Procs
    BY DEF TypeOK, ProcTypeOK, BudgetTypeOK, AtCall, Calls, OnCourse
  <2>1. ASSUME NEW q \in Procs, Step(q) PROVE ~running'
    <3>1. q = p
      BY <2>0, <2>1, Successors DEF SerialInv, Alone
    <3>2. CASE GetClusterStatus(p)
      BY <2>0, <3>2 DEF GetClusterStatus, IsRegistered, List, FileExists, Decide, CourseAt,
                        world, budget
    <3>3. CASE Start(p)
      BY <2>0, <3>3 DEF Start, StatRootFS, EnsureRootFS, EnsureWSLDirectory,
           RegisterDistribution, Configure, Launch, LaunchDone, MergeLoad, MergeWrite, Wait,
           CourseAt, budget
    <3>4. CASE StopCluster(p) \/ RemoveAll(p)
      BY <2>0, <3>4 DEF StopCluster, StopList, RcStop, Terminate, RemoveAll, Uninstall,
                        Unregister, RemoveLoad, RemoveWrite, RemoveDir
    <3> QED
      BY <2>1, <3>1, <3>2, <3>3, <3>4 DEF Step
  <2>2. ASSUME NEW q \in Procs, Begin(q) \/ Crash(q) PROVE ~running'
    BY <2>2 DEF Begin, Crash, world
  <2>3. CASE HostStop \/ Iknite
    BY <2>3 DEF HostStop, Halt, Iknite, IkniteWritesKubeconfig, IkniteServiceUp, OrphanEnds
  <2> QED
    BY <2>1, <2>2, <2>3 DEF Next
<1> QED
  BY <1>1, TypeCorrect, SerialCorrect, CourseCorrect, PTL DEF Spec, StatusNeverBoots


-----------------------------------------------------------------------------
(***************************************************************************)
(* The commands use the user's kubeconfig as ContextContract has it, and      *)
(* KubeConfigProofs shows what in pkg/k8s/k8s.go keeps it. An uninstall is at *)
(* its removal from the unregister on, as it has nothing else to do then.     *)
(***************************************************************************)
Rewrite == [p \in Procs |->
              CASE pc[p] \in {"mergeLoad", "mergeWrite", "removeWrite"} -> pc[p]
                [] pc[p] \in {"unregister", "removeLoad"}               -> "removeLoad"
                [] pc[p] \in {"wait", "removeDir"}                      -> "ok"
                [] OTHER                                                -> "idle"]

Writing(p) == pc[p] \in {"mergeWrite", "removeWrite"}
Settled    == [p \in Procs |-> IF Writing(p) THEN snap[p] ELSE "none"]

Contract == INSTANCE ContextContract
              WITH there <- kubeconf, does <- Rewrite, snap <- Settled

ContextKept == Contract!Spec

(* A context is of the distribution's kubeconfig only while there is one. *)
Rooted == ctx = "current" \/ (\E p \in Procs : snap[p] = "current") => kubeconf

AtFile(p) == pc[p] \in {"mergeLoad", "mergeWrite", "unregister", "removeLoad", "removeWrite"}

(* The calls that leave the file and the registration alone. *)
LEMMA ElsewhereStep ==
    ASSUME TypeOK, NEW p \in Procs, Step(p), ~AtFile(p)
    PROVE  /\ UNCHANGED <<kubeconf, ctx>>
           /\ pc' = [pc EXCEPT ![p] = pc'[p]]
           /\ pc'[p] \notin {"removeLoad", "mergeWrite", "removeWrite"}
           /\ snap' = snap \/ snap' = [snap EXCEPT ![p] = "none"]
<1> USE DEF AtFile, Resting, Outcomes, Goto, Exit, Move, Boot, Halt, world, host, TypeOK, ProcTypeOK
<1>1. CASE GetClusterStatus(p)
  BY <1>1, Caller
  DEF GetClusterStatus, IsRegistered, List, FileExists, Decide, AfterStatus,
      StartAfter, StopAfter, StatusAfter, ConfigureAfter
<1>2. CASE Start(p)
  BY <1>2, Caller
  DEF Start, StatRootFS, EnsureRootFS, EnsureWSLDirectory, RegisterDistribution, Configure,
      Launch, LaunchDone, MergeLoad, MergeWrite, Wait
<1>3. CASE StopCluster(p)
  BY <1>3 DEF StopCluster, StopList, RcStop, Terminate, AfterStop
<1>4. CASE RemoveAll(p)
  BY <1>4 DEF RemoveAll, Uninstall, Unregister, RemoveLoad, RemoveWrite, RemoveDir
<1> QED
  BY <1>1, <1>2, <1>3, <1>4 DEF Step

LEMMA AtFileStep ==
    ASSUME NEW p \in Procs, Step(p), AtFile(p)
    PROVE  MergeLoad(p) \/ MergeWrite(p) \/ Unregister(p) \/ RemoveLoad(p) \/ RemoveWrite(p)
BY DEF AtFile, Step, GetClusterStatus, IsRegistered, List, FileExists, Decide,
       Start, StatRootFS, EnsureRootFS, EnsureWSLDirectory, RegisterDistribution, Configure,
       Launch, LaunchDone, Wait, StopCluster, StopList, RcStop, Terminate,
       RemoveAll, Uninstall, RemoveDir

(* What happens to the distribution, and inside it. *)
LEMMA WorldStep ==
    ASSUME HostStop \/ Iknite \/ UNCHANGED vars
    PROVE  UNCHANGED <<pc, snap, ctx>> /\ (kubeconf => kubeconf')
BY DEF HostStop, Halt, Iknite, IkniteWritesKubeconfig, IkniteServiceUp, OrphanEnds,
       vars, proc, world, host

LEMMA RootedInductive == TypeOK /\ Rooted /\ [Next]_vars => Rooted'
<1> SUFFICES ASSUME TypeOK, Rooted, [Next]_vars PROVE Rooted'
  OBVIOUS
<1> USE DEF TypeOK, ProcTypeOK, Rooted
<1>1. ASSUME NEW p \in Procs, Step(p), ~AtFile(p) PROVE Rooted'
  BY <1>1, ElsewhereStep
<1>2. ASSUME NEW p \in Procs, MergeLoad(p) \/ MergeWrite(p) \/ RemoveLoad(p) \/ RemoveWrite(p)
      PROVE  Rooted'
  BY <1>2 DEF MergeLoad, MergeWrite, RemoveLoad, RemoveWrite, Goto, Exit, Boot, world, host
<1>3. ASSUME NEW p \in Procs, Unregister(p) PROVE Rooted'
  BY <1>3 DEF Unregister, Gone, Aged, Exit, world, host
<1>4. ASSUME NEW p \in Procs, Begin(p) \/ Crash(p) PROVE Rooted'
  BY <1>4 DEF Begin, Crash, Exit, world, host
<1>5. CASE HostStop \/ Iknite \/ UNCHANGED vars
  BY <1>5, WorldStep
<1> QED
  BY <1>1, <1>2, <1>3, <1>4, <1>5, AtFileStep DEF Next

LEMMA RootedCorrect == Spec => []Rooted
<1>1. Init => Rooted
  BY DEF Init, Rooted
<1> QED
  BY <1>1, RootedInductive, TypeCorrect, PTL DEF Spec

(* A process moves on, in a call of the contract or beside it. *)
LEMMA RewriteStep ==
    ASSUME TypeOK, NEW p \in Procs, NEW l, pc' = [pc EXCEPT ![p] = l]
    PROVE  /\ Rewrite' = [Rewrite EXCEPT ![p] = Rewrite'[p]]
           /\ l \in {"mergeLoad", "mergeWrite", "removeWrite"} => Rewrite'[p] = l
           /\ l \in {"unregister", "removeLoad"} => Rewrite'[p] = "removeLoad"
           /\ l \in {"wait", "removeDir"} => Rewrite'[p] = "ok"
           /\ l \notin {"mergeLoad", "mergeWrite", "removeWrite", "unregister", "removeLoad",
                        "wait", "removeDir"} => Rewrite'[p] = "idle"
BY DEF TypeOK, ProcTypeOK, Rewrite

LEMMA SettledStep ==
    ASSUME TypeOK, NEW p \in Procs, NEW l, pc' = [pc EXCEPT ![p] = l], NEW c,
           snap' = [snap EXCEPT ![p] = c]
    PROVE  Settled' = [Settled EXCEPT ![p] = IF l \in {"mergeWrite", "removeWrite"} THEN c ELSE "none"]
BY DEF TypeOK, ProcTypeOK, Settled, Writing





(* A call of another function, or a process that ends: it is no step of the    *)
(* contract, begins one, or gives one up.                                      *)
LEMMA ElsewhereMaps ==
    ASSUME TypeOK, NEW p \in Procs, Step(p), ~AtFile(p)
    PROVE  Contract!Rest(p) \/ Contract!Begin(p)
<1> DEFINE l == pc'[p]
<1>1. /\ UNCHANGED <<kubeconf, ctx>> /\ pc' = [pc EXCEPT ![p] = l]
      /\ l \notin {"removeLoad", "mergeWrite", "removeWrite"}
      /\ snap' = snap \/ snap' = [snap EXCEPT ![p] = "none"]
  BY ElsewhereStep
<1> HIDE DEF l
<1>2. Settled' = Settled
  BY <1>1 DEF Settled, Writing, AtFile, TypeOK, ProcTypeOK
<1>3. Rewrite[p] \in {"idle", "ok"}
  BY DEF Rewrite, AtFile
<1>4. /\ Rewrite' = [Rewrite EXCEPT ![p] = Rewrite'[p]]
      /\ Rewrite'[p] \in {"idle", "ok", "mergeLoad", "removeLoad"}
  BY <1>1, RewriteStep
<1> QED
  BY <1>1, <1>2, <1>3, <1>4 DEF Contract!Rest, Contract!Begin, Contract!Goto

(* A call that fails, or is killed, at the file. *)
LEMMA StopMaps ==
    ASSUME TypeOK, NEW p \in Procs, AtFile(p), NEW o \in Resting, Exit(p, o), UNCHANGED kubeconf,
           ctx' \in IF pc[p] \in {"mergeWrite", "removeWrite"} THEN {ctx, "none"} ELSE {ctx}
    PROVE  Contract!Stop(p)
<1>1. pc' = [pc EXCEPT ![p] = o] /\ snap' = [snap EXCEPT ![p] = "none"]
  BY DEF Exit
<1>2. Rewrite' = [Rewrite EXCEPT ![p] = "idle"]
  BY <1>1, RewriteStep DEF Resting, Outcomes
<1>3. Settled' = [Settled EXCEPT ![p] = "none"]
  BY <1>1, SettledStep
<1>4. /\ Rewrite[p] \notin {"idle", "ok"}
      /\ pc[p] \in {"mergeWrite", "removeWrite"} => Contract!Writing(p)
  BY DEF Rewrite, AtFile, Contract!Writing
<1> QED
  BY <1>2, <1>3, <1>4 DEF Contract!Stop, Contract!Goto

LEMMA LoadMaps ==
    ASSUME TypeOK, NEW p \in Procs, MergeLoad(p) \/ RemoveLoad(p)
    PROVE  Contract!MergeLoad(p) \/ Contract!RemoveLoad(p) \/ Contract!Stop(p)
<1> DEFINE c == IF pc[p] = "mergeLoad" THEN IF kubeconf THEN "current" ELSE ctx ELSE "none"
           l == IF pc[p] = "mergeLoad" THEN "mergeWrite" ELSE "removeWrite"
<1>1. /\ pc[p] \in {"mergeLoad", "removeLoad"} /\ UNCHANGED <<kubeconf, ctx>>
      /\ \/ Exit(p, "fail")
         \/ pc' = [pc EXCEPT ![p] = l] /\ snap' = [snap EXCEPT ![p] = c]
  BY DEF MergeLoad, RemoveLoad, Boot, world, host
<1>2. CASE Exit(p, "fail")
  BY <1>1, <1>2, StopMaps DEF AtFile, Resting, Outcomes
<1>3. CASE pc' = [pc EXCEPT ![p] = l] /\ snap' = [snap EXCEPT ![p] = c]
  <2>1. Rewrite[p] = pc[p]
    BY <1>1 DEF Rewrite
  <2>2. Rewrite' = [Rewrite EXCEPT ![p] = l]
    BY <1>3, RewriteStep
  <2>3. Settled' = [Settled EXCEPT ![p] = c]
    BY <1>1, <1>3, SettledStep
  <2> QED
    BY <1>1, <2>1, <2>2, <2>3 DEF Contract!MergeLoad, Contract!RemoveLoad, Contract!Goto
<1> QED
  BY <1>1, <1>2, <1>3

LEMMA WriteMaps ==
    ASSUME TypeOK, NEW p \in Procs, MergeWrite(p) \/ RemoveWrite(p)
    PROVE  Contract!Write(p) \/ Contract!Stop(p)
<1> DEFINE l == IF pc[p] = "mergeWrite" THEN "wait" ELSE "removeDir"
<1>1. /\ pc[p] \in {"mergeWrite", "removeWrite"} /\ UNCHANGED kubeconf
      /\ \/ Exit(p, "fail") /\ ctx' \in {ctx, "none"}
         \/ pc' = [pc EXCEPT ![p] = l] /\ snap' = snap /\ ctx' = snap[p]
  BY DEF MergeWrite, RemoveWrite, Goto, world
<1>2. CASE Exit(p, "fail") /\ ctx' \in {ctx, "none"}
  BY <1>1, <1>2, StopMaps DEF AtFile, Resting, Outcomes
<1>3. CASE pc' = [pc EXCEPT ![p] = l] /\ snap' = snap /\ ctx' = snap[p]
  <2>1. Contract!Writing(p) /\ Rewrite' = [Rewrite EXCEPT ![p] = "ok"]
    BY <1>1, <1>3, RewriteStep DEF Rewrite, Contract!Writing
  <2>2. ctx' = Settled[p] /\ Settled' = [Settled EXCEPT ![p] = "none"]
    BY <1>1, <1>3 DEF Settled, Writing, TypeOK, ProcTypeOK
  <2> QED
    BY <1>1, <2>1, <2>2 DEF Contract!Write, Contract!Goto
<1> QED
  BY <1>1, <1>2, <1>3

(* The unregister takes the kubeconfig of the distribution with it, if there   *)
(* was one yet: then no context is of it.                                      *)
LEMMA UnregisterMaps ==
    ASSUME TypeOK, Rooted, NEW p \in Procs, Unregister(p)
    PROVE  Contract!Uninstall \/ Contract!Stop(p) \/ UNCHANGED <<kubeconf, ctx, Rewrite, Settled>>
<1>1. CASE Exit(p, "fail") /\ UNCHANGED <<world, host>>
  BY <1>1, StopMaps DEF Unregister, AtFile, Resting, Outcomes, world, host
<1>2. CASE Gone /\ pc' = [pc EXCEPT ![p] = "removeLoad"]
  <2>1. Rewrite' = Rewrite
    BY <1>2 DEF Rewrite, Unregister, TypeOK, ProcTypeOK
  <2>2. Settled' = [q \in Procs |-> Contract!Aged(Settled[q])]
    BY <1>2 DEF Gone, Aged, Contract!Aged, Settled, Writing, Unregister, TypeOK, ProcTypeOK
  <2>3. ctx' = Contract!Aged(ctx) /\ kubeconf' = FALSE
    BY <1>2 DEF Gone, Aged, Contract!Aged
  <2>4. ~kubeconf => UNCHANGED <<kubeconf, ctx, Settled>>
    <3> SUFFICES ASSUME ~kubeconf PROVE UNCHANGED <<kubeconf, ctx, Settled>>
      OBVIOUS
    <3>1. ctx # "current" /\ \A q \in Procs : Settled[q] # "current"
      BY DEF Rooted, Settled
    <3>2. Settled' = Settled
      BY <2>2, <3>1 DEF Settled, Contract!Aged
    <3> QED
      BY <2>3, <3>1, <3>2 DEF Contract!Aged, TypeOK, WorldTypeOK
  <2> QED
    BY <2>1, <2>2, <2>3, <2>4 DEF Contract!Uninstall
<1> QED
  BY <1>1, <1>2 DEF Unregister

LEMMA BeginMaps == ASSUME TypeOK, NEW p \in Procs, Begin(p) PROVE Contract!Rest(p)
<1>1. PICK c \in Commands : pc' = [pc EXCEPT ![p] = FirstCall(c)]
  BY DEF Begin
<1>2. /\ pc[p] \in Resting /\ FirstCall(c) \in {"uninstall", "update", "isRegistered"}
      /\ UNCHANGED <<kubeconf, ctx, snap>>
  BY DEF Begin, FirstCall, world, host
<1>3. Rewrite[p] = "idle" /\ Rewrite' = [Rewrite EXCEPT ![p] = "idle"]
  BY <1>1, <1>2, RewriteStep DEF Rewrite, Resting, Outcomes
<1>4. Settled' = Settled
  BY <1>1, <1>2 DEF Settled, Writing, Resting, Outcomes, TypeOK, ProcTypeOK
<1> QED
  BY <1>2, <1>3, <1>4 DEF Contract!Rest, Contract!Goto

LEMMA CrashMaps ==
    ASSUME TypeOK, NEW p \in Procs, Crash(p) PROVE Contract!Stop(p) \/ Contract!Rest(p)
<1>1. /\ Exit(p, "crashed") /\ UNCHANGED kubeconf
      /\ ctx' \in IF pc[p] \in {"mergeWrite", "removeWrite"} THEN {ctx, "none"} ELSE {ctx}
  BY DEF Crash
<1>2. CASE AtFile(p)
  BY <1>1, <1>2, StopMaps DEF Resting, Outcomes
<1>3. CASE ~AtFile(p)
  <2>1. Rewrite[p] \in {"idle", "ok"}
    BY <1>3 DEF Rewrite, AtFile
  <2>2. Rewrite' = [Rewrite EXCEPT ![p] = "idle"]
    <3>1. pc' = [pc EXCEPT ![p] = "crashed"]
      BY <1>1 DEF Exit
    <3> QED
      BY <3>1 DEF Rewrite, TypeOK, ProcTypeOK
  <2>3. Settled' = Settled
    BY <1>1, <1>3 DEF Settled, Writing, AtFile, Exit, TypeOK, ProcTypeOK
  <2> QED
    BY <1>1, <1>3, <2>1, <2>2, <2>3 DEF Contract!Rest, Contract!Goto, AtFile
<1> QED
  BY <1>2, <1>3

LEMMA WorldMaps ==
    ASSUME TypeOK, HostStop \/ Iknite \/ UNCHANGED vars
    PROVE  Contract!Install \/ UNCHANGED <<kubeconf, ctx, Rewrite, Settled>>
<1>1. UNCHANGED <<pc, snap, ctx>> /\ (kubeconf => kubeconf')
  BY WorldStep
<1>2. Rewrite' = Rewrite /\ Settled' = Settled
  BY <1>1 DEF Rewrite, Settled, Writing
<1>3. kubeconf' \in BOOLEAN
  BY DEF HostStop, Halt, Iknite, IkniteWritesKubeconfig, IkniteServiceUp, OrphanEnds,
         vars, world, TypeOK, WorldTypeOK
<1> QED
  BY <1>1, <1>2, <1>3 DEF Contract!Install, TypeOK, WorldTypeOK

(* Any number of commands, whatever fails, use the user's kubeconfig by loads   *)
(* that settle what is written and by writes, and the context in it leads to    *)
(* the distribution only while that has a kubeconfig (start.go:98-107,          *)
(* uninstall.go:43-58).                                                         *)
THEOREM ContextKeptHolds == Spec => ContextKept
<1>1. Init => Contract!Init
  BY DEF Init, Contract!Init, Rewrite, Settled, Writing
<1>2. TypeOK /\ Rooted /\ [Next]_vars => [Contract!Next]_(Contract!vars)
  <2> SUFFICES ASSUME TypeOK, Rooted, [Next]_vars PROVE [Contract!Next]_(Contract!vars)
    OBVIOUS
  <2>1. ASSUME NEW p \in Procs, Step(p) PROVE [Contract!Next]_(Contract!vars)
    BY <2>1, AtFileStep, ElsewhereMaps, LoadMaps, WriteMaps, UnregisterMaps
    DEF Contract!Next, Contract!vars
  <2>2. ASSUME NEW p \in Procs, Begin(p) \/ Crash(p) PROVE [Contract!Next]_(Contract!vars)
    BY <2>2, BeginMaps, CrashMaps DEF Contract!Next
  <2>3. CASE HostStop \/ Iknite \/ UNCHANGED vars
    BY <2>3, WorldMaps DEF Contract!Next, Contract!vars
  <2> QED
    BY <2>1, <2>2, <2>3 DEF Next
<1> QED
  BY <1>1, <1>2, TypeCorrect, RootedCorrect, PTL DEF Spec, ContextKept, Contract!Spec

=============================================================================
