------------------------------ MODULE Lifecycle ------------------------------
(***************************************************************************)
(* The life of one kaweezle distribution: the commands start (and install,  *)
(* which runs the same function), stop, status, uninstall, configure and    *)
(* update, each an operating system process of its own, over the state they *)
(* share: the WSL registration, the distribution's disk and its running     *)
(* virtual machine, the iknite service inside it, the user's kubeconfig     *)
(* file and the root file system archive.                                   *)
(*                                                                          *)
(* There is no lock between two kaweezle processes, so every call that      *)
(* leaves the process is one step and steps of several processes interleave.*)
(* WSL and iknite are modelled from how the code uses them.                 *)
(***************************************************************************)
EXTENDS Naturals

CONSTANTS
    Procs,       \* kaweezle processes that may be in flight together
    Commands,    \* the commands the users give
    RootFlags,   \* values of --root: "default" (an existing path) or "empty"
    Serial,      \* TRUE: the next command is given once the last has ended
    MaxFaults,   \* bound on the failures, crashes and host stops of a run
    ListFaults,  \* TRUE: `wsl --list --verbose` may fail
    HostStops,   \* TRUE: Windows may shut the distribution down
    TarAtHand    \* TRUE: the root file system archive is there at first

AllCommands == {"start", "stop", "status", "uninstall", "configure", "update"}

ASSUME LifecycleAssumption ==
    /\ Commands \subseteq AllCommands
    /\ RootFlags \subseteq {"default", "empty"}
    /\ MaxFaults \in Nat
    /\ Serial \in BOOLEAN /\ ListFaults \in BOOLEAN
    /\ HostStops \in BOOLEAN /\ TarAtHand \in BOOLEAN

VARIABLES
    (* One kaweezle process. *)
    pc,          \* the call it makes next, or how it ended
    cmd,         \* the command it runs
    status,      \* GetClusterStatus' result
    snap,        \* what the kubeconfig it is about to write says of the context
    (* WSL and the distribution. *)
    registered,  \* the distribution is registered
    running,     \* its virtual machine is up
    iknite,      \* /run/openrc/started/iknite exists
    kubeconf,    \* /root/.kube/config exists in the distribution
    wslDir,      \* the installation directory: absent, empty, or with a disk
    jobs,        \* processes whose `iknite start` is running
    orphan,      \* an `iknite start` survives the process that launched it
    (* The user's files. *)
    tar,         \* the root file system archive is on disk
    ctx,         \* the kaweezle context of ~/.kube/config
    (* Bounds and bookkeeping. *)
    faults,      \* failures so far
    hurt         \* processes whose current command met a failure

proc   == <<pc, cmd, status, snap>>
world  == <<registered, running, iknite, kubeconf, wslDir, jobs, orphan>>
host   == <<tar, ctx>>
budget == <<faults, hurt>>
vars   == <<proc, world, host, budget>>

Outcomes == {"ok", "fail", "crashed"}
Resting  == {"idle"} \cup Outcomes
Active   == {p \in Procs : pc[p] \notin Resting}
Statuses == {"Uninstalled", "Installed", "Started"}
Contexts == {"none", "stale", "current"}

(* The calls of each command, in the names of the functions that make them. *)
StatusCalls    == {"isRegistered", "list", "fileExists", "decide"}
StopCalls      == {"stopList", "rcStop", "terminate"}
StartCalls     == {"rootfs", "mkdir", "import", "configure", "launch", "launched",
                   "mergeLoad", "mergeWrite", "wait"}
UninstallCalls == {"uninstall", "unregister", "removeLoad", "removeWrite", "removeDir"}
AllCalls == StatusCalls \cup StopCalls \cup StartCalls \cup UninstallCalls \cup {"update"}

Calls(c) ==
    CASE c = "start"     -> StatusCalls \cup StartCalls
      [] c = "stop"      -> StatusCalls \cup StopCalls
      [] c = "status"    -> StatusCalls \cup {"wait"}
      [] c = "configure" -> StatusCalls \cup {"configure"}
      [] c = "uninstall" -> StopCalls \cup UninstallCalls
      [] c = "update"    -> {"update"}
      [] OTHER           -> {}

(* The Run function of each command; install has that of start. *)
FirstCall(c) == CASE c = "uninstall" -> "uninstall"
                  [] c = "update"    -> "update"
                  [] OTHER           -> "isRegistered"

(* What each command does with the status it was given. *)
StartInstalledFails(s) == IF s = "Started" THEN "wait"
                          ELSE IF s = "Uninstalled" THEN "rootfs" ELSE "fail"

StartAfter(s)     == IF s = "Started" THEN "wait"
                     ELSE IF s = "Uninstalled" THEN "rootfs" ELSE "configure"
StopAfter(s)      == IF s = "Started" THEN "stopList" ELSE "fail"
StatusAfter(s)    == IF s = "Started" THEN "wait" ELSE "ok"
ConfigureAfter(s) == IF s = "Uninstalled" THEN "fail" ELSE "configure"

AfterStatus(c, s) == CASE c = "start"     -> StartAfter(s)
                       [] c = "stop"      -> StopAfter(s)
                       [] c = "status"    -> StatusAfter(s)
                       [] c = "configure" -> ConfigureAfter(s)

(* StopCluster is the whole of stop, and a step of uninstall. *)
AfterStopUnregisters(c) == "unregister"
AfterStop(c) == IF c = "stop" THEN "ok" ELSE "unregister"

-----------------------------------------------------------------------------
Init ==
    /\ pc = [p \in Procs |-> "idle"]
    /\ cmd = [p \in Procs |-> "none"]
    /\ status = [p \in Procs |-> "none"]
    /\ snap = [p \in Procs |-> "none"]
    /\ registered = FALSE /\ running = FALSE /\ iknite = FALSE /\ kubeconf = FALSE
    /\ wslDir = "absent" /\ jobs = {} /\ orphan = FALSE
    /\ tar = TarAtHand /\ ctx = "none"
    /\ faults = 0 /\ hurt = {}

Goto(p, l) == /\ pc' = [pc EXCEPT ![p] = l]
              /\ UNCHANGED <<cmd, status, snap>>

Exit(p, o) == /\ pc' = [pc EXCEPT ![p] = o]
              /\ cmd' = [cmd EXCEPT ![p] = "none"]
              /\ status' = [status EXCEPT ![p] = "none"]
              /\ snap' = [snap EXCEPT ![p] = "none"]

Move(p, l) == IF l \in Resting THEN Exit(p, l) ELSE Goto(p, l)

Fault(p) == /\ faults < MaxFaults
            /\ faults' = faults + 1
            /\ hurt' = hurt \cup {p}

(* The call fails: by a fault, or because of the state it finds. *)
Fails(p, because) == \/ because /\ UNCHANGED budget
                     \/ Fault(p)

(* Any `wsl -d`, WslLaunch or \\wsl$ access starts a stopped distribution. *)
Boot == /\ running' = TRUE
        /\ UNCHANGED <<registered, iknite, kubeconf, wslDir, jobs, orphan>>

(* The virtual machine goes down, and with it /run and every process in it. *)
Halt == /\ running' = FALSE /\ iknite' = FALSE /\ jobs' = {} /\ orphan' = FALSE
        /\ UNCHANGED <<registered, kubeconf, wslDir>>

Begin(p) ==
    /\ pc[p] \in Resting
    /\ Serial => Active = {}
    /\ \E c \in Commands : /\ cmd' = [cmd EXCEPT ![p] = c]
                           /\ pc' = [pc EXCEPT ![p] = FirstCall(c)]
    /\ hurt' = hurt \ {p}
    /\ UNCHANGED <<status, snap, world, host, faults>>

-----------------------------------------------------------------------------
(* GetClusterStatus: three reads of the world, one after the other. *)
IsRegistered(p) ==
    /\ pc[p] = "isRegistered"
    /\ status' = [status EXCEPT ![p] = IF registered THEN "Installed" ELSE "Uninstalled"]
    /\ pc' = [pc EXCEPT ![p] = IF registered THEN "list" ELSE "decide"]
    /\ UNCHANGED <<cmd, snap, world, host, budget>>

(* GetDistributions swallows the failure of `wsl --list` (its err is shadowed) *)
(* and GetDistribution then answers the zero value, whose state is not Running.*)
ListUnguarded(p) ==
    /\ pc[p] = "list"
    /\ Goto(p, "fileExists")
    /\ UNCHANGED <<world, host, budget>>

ListAssumesStarted(p) ==
    /\ pc[p] = "list"
    /\ pc' = [pc EXCEPT ![p] = "decide"]
    /\ status' = [status EXCEPT ![p] = IF running THEN "Started" ELSE "Installed"]
    /\ UNCHANGED <<cmd, snap, world, host, budget>>

List(p) ==
    /\ pc[p] = "list"
    /\ \/ /\ Goto(p, IF registered /\ running THEN "fileExists" ELSE "decide")
          /\ UNCHANGED budget
       \/ /\ ListFaults /\ Fault(p)
          /\ Goto(p, "decide")
    /\ UNCHANGED <<world, host>>

FileExists(p) ==
    /\ pc[p] = "fileExists"
    /\ UNCHANGED host
    /\ \/ /\ registered
          /\ Boot
          /\ status' = [status EXCEPT ![p] = IF iknite THEN "Started" ELSE @]
          /\ pc' = [pc EXCEPT ![p] = "decide"]
          /\ UNCHANGED <<cmd, snap, budget>>
       \/ /\ Fails(p, ~registered)
          /\ Exit(p, "fail")
          /\ UNCHANGED world

Decide(p) ==
    /\ pc[p] = "decide"
    /\ Move(p, AfterStatus(cmd[p], status[p]))
    /\ UNCHANGED <<world, host, budget>>

-----------------------------------------------------------------------------
(* start and install *)

(* --root names a path (its default is one): the archive has to be there. *)
StatRootFS(p) ==
    /\ pc[p] = "rootfs" /\ "default" \in RootFlags
    /\ Move(p, IF tar THEN "mkdir" ELSE "fail")
    /\ UNCHANGED <<world, host, budget>>

(* --root is empty, or the command is update: download unless up to date.    *)
(* EnsureRootFS ignores the failures of Remove and Rename, so a fault may    *)
(* leave no archive and still report success (module RootFs has the detail). *)
EnsureRootFS(p) ==
    /\ \/ pc[p] = "rootfs" /\ "empty" \in RootFlags
       \/ pc[p] = "update"
    /\ LET next == IF cmd[p] = "update" THEN "ok" ELSE "mkdir"
       IN  \/ tar' = TRUE /\ Move(p, next) /\ UNCHANGED budget
           \/ /\ Fault(p)
              /\ tar' \in BOOLEAN
              /\ \E l \in {next, "fail"} : Move(p, l)
    /\ UNCHANGED <<ctx, world>>

(* MkdirAll: a directory left by an earlier attempt is as good as a new one. *)
MkdirMustBeNew(p) ==
    /\ pc[p] = "mkdir"
    /\ wslDir' = "empty"
    /\ Move(p, IF wslDir = "absent" THEN "import" ELSE "fail")
    /\ UNCHANGED <<registered, running, iknite, kubeconf, jobs, orphan, host, budget>>

EnsureWSLDirectory(p) ==
    /\ pc[p] = "mkdir"
    /\ \/ /\ wslDir' = IF wslDir = "absent" THEN "empty" ELSE wslDir
          /\ Goto(p, "import")
          /\ UNCHANGED budget
       \/ /\ Fault(p)
          /\ Exit(p, "fail")
          /\ UNCHANGED wslDir
    /\ UNCHANGED <<registered, running, iknite, kubeconf, jobs, orphan, host>>

RegisterDistribution(p) ==
    /\ pc[p] = "import"
    /\ LET importable == ~registered /\ tar /\ wslDir # "disk"
       IN  \/ /\ importable
              /\ registered' = TRUE /\ wslDir' = "disk"
              /\ pc' = [pc EXCEPT ![p] = "configure"]
              /\ status' = [status EXCEPT ![p] = "Installed"]
              /\ UNCHANGED <<cmd, snap, budget>>
           \/ /\ Fails(p, ~importable)
              /\ Exit(p, "fail")
              /\ UNCHANGED <<registered, wslDir>>
    /\ UNCHANGED <<running, iknite, kubeconf, jobs, orphan, host>>

(* config.Configure; its error ends start, and configure ignores it. *)
Configure(p) ==
    /\ pc[p] = "configure"
    /\ cmd[p] = "start" => status[p] = "Installed"
    /\ UNCHANGED host
    /\ \/ /\ registered
          /\ Boot
          /\ Move(p, IF cmd[p] = "start" THEN "launch" ELSE "ok")
          /\ UNCHANGED budget
       \/ /\ Fails(p, ~registered)
          /\ Move(p, IF cmd[p] = "start" THEN "fail" ELSE "ok")
          /\ UNCHANGED world

(* StartCluster: WslLaunch `iknite start`, then wait for it to end. *)
Launch(p) ==
    /\ pc[p] = "launch"
    /\ UNCHANGED host
    /\ \/ /\ registered
          /\ running' = TRUE /\ jobs' = jobs \cup {p}
          /\ Goto(p, "launched")
          /\ UNCHANGED <<registered, iknite, kubeconf, wslDir, orphan, budget>>
       \/ /\ Fails(p, ~registered)
          /\ Exit(p, "fail")
          /\ UNCHANGED world

(* The exit code is 0 once the service is up and its kubeconfig written. *)
LaunchIgnoresExitCode(p) ==
    /\ pc[p] = "launched"
    /\ jobs' = jobs \ {p}
    /\ Goto(p, "mergeLoad")
    /\ UNCHANGED <<registered, running, iknite, kubeconf, wslDir, orphan, host, budget>>

LaunchWaitsForService(p) ==
    /\ pc[p] = "launched" /\ iknite /\ kubeconf
    /\ jobs' = jobs \ {p}
    /\ Goto(p, "mergeLoad")
    /\ UNCHANGED <<registered, running, iknite, kubeconf, wslDir, orphan, host, budget>>

LaunchDone(p) ==
    /\ pc[p] = "launched"
    /\ jobs' = jobs \ {p}
    /\ \/ /\ p \in jobs /\ iknite /\ kubeconf
          /\ Goto(p, "mergeLoad")
          /\ UNCHANGED budget
       \/ /\ Fails(p, p \notin jobs)
          /\ Exit(p, "fail")
    /\ UNCHANGED <<registered, running, iknite, kubeconf, wslDir, orphan, host>>

(* MergeKubernetesConfig reads both files, then writes the user's. A file of  *)
(* the distribution that is missing is skipped; one whose share is gone is    *)
(* either skipped or an error.                                                *)
MergeLoad(p) ==
    /\ pc[p] = "mergeLoad"
    /\ UNCHANGED host
    /\ \/ /\ \/ registered /\ Boot
             \/ ~registered /\ UNCHANGED world
          /\ snap' = [snap EXCEPT ![p] = IF kubeconf THEN "current" ELSE ctx]
          /\ pc' = [pc EXCEPT ![p] = "mergeWrite"]
          /\ UNCHANGED <<cmd, status, budget>>
       \/ /\ Fails(p, ~registered)
          /\ Exit(p, "fail")
          /\ UNCHANGED world

MergeWrite(p) ==
    /\ pc[p] = "mergeWrite"
    /\ \/ /\ ctx' = snap[p]
          /\ Goto(p, "wait")
          /\ UNCHANGED budget
       \/ /\ Fault(p)
          /\ ctx' \in {ctx, "none"}
          /\ Exit(p, "fail")
    /\ UNCHANGED <<tar, world>>

(* The wait of start and status. What it polls is module Workloads' concern:  *)
(* start ends well whatever the wait says, status needs the distribution's    *)
(* kubeconfig to make its client.                                             *)
Wait(p) ==
    /\ pc[p] = "wait"
    /\ UNCHANGED <<host, budget>>
    /\ \/ registered /\ Boot
       \/ (~registered \/ cmd[p] = "start") /\ UNCHANGED world
    /\ Exit(p, IF cmd[p] = "start" \/ kubeconf THEN "ok" ELSE "fail")

-----------------------------------------------------------------------------
(* stop: StopCluster, which uninstall also calls, ignoring its result *)

(* StopCluster asks `wsl --list` again; a failure reads as "not running". *)
StopList(p) ==
    /\ pc[p] = "stopList"
    /\ \/ /\ Move(p, IF registered /\ running THEN "rcStop" ELSE AfterStop(cmd[p]))
          /\ UNCHANGED budget
       \/ /\ ListFaults /\ Fault(p)
          /\ Move(p, AfterStop(cmd[p]))
    /\ UNCHANGED <<world, host>>

(* `rc-service iknite stop`; the error of a failure is overwritten. *)
RcStop(p) ==
    /\ pc[p] = "rcStop"
    /\ Goto(p, "terminate")
    /\ \/ /\ registered
          /\ running' = TRUE /\ iknite' = FALSE
          /\ UNCHANGED <<registered, kubeconf, wslDir, jobs, orphan, budget>>
       \/ /\ Fails(p, ~registered)
          /\ UNCHANGED world
    /\ UNCHANGED host

TerminateSkipped(p) ==
    /\ pc[p] = "terminate"
    /\ Move(p, AfterStop(cmd[p]))
    /\ UNCHANGED <<world, host, budget>>

Terminate(p) ==
    /\ pc[p] = "terminate"
    /\ \/ /\ registered
          /\ Halt
          /\ Move(p, AfterStop(cmd[p]))
          /\ UNCHANGED budget
       \/ /\ Fails(p, ~registered)
          /\ Move(p, IF cmd[p] = "stop" THEN "fail" ELSE AfterStop(cmd[p]))
          /\ UNCHANGED world
    /\ UNCHANGED host

-----------------------------------------------------------------------------
(* uninstall *)
Uninstall(p) ==
    /\ pc[p] = "uninstall"
    /\ Move(p, IF registered THEN "stopList" ELSE "fail")
    /\ UNCHANGED <<world, host, budget>>

Aged(c) == IF c = "current" THEN "stale" ELSE c

(* The distribution and its disk are gone; a context of it now leads nowhere. *)
Gone ==
    /\ registered' = FALSE /\ running' = FALSE /\ iknite' = FALSE
    /\ kubeconf' = FALSE /\ wslDir' = "empty" /\ jobs' = {} /\ orphan' = FALSE
    /\ ctx' = Aged(ctx)
    /\ snap' = [q \in Procs |-> Aged(snap[q])]
    /\ UNCHANGED <<cmd, status, tar>>

UnregisterErrorIgnored(p) ==
    /\ pc[p] = "unregister"
    /\ pc' = [pc EXCEPT ![p] = "removeLoad"]
    /\ \/ registered /\ Gone /\ UNCHANGED budget
       \/ Fails(p, ~registered) /\ UNCHANGED <<cmd, status, snap, world, host>>

Unregister(p) ==
    /\ pc[p] = "unregister"
    /\ \/ /\ registered
          /\ Gone
          /\ pc' = [pc EXCEPT ![p] = "removeLoad"]
          /\ UNCHANGED budget
       \/ /\ Fails(p, ~registered)
          /\ Exit(p, "fail")
          /\ UNCHANGED <<world, host>>

(* RemoveKubernetesConfig reads the file, deletes the context, writes it. *)
RemoveLoadKeepsContext(p) ==
    /\ pc[p] = "removeLoad"
    /\ pc' = [pc EXCEPT ![p] = "removeWrite"]
    /\ snap' = [snap EXCEPT ![p] = ctx]
    /\ UNCHANGED <<cmd, status, world, host, budget>>

RemoveLoad(p) ==
    /\ pc[p] = "removeLoad"
    /\ \/ /\ pc' = [pc EXCEPT ![p] = "removeWrite"]
          /\ snap' = [snap EXCEPT ![p] = "none"]
          /\ UNCHANGED <<cmd, status, budget>>
       \/ Fault(p) /\ Exit(p, "fail")
    /\ UNCHANGED <<world, host>>

RemoveWrite(p) ==
    /\ pc[p] = "removeWrite"
    /\ \/ /\ ctx' = snap[p]
          /\ Goto(p, "removeDir")
          /\ UNCHANGED budget
       \/ /\ Fault(p)
          /\ ctx' \in {ctx, "none"}
          /\ Exit(p, "fail")
    /\ UNCHANGED <<tar, world>>

(* RemoveAll cannot delete the disk of a distribution that is running. *)
RemoveDir(p) ==
    /\ pc[p] = "removeDir"
    /\ \/ /\ ~running
          /\ wslDir' = "absent"
          /\ Exit(p, "ok")
          /\ UNCHANGED budget
       \/ /\ Fails(p, running)
          /\ Exit(p, "fail")
          /\ UNCHANGED wslDir
    /\ UNCHANGED <<registered, running, iknite, kubeconf, jobs, orphan, host>>

-----------------------------------------------------------------------------
(* What may happen to a process, to the distribution, and inside it *)

(* The process is killed between two of its calls, or inside one that rewrites *)
(* a file (clientcmd.WriteToFile truncates it, EnsureRootFS removes the old    *)
(* archive before it renames the new one: module RootFs has the detail).       *)
(* An `iknite start` it waited for may go on without it.                       *)
Crash(p) ==
    /\ pc[p] \notin Resting
    /\ Fault(p)
    /\ ctx' \in IF pc[p] \in {"mergeWrite", "removeWrite"} THEN {ctx, "none"} ELSE {ctx}
    /\ tar' \in IF pc[p] = "update" \/ (pc[p] = "rootfs" /\ "empty" \in RootFlags)
                THEN BOOLEAN ELSE {tar}
    /\ orphan' \in {orphan, orphan \/ p \in jobs}
    /\ jobs' = jobs \ {p}
    /\ Exit(p, "crashed")
    /\ UNCHANGED <<registered, running, iknite, kubeconf, wslDir>>

HostStop ==
    /\ HostStops /\ running /\ faults < MaxFaults
    /\ faults' = faults + 1
    /\ hurt' = hurt \cup Active
    /\ Halt
    /\ UNCHANGED <<proc, host>>

IkniteRuns == jobs # {} \/ orphan

IkniteWritesKubeconfig ==
    /\ IkniteRuns /\ ~kubeconf
    /\ kubeconf' = TRUE
    /\ UNCHANGED <<proc, registered, running, iknite, wslDir, jobs, orphan, host, budget>>

IkniteServiceUp ==
    /\ IkniteRuns /\ ~iknite
    /\ iknite' = TRUE
    /\ UNCHANGED <<proc, registered, running, kubeconf, wslDir, jobs, orphan, host, budget>>

OrphanEnds ==
    /\ orphan
    /\ orphan' = FALSE
    /\ UNCHANGED <<proc, registered, running, iknite, kubeconf, wslDir, jobs, host, budget>>

-----------------------------------------------------------------------------
GetClusterStatus(p) == IsRegistered(p) \/ List(p) \/ FileExists(p) \/ Decide(p)

Start(p) ==
    \/ StatRootFS(p) \/ EnsureRootFS(p) \/ EnsureWSLDirectory(p)
    \/ RegisterDistribution(p) \/ Configure(p) \/ Launch(p) \/ LaunchDone(p)
    \/ MergeLoad(p) \/ MergeWrite(p) \/ Wait(p)

StopCluster(p) == StopList(p) \/ RcStop(p) \/ Terminate(p)

RemoveAll(p) ==
    \/ Uninstall(p) \/ Unregister(p) \/ RemoveLoad(p) \/ RemoveWrite(p) \/ RemoveDir(p)

Step(p) == GetClusterStatus(p) \/ Start(p) \/ StopCluster(p) \/ RemoveAll(p)

Iknite == IkniteWritesKubeconfig \/ IkniteServiceUp \/ OrphanEnds

Next == \/ \E p \in Procs : Begin(p) \/ Step(p) \/ Crash(p)
        \/ HostStop
        \/ Iknite

Spec == Init /\ [][Next]_vars

(* A process that has a call to make makes it; iknite does its work; and the  *)
(* user who is not where he wants to be gives his command again.              *)
Fairness == /\ \A p \in Procs : WF_vars(Step(p)) /\ WF_vars(Begin(p))
            /\ WF_vars(IkniteWritesKubeconfig)
            /\ WF_vars(IkniteServiceUp)

FairSpec == Spec /\ Fairness

-----------------------------------------------------------------------------
(* Every process is at a call of the command it runs (or between two          *)
(* commands), and every variable holds a value the program can give it.       *)
AtCall(p) == IF pc[p] \in Resting THEN cmd[p] = "none"
             ELSE cmd[p] \in Commands /\ pc[p] \in Calls(cmd[p])

ProcTypeOK ==
    /\ pc \in [Procs -> Resting \cup AllCalls]
    /\ cmd \in [Procs -> Commands \cup {"none"}]
    /\ status \in [Procs -> Statuses \cup {"none"}]
    /\ snap \in [Procs -> Contexts]
    /\ \A p \in Procs : AtCall(p)

WorldTypeOK ==
    /\ registered \in BOOLEAN /\ running \in BOOLEAN /\ iknite \in BOOLEAN
    /\ kubeconf \in BOOLEAN /\ orphan \in BOOLEAN
    /\ wslDir \in {"absent", "empty", "disk"}
    /\ jobs \subseteq Procs

HostTypeOK == tar \in BOOLEAN /\ ctx \in Contexts

BudgetTypeOK == faults \in 0 .. MaxFaults /\ hurt \subseteq Procs

TypeOK == ProcTypeOK /\ WorldTypeOK /\ HostTypeOK /\ BudgetTypeOK

(* uninstall deletes the installation directory last (uninstall.go:63), and   *)
(* start creates it before the import (start.go:86): a distribution that is   *)
(* registered never loses the disk it lives on.                               *)
RegisteredHasDisk == registered => wslDir = "disk"

(* Without a failure, commands given one after the other never leave the user *)
(* a kube context of a distribution that is gone: the Aged context of         *)
(* uninstall.go:55 is removed at 59, and merged anew by the next start.       *)
NoDanglingContext == faults = 0 /\ Active = {} => ctx # "stale"

(* An uninstall that says it succeeded left nothing: no registration, no      *)
(* directory, no kube context (uninstall.go:43-64).                           *)
UninstallLeavesNothing ==
    \A p \in Procs :
        cmd[p] = "uninstall" /\ pc'[p] = "ok"
            => ~registered' /\ wslDir' = "absent" /\ ctx' = "none"
UninstallClean == [][UninstallLeavesNothing]_vars

(* Recovery: whatever earlier commands that failed or were killed left        *)
(* behind, a start that meets no failure of its own gets through, unless the  *)
(* root file system archive is not there (start.go:79-84).                    *)
StartGetsThrough ==
    \A p \in Procs :
        cmd[p] = "start" /\ pc'[p] = "fail" /\ p \notin hurt' => ~tar
StartBlockedOnlyByRootFS == [][StartGetsThrough]_vars

(* README.md:142-149: `kaweezle start` is the first command, which installs   *)
(* the distribution: it does not fail by itself.                              *)
StartInstalls ==
    \A p \in Procs : cmd[p] = "start" /\ p \notin hurt' => pc'[p] # "fail"
FreshStartInstalls == [][StartInstalls]_vars

(* README.md:151-154: once start has ended well there is a kube context that  *)
(* leads to the distribution. Only a start that was not Started merges it     *)
(* (start.go:74-96), so this is about machines where nothing has failed yet:  *)
(* a start that was killed before its merge leaves the next one nothing to do.*)
StartEndsWithContext ==
    \A p \in Procs :
        cmd[p] = "start" /\ pc'[p] = "ok" /\ faults' = 0 => ctx' = "current"
StartGivesContext == [][StartEndsWithContext]_vars

(* Asking for the status of a distribution that is stopped does not start it: *)
(* GetClusterStatus looks into it only when `wsl --list` says it runs         *)
(* (cluster.go:79). A status under which Windows stops the distribution is    *)
(* exempted (hurt): it may look after the stop and boot it again.             *)
StatusKeepsDown ==
    (\E p \in Procs : cmd[p] = "status" /\ p \notin hurt') /\ ~running => ~running'
StatusNeverBoots == [][StatusKeepsDown]_vars

(* stop.go:30 "Stop the cluster and the WSL distribution": after a stop that  *)
(* ends well and met no failure, not even one it hides (`wsl --list`,         *)
(* wsl.go:125), the distribution is down, whatever earlier commands left.     *)
StopEndsDown ==
    \A p \in Procs :
        cmd[p] = "stop" /\ pc'[p] = "ok" /\ p \notin hurt' => ~running'
StopStops == [][StopEndsDown]_vars

(* A user who repeats start after every failure gets a cluster that is up     *)
(* and stays up, once failures end.                                           *)
RetryConverges == <>[]iknite

(* LaunchAndPipe waits for `iknite start` without a limit (wsl.go:246): a      *)
(* start still comes back, also when the distribution goes down under it.      *)
StartReturns == \A p \in Procs : []<>(pc[p] \in Resting)

=============================================================================
