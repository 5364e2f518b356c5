------------------------------- MODULE Elevated -------------------------------
(***************************************************************************)
(* The settings of Windows that need its administrator: the route to the     *)
(* cluster (pkg/config/route.go) and the domain names of the hosts file      *)
(* (pkg/config/configure.go:109-194). A command that is not elevated starts  *)
(* an elevated helper of its own, which serves its requests over a pipe      *)
(* (pkg/config/elevated.go) until it is told to stop.                        *)
(*                                                                          *)
(* Commands and helpers do not know of each other; they share the hosts file *)
(* and the route without a lock. txeh saves the hosts file with             *)
(* os.WriteFile, which truncates it and then writes it. A helper that does   *)
(* not die listens before gRPC gives its connection up (20 s).               *)
(***************************************************************************)
EXTENDS Naturals

CONSTANTS
    Procs,      \* commands that may be in flight together
    Kinds,      \* what the commands are
    Domains,    \* the domain names they are about
    Foreign,    \* a domain name of the hosts file they are not about
    MaxFaults   \* bound on the failures, kills and deaths of a helper

AllKinds == {"start", "configure", "domains", "route"}

ASSUME ElevatedAssumption ==
    /\ Kinds \subseteq AllKinds
    /\ Foreign \notin Domains
    /\ MaxFaults \in Nat

VARIABLES
    pc,       \* per command: what it does next, or how it ended
    task,     \* what it was asked
    client,   \* elevatedClient is set
    prompts,  \* elevations it asked the user for
    helper,   \* its helper
    work,     \* what is done next about its request, by it or its helper
    image,    \* the hosts file as it is going to be saved
    alone,    \* no other command was at work since it began
    hosts,    \* the address of each name in the hosts file
    routed,   \* the route to the cluster's address is there
    spoilt,   \* a save was cut off, or read, while the hosts file was truncated
    faults    \* failures so far

command == <<pc, task, client, prompts>>
server  == <<helper, work, image>>
windows == <<hosts, routed, spoilt>>
vars    == <<command, server, windows, alone, faults>>

Names     == Domains \cup {Foreign}
Addresses == {"none", "cluster", "other"}
Resting   == {"idle", "ok", "fail", "killed"}
Awaiting  == {"awaitRoute", "awaitHosts"}
Alive     == {"starting", "listening", "connected", "stopping"}

Tasks == [kind : Kinds, names : SUBSET Domains, remove : BOOLEAN, admin : BOOLEAN]

(* start and configure only add; route is not about names. *)
Sensible(t) == /\ t.kind \in {"start", "configure"} => ~t.remove
               /\ t.kind = "route" => t.names = {}

Idle == [kind |-> "none", names |-> {}, remove |-> FALSE, admin |-> FALSE]

NoImage == [d \in Names |-> "none"]

Init ==
    /\ pc = [p \in Procs |-> "idle"]
    /\ task = [p \in Procs |-> Idle]
    /\ client = [p \in Procs |-> FALSE]
    /\ prompts = [p \in Procs |-> 0]
    /\ helper = [p \in Procs |-> "none"]
    /\ work = [p \in Procs |-> "none"]
    /\ image = [p \in Procs |-> NoImage]
    /\ alone = [p \in Procs |-> FALSE]
    /\ hosts = [d \in Names |-> IF d = Foreign THEN "other" ELSE "none"]
    /\ routed = FALSE
    /\ spoilt = "no"
    /\ faults = 0

Goto(p, l) == pc' = [pc EXCEPT ![p] = l]

Leave(p, l) ==
    /\ Goto(p, l)
    /\ client' = [client EXCEPT ![p] = IF l \in Resting THEN FALSE ELSE @]
    /\ UNCHANGED <<task, prompts>>

Work(p, w) == work' = [work EXCEPT ![p] = w]

(* What a handler returns becomes the answer; when nobody waits for it any    *)
(* more it is dropped.                                                        *)
Result(p, w) == Work(p, IF pc[p] \in Resting THEN "none" ELSE w)

Fault == faults < MaxFaults /\ faults' = faults + 1

Quiet(p) == pc[p] \in Resting /\ work[p] = "none"

(* A helper that was left behind is not reached by anybody any more. *)
Begin(p) ==
    /\ Quiet(p) /\ helper[p] # "stopping"
    /\ \E t \in Tasks :
        /\ Sensible(t)
        /\ task' = [task EXCEPT ![p] = t]
        /\ Goto(p, IF t.kind = "domains" THEN "hosts" ELSE "route")
    /\ prompts' = [prompts EXCEPT ![p] = 0]
    /\ helper' = [helper EXCEPT ![p] = "none"]
    /\ alone' = [q \in Procs |-> q = p /\ \A r \in Procs \ {p} : Quiet(r)]
    /\ UNCHANGED <<client, work, image, windows, faults>>

(* CheckErr exits, and skips PersistentPostRun; configure drops the error. *)
AfterError(t) == IF t.kind = "configure" THEN "release" ELSE "fail"
AfterRoute(t) == IF t.names = {} THEN "release" ELSE "hosts"

-----------------------------------------------------------------------------
(* RouteToWSL: nothing to do when the route is as it should be. *)
RouteUnlessThere(p) ==
    /\ pc[p] = "route"
    /\ IF routed
       THEN Leave(p, AfterRoute(task[p])) /\ UNCHANGED work
       ELSE /\ Leave(p, IF task[p].admin THEN "awaitRoute" ELSE "getRoute")
            /\ Work(p, IF task[p].admin THEN "route" ELSE "none")
    /\ UNCHANGED <<helper, image, windows, alone, faults>>

RouteToWSL(p) ==
    /\ pc[p] = "route"
    /\ \/ /\ routed # task[p].remove
          /\ Leave(p, AfterRoute(task[p]))
          /\ UNCHANGED <<work, faults>>
       \/ /\ routed = task[p].remove
          /\ Leave(p, IF task[p].admin THEN "awaitRoute" ELSE "getRoute")
          /\ Work(p, IF task[p].admin THEN "route" ELSE "none")
          /\ UNCHANGED faults
       \/ Fault /\ Leave(p, AfterError(task[p])) /\ UNCHANGED work
    /\ UNCHANGED <<helper, image, windows, alone>>

(* ConfigureDomains first looks whether every name is bound; a list (no names *)
(* and no removal) and a removal always go on.                                *)
Looks(t) == t.names # {} /\ ~t.remove

AnyHere(t) == Looks(t) /\ \E d \in t.names : hosts[d] = "cluster"

AllHere(t) == Looks(t) /\ \A d \in t.names : hosts[d] = "cluster"

ConfigureDomains(p) ==
    /\ pc[p] = "hosts"
    /\ \/ /\ AllHere(task[p])
          /\ Leave(p, "release")
          /\ UNCHANGED <<work, faults>>
       \/ /\ ~AllHere(task[p])
          /\ Leave(p, IF task[p].admin THEN "awaitHosts" ELSE "getHosts")
          /\ Work(p, IF task[p].admin THEN "read" ELSE "none")
          /\ UNCHANGED faults
       \/ Looks(task[p]) /\ Fault /\ Leave(p, AfterError(task[p])) /\ UNCHANGED work
    /\ UNCHANGED <<helper, image, windows, alone>>

-----------------------------------------------------------------------------
(* GetElevatedClient, and the request. The first request of a command starts  *)
(* the helper, by asking the user, who may refuse.                            *)
Request(p) == /\ Goto(p, IF pc[p] = "getRoute" THEN "awaitRoute" ELSE "awaitHosts")
              /\ Work(p, IF pc[p] = "getRoute" THEN "route" ELSE "check")
              /\ client' = [client EXCEPT ![p] = TRUE]
              /\ UNCHANGED task

RefusalIgnored(p) ==
    /\ pc[p] \in {"getRoute", "getHosts"}
    /\ Request(p)
    /\ \/ client[p] /\ UNCHANGED <<prompts, helper, faults>>
       \/ /\ ~client[p]
          /\ prompts' = [prompts EXCEPT ![p] = @ + 1]
          /\ \/ helper' = [helper EXCEPT ![p] = "starting"] /\ UNCHANGED faults
             \/ Fault /\ UNCHANGED helper
    /\ UNCHANGED <<image, windows, alone>>

GetElevatedClient(p) ==
    /\ pc[p] \in {"getRoute", "getHosts"}
    /\ \/ client[p] /\ Request(p) /\ UNCHANGED <<prompts, helper, faults>>
       \/ /\ ~client[p]
          /\ Request(p)
          /\ prompts' = [prompts EXCEPT ![p] = @ + 1]
          /\ helper' = [helper EXCEPT ![p] = "starting"]
          /\ UNCHANGED faults
       \/ /\ ~client[p] /\ Fault
          /\ Goto(p, AfterError(task[p]))
          /\ \E asked \in {0, 1} : prompts' = [prompts EXCEPT ![p] = @ + asked]
          /\ UNCHANGED <<task, client, helper, work>>
    /\ UNCHANGED <<image, windows, alone>>

(* performElevate listens; the dialer tries again until it does. *)
Listen(p) ==
    /\ helper[p] = "starting"
    /\ helper' = [helper EXCEPT ![p] = "listening"]
    /\ UNCHANGED <<command, work, image, windows, alone, faults>>

Dial(p) ==
    /\ pc[p] \notin Resting /\ helper[p] = "listening"
    /\ helper' = [helper EXCEPT ![p] = "connected"]
    /\ UNCHANGED <<command, work, image, windows, alone, faults>>

-----------------------------------------------------------------------------
(* The request is at work: in the command, or in the helper, which goes on    *)
(* with it also when the command is gone.                                     *)
AtWork(p) == IF task[p].admin THEN pc[p] \in Awaiting ELSE helper[p] = "connected"

(* `route` may refuse to add what is there, and to delete what is not. *)
AddOrRemoveRoute(p) ==
    /\ AtWork(p) /\ work[p] = "route"
    /\ \/ routed' = ~task[p].remove /\ Result(p, "done") /\ UNCHANGED faults
       \/ routed # task[p].remove /\ Result(p, "error") /\ UNCHANGED <<routed, faults>>
       \/ Fault /\ Result(p, "error") /\ UNCHANGED routed
    /\ UNCHANGED <<command, helper, image, hosts, spoilt, alone>>

(* The helper runs ConfigureDomains, which begins with the same look. *)
Check(p) ==
    /\ AtWork(p) /\ work[p] = "check"
    /\ \/ AllHere(task[p]) /\ Result(p, "done") /\ UNCHANGED faults
       \/ ~AllHere(task[p]) /\ Work(p, "read") /\ UNCHANGED faults
       \/ Looks(task[p]) /\ Fault /\ Result(p, "error")
    /\ UNCHANGED <<command, helper, image, windows, alone>>

(* txeh binds names, wherever they were bound before, or removes them. When   *)
(* none is given, they are those of the cluster's address.                    *)
ChangedAll(t) ==
    [d \in Names |-> IF t.names # {} /\ d \notin t.names THEN hosts[d]
                     ELSE IF t.remove THEN "none" ELSE "cluster"]

Changed(t) ==
    LET names == IF t.names = {} THEN {d \in Names : hosts[d] = "cluster"} ELSE t.names
    IN  [d \in Names |-> IF d \notin names THEN hosts[d]
                         ELSE IF t.remove THEN "none" ELSE "cluster"]

(* The file is truncated: somebody is about to write it. *)
Truncated == \E q \in Procs : work[q] = "write"

SpoiltIf(b) == spoilt' = IF b THEN "yes" ELSE spoilt

ReadHosts(p) ==
    /\ AtWork(p) /\ work[p] = "read"
    /\ LET list == task[p].names = {} /\ ~task[p].remove
       IN  \/ list /\ Result(p, "done") /\ UNCHANGED <<image, spoilt, faults>>
           \/ /\ ~list /\ Work(p, "save") /\ SpoiltIf(Truncated) /\ UNCHANGED faults
              /\ image' = [image EXCEPT ![p] = Changed(task[p])]
           \/ Fault /\ Result(p, "error") /\ UNCHANGED <<image, spoilt>>
    /\ UNCHANGED <<command, helper, hosts, routed, alone>>

TruncateHosts(p) ==
    /\ AtWork(p) /\ work[p] = "save"
    /\ \/ hosts' = NoImage /\ Work(p, "write") /\ UNCHANGED <<image, faults>>
       \/ /\ Fault /\ Result(p, "error") /\ UNCHANGED hosts
          /\ image' = [image EXCEPT ![p] = NoImage]
    /\ UNCHANGED <<command, helper, routed, spoilt, alone>>

(* Over what another command wrote in the meantime: its end stays when it is  *)
(* longer. A write that fails may have written a part.                        *)
Over(p, names) == [d \in Names |-> IF d \in names THEN image[p][d] ELSE hosts[d]]

Bound(p) == {d \in Names : image[p][d] # "none"}

WriteHosts(p) ==
    /\ AtWork(p) /\ work[p] = "write"
    /\ image' = [image EXCEPT ![p] = NoImage]
    /\ \E names \in SUBSET Names :
        /\ hosts' = Over(p, names)
        /\ \/ /\ Bound(p) \subseteq names
              /\ Result(p, "done") /\ UNCHANGED <<spoilt, faults>>
           \/ Fault /\ Result(p, "error") /\ spoilt' = "yes"
    /\ UNCHANGED <<command, helper, routed, alone>>

Answer(p) ==
    /\ pc[p] \in Awaiting /\ work[p] \in {"done", "error"}
    /\ Work(p, "none")
    /\ Leave(p, IF work[p] = "error" THEN AfterError(task[p])
                ELSE IF pc[p] = "awaitRoute" THEN AfterRoute(task[p]) ELSE "release")
    /\ UNCHANGED <<helper, image, windows, alone, faults>>

-----------------------------------------------------------------------------
(* PersistentPostRun: ReleaseElevatedClient. Between Configure and there,     *)
(* start may fail, and exit.                                                  *)
Release(p) ==
    /\ pc[p] = "release"
    /\ \/ Leave(p, IF client[p] THEN "stop" ELSE "ok") /\ UNCHANGED faults
       \/ task[p].kind = "start" /\ Fault /\ Leave(p, "fail")
    /\ UNCHANGED <<server, windows, alone>>

(* The handler of Stop puts true into Done, one goroutine takes it and stops  *)
(* the server. That may cut off the answer; the error is as good.             *)
StopForgetsDone(p) ==
    /\ pc[p] = "stop" /\ helper[p] = "connected"
    /\ Leave(p, "ok")
    /\ UNCHANGED <<server, windows, alone, faults>>

Stop(p) ==
    /\ pc[p] = "stop" /\ helper[p] = "connected"
    /\ helper' = [helper EXCEPT ![p] = "stopping"]
    /\ UNCHANGED <<command, work, image, windows, alone, faults>>

HelperStops(p) ==
    /\ helper[p] = "stopping"
    /\ helper' = [helper EXCEPT ![p] = "gone"]
    /\ UNCHANGED <<command, work, image, windows, alone, faults>>

StoppedOnlyByAnswer(p) ==
    /\ pc[p] = "stop" /\ helper[p] = "stopping"
    /\ Leave(p, "ok")
    /\ UNCHANGED <<server, windows, alone, faults>>

Stopped(p) ==
    /\ pc[p] = "stop" /\ helper[p] \in {"stopping", "gone"}
    /\ Leave(p, "ok")
    /\ UNCHANGED <<server, windows, alone, faults>>

-----------------------------------------------------------------------------
(* The command is killed; a request its helper has received goes on. *)
Kill(p) ==
    /\ pc[p] \notin Resting
    /\ Fault
    /\ Leave(p, "killed")
    /\ LET goesOn == helper[p] = "connected" /\ work[p] \notin {"done", "error"}
       IN  /\ Work(p, IF goesOn THEN work[p] ELSE "none")
           /\ image' = [image EXCEPT ![p] = IF goesOn THEN @ ELSE NoImage]
           /\ SpoiltIf(work[p] = "write" /\ ~goesOn)
    /\ UNCHANGED <<helper, hosts, routed, alone>>

(* The helper dies. The request it was at, or whose answer was on its way,    *)
(* fails; any other one is dialed for, for ever.                              *)
HelperDies(p) ==
    /\ helper[p] \in Alive
    /\ Fault
    /\ helper' = [helper EXCEPT ![p] = IF pc[p] = "stop" THEN "gone" ELSE "dead"]
    /\ IF helper[p] = "connected" /\ work[p] # "none"
       THEN /\ \E w \in {"error", work[p]} \cap {"done", "error"} : Result(p, w)
            /\ image' = [image EXCEPT ![p] = NoImage]
            /\ SpoiltIf(work[p] = "write")
       ELSE UNCHANGED <<work, image, spoilt>>
    /\ UNCHANGED <<command, hosts, routed, alone>>

Command(p) ==
    \/ RouteToWSL(p) \/ ConfigureDomains(p) \/ GetElevatedClient(p) \/ Dial(p)
    \/ Answer(p) \/ Release(p) \/ Stopped(p)

Server(p) ==
    \/ Listen(p) \/ AddOrRemoveRoute(p) \/ Check(p) \/ ReadHosts(p)
    \/ TruncateHosts(p) \/ WriteHosts(p) \/ Stop(p) \/ HelperStops(p)

Next == \E p \in Procs : Begin(p) \/ Command(p) \/ Server(p) \/ Kill(p) \/ HelperDies(p)

Spec == Init /\ [][Next]_vars

(* A command and a helper that can go on do; commands need not be given. *)
Fairness == \A p \in Procs : WF_vars(Command(p)) /\ WF_vars(Server(p))

FairSpec == Spec /\ Fairness

-----------------------------------------------------------------------------
(* Every variable has a value of its kind; a command that waits for an answer *)
(* is elevated or has a client, and a client was made with a helper.          *)
TypeOK ==
    /\ pc \in [Procs -> Resting \cup Awaiting \cup
                        {"route", "hosts", "getRoute", "getHosts", "release", "stop"}]
    /\ task \in [Procs -> Tasks \cup {Idle}]
    /\ client \in [Procs -> BOOLEAN] /\ alone \in [Procs -> BOOLEAN]
    /\ prompts \in [Procs -> Nat]
    /\ helper \in [Procs -> Alive \cup {"none", "gone", "dead"}]
    /\ work \in [Procs -> {"none", "route", "check", "read", "save", "write", "done", "error"}]
    /\ image \in [Procs -> [Names -> Addresses]]
    /\ hosts \in [Names -> Addresses] /\ routed \in BOOLEAN
    /\ spoilt \in {"no", "yes"} /\ faults \in 0 .. MaxFaults
    /\ \A p \in Procs : /\ client[p] => helper[p] # "none"
                        /\ pc[p] \in Awaiting => task[p].admin \/ client[p]

(* A name the commands are not about has its address whenever the hosts file  *)
(* is whole, whatever commands read, change and save it together: only a save *)
(* that is cut off, or read by another command, between truncation and write  *)
(* loses it (pkg/config/configure.go:144-162).                                *)
ForeignKept == spoilt = "no" /\ ~Truncated => hosts[Foreign] = "other"

(* One command asks the user for elevation once, for all of its requests, and *)
(* does not ask again when the user refuses (elevated.go:140-149).            *)
OnePrompt == \A p \in Procs : prompts[p] <= 1

(* A command that nobody disturbs asks the user only for a cause: its route is *)
(* not as it should be, one of the names it adds is not bound, or it is         *)
(* `domains` with a list or a removal, which always asks, also when none of the *)
(* names is there any more (route.go:37-46, configure.go:110-138).              *)
Cause(t) == \/ t.kind # "domains" /\ routed = t.remove
            \/ t.kind # "route" /\ ~t.remove /\ \E d \in t.names : hosts[d] # "cluster"
            \/ t.kind = "domains" /\ (t.remove \/ t.names = {})
AsksForCause ==
    \A p \in Procs : alone[p] /\ prompts'[p] > prompts[p] => Cause(task[p])
PromptsForCause == [][AsksForCause]_vars

(* A command that says it succeeded, and that nobody disturbed, did what it   *)
(* was asked: names bound or removed, the route added or removed. (configure  *)
(* drops the error, so it says nothing.)                                      *)
NamesDone(t) == IF t.remove
                THEN IF t.names = {} THEN \A d \in Domains : hosts'[d] # "cluster"
                     ELSE \A d \in t.names : hosts'[d] = "none"
                ELSE \A d \in t.names : hosts'[d] = "cluster"
Done(t) == /\ t.kind # "domains" => routed' = ~t.remove
           /\ t.kind # "route" => NamesDone(t)
OkIsDone ==
    \A p \in Procs : alone[p] /\ task[p].kind # "configure"
                     /\ pc[p] \notin Resting /\ pc'[p] = "ok" => Done(task[p])
SuccessIsDone == [][OkIsDone]_vars

(* A command comes back, from its requests and from the release of its        *)
(* helper, unless the helper died (elevated.go:115-126, 151-158).             *)
CommandReturns == \A p \in Procs : []<>(pc[p] \in Resting \/ helper[p] = "dead")

(* The helper of a command that ended well ends too (cmd/configure.go:213-216).   *)
HelperEnds == \A p \in Procs : pc[p] = "ok" ~> helper[p] \notin Alive

=============================================================================
