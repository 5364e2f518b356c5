------------------------------ MODULE Workloads ------------------------------
(***************************************************************************)
(* Waiting for the workloads of the cluster to settle: WaitForWorkloads      *)
(* (pkg/cluster/status.go:106-205), which start calls with a timeout and     *)
(* status with none, over a cluster whose workloads appear, become ready,    *)
(* fail and go away while they are being listed.                             *)
(*                                                                          *)
(* A round of the poll is a discovery, one list request per kind, and the    *)
(* verdict. Requests are separate steps, since the cluster goes on between   *)
(* them; each may fail. Waiters only read, so one of them is modelled. The   *)
(* cluster is external.                                                      *)
(***************************************************************************)
EXTENDS Naturals

CONSTANTS
    Deployments, StatefulSets, DaemonSets,   \* the workloads that may exist
    Applications,                            \* those of the kind Application
    Commands,                                \* the commands the user gives
    MaxSetbacks    \* bound on the workloads that stop being ready, or go away

Objects == Deployments \cup StatefulSets \cup DaemonSets \cup Applications

ASSUME WorkloadsAssumption ==
    /\ Commands \subseteq {"start", "startNoWait", "status", "statusWait"}
    /\ MaxSetbacks \in Nat

VARIABLES
    (* The cluster. *)
    state,      \* of each workload
    crd,        \* the API server knows the kind Application
    setbacks,   \* setbacks so far
    (* The command. *)
    cmd, pc,    \* what was given, and what it does next or how it ended
    hasApps,    \* HasApplications' answer in this round
    kind,       \* the kind to list next
    seen,       \* the workloads listed in this round, as they were then
    due,        \* the timeout is over: the poller's channel is closed
    last,       \* this round began after that, and is the last
    shown,      \* the callback has run
    result,     \* what the wait returned
    (* What the properties speak of. *)
    began,      \* the workloads that existed when this round began
    moved,      \* those that have left "ready", or gone away, since
    unsettled   \* since the timeout, some workload was not ready

cluster == <<state, crd, setbacks>>
round   == <<hasApps, kind, seen, last, began, moved>>
vars    == <<cluster, cmd, pc, round, due, shown, result, unsettled>>

States   == {"absent", "unready", "ready", "broken"}
Resting  == {"idle", "ok", "fail"}
Existing == {o \in Objects : state[o] # "absent"}
NotReady == {o \in Objects : state[o] \in {"unready", "broken"}}

(* The resource types of the request, in its order (status.go:128-134). *)
OfKind(k) == CASE k = 1 -> Deployments
               [] k = 2 -> StatefulSets
               [] k = 3 -> DaemonSets
               [] OTHER -> Applications
LastKind == IF hasApps THEN 4 ELSE 3

Init ==
    /\ state = [o \in Objects |-> "absent"]
    /\ crd = FALSE /\ setbacks = 0
    /\ cmd = "none" /\ pc = "idle"
    /\ hasApps = FALSE /\ kind = 1
    /\ seen = [o \in Objects |-> "absent"]
    /\ due = FALSE /\ last = FALSE /\ shown = FALSE /\ result = "none"
    /\ began = {} /\ moved = {} /\ unsettled = FALSE

-----------------------------------------------------------------------------
(* start waits only for a positive timeout (start.go:98); status only gets    *)
(* here when the cluster is started (status.go:82).                           *)
Begin ==
    /\ pc \in Resting
    /\ \E c \in Commands : /\ cmd' = c
                           /\ pc' = IF c = "startNoWait" THEN "ok" ELSE "client"
    /\ due' = FALSE /\ shown' = FALSE /\ result' = "none" /\ unsettled' = FALSE
    /\ UNCHANGED <<cluster, round>>

(* The wait returns, and both commands end well whatever it returned: start   *)
(* only logs the error, status ignores it.                                    *)
Return(r) == pc' = "ok" /\ result' = r

(* A round begins: PollImmediate's first, one at a tick, or the last one when *)
(* the poller's channel is found closed.                                      *)
Round ==
    /\ pc' = "hasApplications"
    /\ last' = due
    /\ kind' = 1
    /\ seen' = [o \in Objects |-> "absent"]
    /\ began' = Existing /\ moved' = {}
    /\ UNCHANGED hasApps

(* NewRESTClientForDistribution reads the kubeconfig of the distribution.     *)
NewRESTClient ==
    /\ pc = "client"
    /\ \/ Round /\ UNCHANGED result
       \/ cmd = "start" /\ Return("error") /\ UNCHANGED round
       \/ cmd # "start" /\ pc' = "fail" /\ UNCHANGED <<result, round>>
    /\ UNCHANGED <<cluster, cmd, due, shown, unsettled>>

(* Every round makes a new mapper, so it discovers the kinds anew. *)
MapperKept ==
    /\ pc = "hasApplications"
    /\ hasApps' = IF shown THEN hasApps ELSE crd
    /\ pc' = "list"
    /\ UNCHANGED <<cluster, cmd, kind, seen, last, began, moved, due, shown, result, unsettled>>

HasApplications ==
    /\ pc = "hasApplications"
    /\ \/ hasApps' = crd /\ pc' = "list" /\ UNCHANGED result
       \/ Return("error") /\ UNCHANGED hasApps
    /\ UNCHANGED <<cluster, cmd, kind, seen, last, began, moved, due, shown, unsettled>>

ListsOneTooMany ==
    /\ pc = "list"
    /\ seen' = [o \in Objects |-> IF o \in OfKind(kind) THEN state[o] ELSE seen[o]]
    /\ kind' = kind + 1
    /\ pc' = IF kind <= LastKind THEN "list" ELSE "verdict"
    /\ UNCHANGED <<cluster, cmd, hasApps, last, began, moved, due, shown, result, unsettled>>

List ==
    /\ pc = "list"
    /\ \/ /\ seen' = [o \in Objects |-> IF o \in OfKind(kind) THEN state[o] ELSE seen[o]]
          /\ IF kind < LastKind THEN kind' = kind + 1 /\ UNCHANGED pc
                                ELSE pc' = "verdict" /\ UNCHANGED kind
          /\ UNCHANGED result
       \/ Return("error") /\ UNCHANGED <<seen, kind>>
    /\ UNCHANGED <<cluster, cmd, hasApps, last, began, moved, due, shown, unsettled>>

(* AreWorkloadsReady. A workload whose status cannot be told, like one past   *)
(* its progress deadline, ends the wait; status without -w exits inside the   *)
(* callback; the closed channel ends it after the round.                      *)
Listed(s) == \E o \in Objects : seen[o] = s

GivesUpWhenDue ==
    IF Listed("broken") THEN "error" ELSE IF cmd = "status" THEN "shown"
    ELSE IF ~Listed("unready") THEN "ready" ELSE IF due THEN "timeout" ELSE "none"

KeepsPolling ==
    IF Listed("broken") THEN "error" ELSE IF cmd = "status" THEN "shown"
    ELSE IF ~Listed("unready") THEN "ready" ELSE "none"

Verdict ==
    IF Listed("broken") THEN "error" ELSE IF cmd = "status" THEN "shown"
    ELSE IF ~Listed("unready") THEN "ready" ELSE IF last THEN "timeout" ELSE "none"

AreWorkloadsReady ==
    /\ pc = "verdict"
    /\ shown' = (shown \/ Verdict # "error")
    /\ \/ Verdict = "none" /\ pc' = "sleep" /\ UNCHANGED result
       \/ Verdict # "none" /\ Return(Verdict)
    /\ UNCHANGED <<cluster, cmd, round, due, unsettled>>

Poll ==
    /\ pc = "sleep"
    /\ Round
    /\ UNCHANGED <<cluster, cmd, due, shown, result, unsettled>>

(* The timer runs from the end of the first round, and only for start: a      *)
(* timeout of 0 starts none.                                                  *)
Timeout ==
    /\ cmd = "start" /\ pc \notin Resting /\ shown /\ ~due
    /\ due' = TRUE
    /\ unsettled' = (NotReady # {})
    /\ UNCHANGED <<cluster, cmd, pc, round, shown, result>>

-----------------------------------------------------------------------------
(* The cluster, as kubernetes and the applications change it. *)
Change(o, s) ==
    /\ state' = [state EXCEPT ![o] = s]
    /\ moved' = IF state[o] = "ready" \/ s = "absent" THEN moved \cup {o} ELSE moved
    /\ unsettled' = (unsettled \/ (due /\ s \in {"unready", "broken"}))
    /\ UNCHANGED <<cmd, pc, hasApps, kind, seen, last, began, due, shown, result>>

Create(o) ==
    /\ state[o] = "absent" /\ (o \in Applications => crd)
    /\ Change(o, "unready")
    /\ UNCHANGED <<crd, setbacks>>

Settle(o) ==
    /\ state[o] \in {"unready", "broken"}
    /\ Change(o, "ready")
    /\ UNCHANGED <<crd, setbacks>>

Setback(o) ==
    /\ state[o] # "absent" /\ setbacks < MaxSetbacks
    /\ \E s \in {"absent", "unready", "broken"} \ {state[o]} : Change(o, s)
    /\ setbacks' = setbacks + 1
    /\ UNCHANGED crd

KnowApplications ==
    /\ ~crd /\ crd' = TRUE
    /\ UNCHANGED <<state, setbacks, cmd, pc, round, due, shown, result, unsettled>>

Wait == NewRESTClient \/ HasApplications \/ List \/ AreWorkloadsReady \/ Poll

Cluster == \/ \E o \in Objects : Create(o) \/ Settle(o) \/ Setback(o)
           \/ KnowApplications

Next == Begin \/ Wait \/ Timeout \/ Cluster

Spec == Init /\ [][Next]_vars

(* Requests are answered or fail, ticks and the timer fire. Nothing is        *)
(* assumed of the cluster.                                                    *)
Fairness == WF_vars(Wait) /\ WF_vars(Timeout)

FairSpec == Spec /\ Fairness

-----------------------------------------------------------------------------
(* Every variable has a value of its kind; no workload of the kind            *)
(* Application exists before the kind does.                                   *)
TypeOK ==
    /\ state \in [Objects -> States] /\ seen \in [Objects -> States]
    /\ crd \in BOOLEAN /\ hasApps \in BOOLEAN
    /\ setbacks \in 0 .. MaxSetbacks
    /\ cmd \in Commands \cup {"none"}
    /\ pc \in Resting \cup {"client", "hasApplications", "list", "verdict", "sleep"}
    /\ kind \in 1 .. 4
    /\ due \in BOOLEAN /\ last \in BOOLEAN /\ shown \in BOOLEAN /\ unsettled \in BOOLEAN
    /\ result \in {"none", "ready", "shown", "timeout", "error"}
    /\ began \subseteq Objects /\ moved \subseteq Objects
    /\ crd \/ Applications \cap Existing = {}

(* The wait says "ready" only when every workload that was there when its     *)
(* last round began is ready now, or has left that state since: none is       *)
(* overlooked, also not the applications, whose kind appears while the wait   *)
(* goes on (status.go:106-164).                                               *)
SaysReady == pc \notin Resting /\ result' = "ready"
ReadyWasSeen == SaysReady => \A o \in began \ moved : state[o] = "ready"
ReadyIsTrue == [][ReadyWasSeen]_vars

(* The wait gives up only over a workload that was not ready after the        *)
(* timeout: it looks once more when the time is over (status.go:203-205).     *)
GaveUpOverUnready == pc \notin Resting /\ result' = "timeout" => unsettled
GivesUpHonestly == [][GaveUpOverUnready]_vars

(* start and status come back whatever the cluster does; status -w, which has *)
(* no timeout, when the workloads settle (start.go:98-106, status.go:82-91).  *)
Settled == \A o \in Objects : state[o] # "unready"
WaitReturns == /\ []<>(pc \in Resting \/ cmd = "statusWait")
               /\ <>[]Settled => []<>(pc \in Resting)

=============================================================================
