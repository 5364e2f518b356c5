---------------------------- MODULE ClusterPromise ----------------------------
(***************************************************************************)
(* What a user may rely on when commands are given at the same time: which   *)
(* command may move the cluster from which condition to which, what a        *)
(* command must have met to say that it ended well, and that nothing but an  *)
(* `iknite start` brings the cluster up. How a command does it is not said.  *)
(***************************************************************************)

CONSTANTS Procs, Commands

VARIABLES
    cluster,   \* the condition the cluster is in
    coming,    \* an `iknite start` is at work in the distribution
    does,      \* per process: the command it runs, or how the last one ended
    met,       \* per process: the conditions since its command began
    excused    \* processes whose command met a failure

vars == <<cluster, coming, does, met, excused>>

Ends == {"ok", "fail", "crashed"}
Busy == {p \in Procs : does[p] \notin Ends \cup {"idle"}}

(* The ways from one condition to another that each command has. *)
Boots    == {<<"Stopped", "Idle">>}
Installs == {<<"Uninstalled", "Stopped">>}
Stops    == {<<"Started", "Idle">>, <<"Started", "Stopped">>, <<"Idle", "Stopped">>}
Removes  == {<<"Started", "Uninstalled">>, <<"Idle", "Uninstalled">>,
             <<"Stopped", "Uninstalled">>}

Ways(c) == CASE c = "start"                 -> Installs \cup Boots
             [] c = "stop"                  -> Stops \cup Boots
             [] c = "uninstall"             -> Stops \cup Boots \cup Removes
             [] c \in {"status", "configure"} -> Boots
             [] OTHER                       -> {}

(* What a command has to have met when it says that it ended well. A stop is  *)
(* let off if it met a failure, as it hides that of a listing.                *)
Earned(c, seen, lucky) ==
    /\ c = "start" => "Started" \in seen
    /\ c = "stop" /\ lucky => "Stopped" \in seen \/ "Uninstalled" \in seen
    /\ c = "uninstall" => "Uninstalled" \in seen

Init ==
    /\ cluster = "Uninstalled" /\ ~coming
    /\ does = [p \in Procs |-> "idle"]
    /\ met = [p \in Procs |-> {}]
    /\ excused = {}

Meet == met' = [p \in Procs |-> IF p \in Busy' THEN met[p] \cup {cluster, cluster'} ELSE {}]

Begin(p) ==
    /\ p \notin Busy
    /\ \E c \in Commands : does' = [does EXCEPT ![p] = c]
    /\ excused' = excused \ {p}
    /\ UNCHANGED <<cluster, coming>>

(* A step of p's command: the cluster stays or goes a way the command has,    *)
(* and the command goes on or ends.                                           *)
Act(p) ==
    /\ p \in Busy
    /\ cluster' = cluster \/ <<cluster, cluster'>> \in Ways(does[p])
    /\ coming' \in BOOLEAN
    /\ coming' => /\ coming \/ does[p] = "start"
                  /\ cluster' \in {"Idle", "Started"}
    /\ excused' \in {excused, excused \cup {p}}
    /\ \E d \in {does[p]} \cup Ends :
        /\ does' = [does EXCEPT ![p] = d]
        /\ d = "ok" => Earned(does[p], met[p] \cup {cluster, cluster'}, p \notin excused')

HostStop ==
    /\ cluster \in {"Idle", "Started"} /\ cluster' = "Stopped" /\ ~coming'
    /\ excused' = excused \cup Busy
    /\ UNCHANGED does

(* An `iknite start` at work brings the service up, goes on, or ends. *)
Iknite ==
    /\ coming
    /\ \/ cluster = "Idle" /\ cluster' = "Started" /\ coming'
       \/ cluster' = cluster /\ coming' \in BOOLEAN
    /\ UNCHANGED <<does, excused>>

Next == Meet /\ (HostStop \/ Iknite \/ \E p \in Procs : Begin(p) \/ Act(p))

Spec == Init /\ [][Next]_vars

=============================================================================
