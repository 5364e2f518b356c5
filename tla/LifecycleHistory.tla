--------------------------- MODULE LifecycleHistory ---------------------------
(***************************************************************************)
(* Lifecycle with a history variable: the conditions the distribution was in *)
(* at some moment of each command in flight. No command locks anything, so   *)
(* what it reports may be over when it reports it; these properties say that *)
(* at least it was so at a moment of the call.                               *)
(***************************************************************************)
EXTENDS Lifecycle

VARIABLE held   \* held[p]: the conditions met since p's command began

hvars == <<vars, held>>

Condition == IF ~registered THEN "Uninstalled"
             ELSE IF ~running THEN "Stopped"
             ELSE IF ~iknite THEN "Idle"
             ELSE "Started"
Conditions == {"Uninstalled", "Stopped", "Idle", "Started"}

HistoryInit == Init /\ held = [p \in Procs |-> {}]

Remember == held' = [p \in Procs |-> IF pc'[p] \in Resting THEN {}
                                     ELSE held[p] \cup {Condition, Condition'}]

HistoryNext == Next /\ Remember

HistorySpec == HistoryInit /\ [][HistoryNext]_hvars

(* What p has seen by the end of the present step. *)
Seen(p) == held[p] \cup {Condition, Condition'}

(* The conditions each status stands for. "Installed" is what is left when    *)
(* the distribution is registered and not found Started; one that was         *)
(* unregistered after the first read is also given as Installed.              *)
Means(s) == CASE s = "Uninstalled" -> {"Uninstalled"}
              [] s = "Installed"   -> {"Stopped", "Idle", "Uninstalled"}
              [] s = "Started"     -> {"Started"}

(* GetClusterStatus reads the registration, the list and the file one after   *)
(* the other (cluster.go:71-81), while other commands run: what it answers    *)
(* was true at some moment of the command.                                    *)
AnswerHeld ==
    \A p \in Procs :
        pc[p] \in StatusCalls /\ pc'[p] = "decide"
            => \E c \in Means(status'[p]) : c \in Seen(p)
StatusWasTrue == [][AnswerHeld]_hvars

(* The promise to users who give commands at the same time (ClusterPromise):  *)
(* only uninstall takes the distribution away, only start installs it, only   *)
(* an `iknite start` brings the cluster up, and a start, stop or uninstall    *)
(* that ends well met a moment when what it says was so, although it acts on  *)
(* a status that may be over (start.go:74, stop.go:37, uninstall.go:44).      *)
Promise == INSTANCE ClusterPromise
             WITH cluster <- Condition,
                  coming  <- jobs # {} \/ orphan,
                  does    <- [p \in Procs |-> IF pc[p] \in Resting THEN pc[p] ELSE cmd[p]],
                  met     <- held,
                  excused <- hurt

PromiseKept == Promise!Spec

=============================================================================
