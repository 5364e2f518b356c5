---------------------------- MODULE ContextContract ----------------------------
(***************************************************************************)
(* What a command may rely on when it has the context of the distribution    *)
(* merged into the user's kubeconfig, or removed from it: two steps, a load   *)
(* that settles what will be written and a write. One that stops while it     *)
(* writes leaves the context as it was or none. KubeConfig implements it with *)
(* one process at the file; the commands of Lifecycle keep to its steps.      *)
(***************************************************************************)

CONSTANT Procs

VARIABLES
    there,   \* the distribution has a kubeconfig
    ctx,     \* its context in the user's file: "none", "stale" or "current"
    does,    \* per process: the step it makes next, or how it ended
    snap     \* per process: the context it is about to write

vars == <<there, ctx, does, snap>>

Init == /\ ~there /\ ctx = "none"
        /\ does = [p \in Procs |-> "idle"]
        /\ snap = [p \in Procs |-> "none"]

Goto(p, l) == does' = [does EXCEPT ![p] = l]

Begin(p) ==
    /\ does[p] \in {"idle", "ok"}
    /\ \E l \in {"mergeLoad", "removeLoad"} : Goto(p, l)
    /\ UNCHANGED <<there, ctx, snap>>

(* What a process does besides is its own affair. *)
Rest(p) ==
    /\ does[p] \in {"idle", "ok"}
    /\ \E l \in {"idle", "ok"} : Goto(p, l)
    /\ UNCHANGED <<there, ctx, snap>>

MergeLoad(p) ==
    /\ does[p] = "mergeLoad" /\ Goto(p, "mergeWrite")
    /\ snap' = [snap EXCEPT ![p] = IF there THEN "current" ELSE ctx]
    /\ UNCHANGED <<there, ctx>>

RemoveLoad(p) ==
    /\ does[p] = "removeLoad" /\ Goto(p, "removeWrite")
    /\ snap' = [snap EXCEPT ![p] = "none"]
    /\ UNCHANGED <<there, ctx>>

Writing(p) == does[p] \in {"mergeWrite", "removeWrite"}

Write(p) ==
    /\ Writing(p) /\ Goto(p, "ok")
    /\ ctx' = snap[p]
    /\ snap' = [snap EXCEPT ![p] = "none"]
    /\ UNCHANGED there

Stop(p) ==
    /\ does[p] \notin {"idle", "ok"} /\ Goto(p, "idle")
    /\ ctx' \in IF Writing(p) THEN {ctx, "none"} ELSE {ctx}
    /\ snap' = [snap EXCEPT ![p] = "none"]
    /\ UNCHANGED there

Install == ~there /\ there' /\ UNCHANGED <<ctx, does, snap>>

(* A context of the distribution that is removed leads nowhere. *)
Aged(c) == IF c = "current" THEN "stale" ELSE c

Uninstall == /\ there /\ ~there'
             /\ ctx' = Aged(ctx)
             /\ snap' = [p \in Procs |-> Aged(snap[p])]
             /\ UNCHANGED does

Next == \/ Install \/ Uninstall
        \/ \E p \in Procs : \/ Begin(p) \/ Rest(p) \/ MergeLoad(p) \/ RemoveLoad(p)
                            \/ Write(p) \/ Stop(p)

Spec == Init /\ [][Next]_vars

=============================================================================
