---------------------------- MODULE RootFsContract ----------------------------
(***************************************************************************)
(* What a command may rely on when it has the root file system archive       *)
(* ensured: a call that meets no failure, and that no other call and no      *)
(* release overtakes, succeeds and leaves an archive. Of one that does, or   *)
(* that is killed, nothing is promised, not even that the archive of before  *)
(* is still there.                                                           *)
(***************************************************************************)

CONSTANT Procs

VARIABLES
    archive,   \* there is an archive
    does,      \* per process: "busy" in a call, or how the last one ended
    hurt       \* processes whose call met a failure or another call

vars == <<archive, does, hurt>>

Busy == {p \in Procs : does[p] = "busy"}

Init == archive = FALSE /\ does = [p \in Procs |-> "idle"] /\ hurt = {}

Begin(p) ==
    /\ p \notin Busy
    /\ does' = [does EXCEPT ![p] = "busy"]
    /\ hurt' = IF Busy = {} THEN hurt \ {p} ELSE hurt \cup Busy \cup {p}
    /\ UNCHANGED archive

(* A call is not over yet. Two calls see each other's archive come and go. *)
Suffer ==
    /\ hurt' \in {hurt \cup Q : Q \in SUBSET Busy}
    /\ \/ UNCHANGED archive
       \/ \E p, q \in Busy : p # q /\ archive' \in BOOLEAN
    /\ UNCHANGED does

End(p) ==
    /\ p \in Busy
    /\ hurt' \in {hurt, hurt \cup {p}}
    /\ archive' \in BOOLEAN
    /\ \E d \in {"ok", "fail", "crashed"} :
        /\ does' = [does EXCEPT ![p] = d]
        /\ p \notin hurt' => d = "ok" /\ archive'

Next == Suffer \/ \E p \in Procs : Begin(p) \/ End(p)

Spec == Init /\ [][Next]_vars

=============================================================================
