------------------------------ MODULE LogStream ------------------------------
(***************************************************************************)
(* What LaunchAndPipe promises of the log lines of the program it launches:  *)
(* each is shown once, whole, and in the order of writing; when the call     *)
(* returns, all of them were shown, unless the stream was cut. Lines are     *)
(* named by the position they end at.                                        *)
(***************************************************************************)
EXTENDS Naturals

CONSTANT Lines   \* the positions a line may end at, numbers

VARIABLES
    sent,    \* the lines written
    shown,   \* the lines logged
    result   \* "none" while it goes on, then "complete" or "cut"

vars == <<sent, shown, result>>

Init == sent = {} /\ shown = {} /\ result = "none"

Send ==
    /\ result # "complete"
    /\ \E l \in Lines : /\ \A k \in sent : k < l
                        /\ sent' = sent \cup {l}
    /\ UNCHANGED <<shown, result>>

(* The line may be the last one shown, if showing it ends the stream. *)
Show ==
    /\ result = "none"
    /\ \E l \in sent \ shown : /\ \A k \in sent \ shown : l <= k
                               /\ shown' = shown \cup {l}
    /\ result' \in {"none", "cut"}
    /\ UNCHANGED sent

Finish ==
    /\ result = "none"
    /\ \/ result' = "complete" /\ shown = sent
       \/ result' = "cut"
    /\ UNCHANGED <<sent, shown>>

Next == Send \/ Show \/ Finish

Spec == Init /\ [][Next]_vars

=============================================================================
