------------------------------ MODULE MCLogPipe ------------------------------
(* Instances of LogPipe for TLC. *)
EXTENDS LogPipe

=============================================================================
