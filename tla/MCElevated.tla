------------------------------ MODULE MCElevated ------------------------------
(* Instances of Elevated for TLC. *)
EXTENDS Elevated, TLC

ProcSymmetry == Permutations(Procs)

=============================================================================
