-------------------------- MODULE MCLifecycleHistory --------------------------
(* Instances of LifecycleHistory for TLC. *)
EXTENDS LifecycleHistory, TLC

ProcSymmetry == Permutations(Procs)

=============================================================================
