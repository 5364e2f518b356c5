----------------------------- MODULE MCKubeConfig -----------------------------
(* An instance of KubeConfig for TLC. *)
EXTENDS KubeConfig, TLC

Symmetry == Permutations(Procs) \cup Permutations(Others)

=============================================================================
