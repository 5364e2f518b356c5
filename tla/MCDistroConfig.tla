---------------------------- MODULE MCDistroConfig ----------------------------
(* An instance of DistroConfig for TLC. *)
EXTENDS DistroConfig, TLC

Symmetry == Permutations(Procs) \cup Permutations(Urls)

=============================================================================
