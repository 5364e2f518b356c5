----------------------------- MODULE MCWorkloads -----------------------------
(* An instance of Workloads for TLC. *)
EXTENDS Workloads, TLC

=============================================================================
