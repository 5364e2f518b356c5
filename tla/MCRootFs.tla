------------------------------ MODULE MCRootFs ------------------------------
(* Instances of RootFs for TLC. *)
EXTENDS RootFs

=============================================================================
