-------------------------- MODULE MCDistRepository --------------------------
(* Instances of DistRepository for TLC. *)
EXTENDS DistRepository
=============================================================================
