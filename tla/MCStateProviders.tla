-------------------------- MODULE MCStateProviders --------------------------
(* Instances of StateProviders for TLC. *)
EXTENDS StateProviders
=============================================================================
