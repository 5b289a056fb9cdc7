-------------------------- MODULE MCCounterService --------------------------
(* Instances of CounterService for TLC. *)
EXTENDS CounterService, TLC

\* Requests for the same action are interchangeable.
RequestSymmetry ==
  Permutations(Increments) \union Permutations(Decrements) \union Permutations(Reads)
=============================================================================
