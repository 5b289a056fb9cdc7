---------------------------- MODULE MCWorkQueue ----------------------------
(* Instances of WorkQueue for TLC. *)
EXTENDS WorkQueue, TLC

CONSTANTS p1, i1

\* One process cannot read one item.
UnreadableValue == [p \in Processes |-> IF p = p1 THEN {i1} ELSE {}]

\* The other items are interchangeable.
WorkSymmetry == Permutations(Items \ {i1})
=============================================================================
