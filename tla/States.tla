------------------------------- MODULE States -------------------------------
(***************************************************************************)
(* What the state providers share: the contexts through which requests     *)
(* reach a named store of entries.  A context belongs to the scope of one  *)
(* request; when the scope is disposed, so is the context, and its name    *)
(* stands for the context of a later request.                              *)
(*                                                                         *)
(* Neither of the two providers here looks at versions: PutAsync and       *)
(* RemoveAsync with a version are the ones without.                        *)
(***************************************************************************)
EXTENDS Integers, FiniteSets, Sequences

CONSTANTS
  Contexts,   \* IStateContext objects, one per request in progress
  Keys,
  Values

Absent == "absent"
Keep == "keep"

ASSUME StatesAssumption ==
  /\ Absent \notin Values
  /\ Keep \notin Values
  /\ IsFiniteSet(Contexts)

Entries == Values \union {Absent}
Stores == [Keys -> Entries]
NoEntries == [k \in Keys |-> Absent]

\* What a transaction does to a store: at each key an entry to write, or nothing.
Changes == [Keys -> Entries \union {Keep}]
NoChange == [k \in Keys |-> Keep]
Merge(s, change) == [k \in Keys |-> IF change[k] = Keep THEN s[k] ELSE change[k]]

Present(s) == {k \in Keys : s[k] # Absent}
=============================================================================
