---------------------------- MODULE AtomicStore ----------------------------
(***************************************************************************)
(* What a store with transactions promises: entries change only when a     *)
(* transaction commits, which writes everything it has changed and nothing *)
(* else, in one step.  A transaction that is not committed leaves no       *)
(* trace.  Losing entries is a step of its own, which losses gives away.   *)
(***************************************************************************)
EXTENDS States

VARIABLES
  store,
  change,    \* change[c]: what c would write if it committed now
  losses     \* turns over with every loss

vars == <<store, change, losses>>

Init ==
  /\ store = NoEntries
  /\ change = [c \in Contexts |-> NoChange]
  /\ losses = 0

Write(c) ==
  /\ \E k \in Keys, e \in Entries \union {Keep} : change' = [change EXCEPT ![c][k] = e]
  /\ UNCHANGED <<store, losses>>

\* Its changes may stay with the transaction, for a second commit.
Commit(c) ==
  /\ store' = Merge(store, change[c])
  /\ change' \in {change, [change EXCEPT ![c] = NoChange]}
  /\ UNCHANGED losses

Abandon(c) ==
  /\ change' = [change EXCEPT ![c] = NoChange]
  /\ UNCHANGED <<store, losses>>

\* Entries disappear, and transactions with them.
Lose ==
  /\ \E S \in SUBSET Keys : store' = [k \in Keys |-> IF k \in S THEN store[k] ELSE Absent]
  /\ \E C \in SUBSET Contexts :
       change' = [c \in Contexts |-> IF c \in C THEN change[c] ELSE NoChange]
  /\ losses' = 1 - losses

Next == Lose \/ \E c \in Contexts : Write(c) \/ Commit(c) \/ Abandon(c)

Spec == Init /\ [][Next]_vars
=============================================================================
