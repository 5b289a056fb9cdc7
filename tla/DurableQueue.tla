---------------------------- MODULE DurableQueue ----------------------------
(***************************************************************************)
(* What posting to a RabbitRPC work queue promises, without processes,     *)
(* channels, buffers or batches: an item that is in the queue stays there  *)
(* until a handler has marked it as done.                                  *)
(***************************************************************************)
CONSTANT Items

VARIABLES
  waiting,    \* items in the queue, those that somebody is working on included
  marked,     \* items some handler has marked as done
  finished    \* items that have left the queue

vars == <<waiting, marked, finished>>

Init == waiting = {} /\ marked = {} /\ finished = {}

Enqueue(i) ==
  /\ i \notin waiting \union finished
  /\ waiting' = waiting \union {i}
  /\ UNCHANGED <<marked, finished>>

\* Handlers mark items, and marks are lost with the processes that made them.
Mark ==
  /\ marked' \in SUBSET Items
  /\ UNCHANGED <<waiting, finished>>

Finish(i) ==
  /\ i \in waiting \intersect marked
  /\ waiting' = waiting \ {i}
  /\ finished' = finished \union {i}
  /\ UNCHANGED marked

Next == Mark \/ \E i \in Items : Enqueue(i) \/ Finish(i)

Spec == Init /\ [][Next]_vars
=============================================================================
