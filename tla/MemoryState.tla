---------------------------- MODULE MemoryState ----------------------------
(***************************************************************************)
(* The in-memory state provider: InMemoryStateStore with its AsyncLock,    *)
(* InMemoryStateContext and InMemoryStateTransaction.                      *)
(*                                                                         *)
(* Every call takes the store's lock, unless the context has begun a       *)
(* transaction, which holds it until it is disposed.  A context never      *)
(* forgets its transaction: after the transaction is disposed, the calls   *)
(* of the same request go on with it, and with what it last saw, without   *)
(* the lock.  A caller is assumed to commit before it disposes.            *)
(***************************************************************************)
EXTENDS States

VARIABLES
  store,      \* InMemoryStateStore._store
  permits,    \* the count of AsyncLock._semaphore
  waiters,    \* the callers SemaphoreSlim.WaitAsync has queued
  lock,       \* lock[c]: the ActionDisposable that c has been given
  pc,         \* pc[c]: the calls that c has made
  snapshot,   \* snapshot[c]: _snapshot of c's transaction
  todo,       \* todo[c]: keys CommitAsync has yet to copy
  lastLock,   \* InMemoryStateStore._lock, if a transaction has it
  closed,     \* whether the store is disposed
  wipes       \* turns over when the store is emptied

lockVars == <<permits, waiters, lock>>
memVars == <<store, lockVars, pc, snapshot, todo, lastLock, closed, wipes>>

NoContext == "no context"
NoSnapshot == NoChange

MemTypeOK ==
  /\ store \in Stores
  /\ permits \in 0..1
  /\ waiters \in Seq(Contexts)
  /\ lock \in [Contexts -> {"none", "held", "released"}]
  /\ pc \in [Contexts -> {"idle", "calling", "beginning", "open", "committing",
                          "disposed", "ended"}]
  /\ snapshot \in [Contexts -> Stores \union {NoSnapshot}]
  /\ todo \in [Contexts -> SUBSET Keys]
  /\ lastLock \in Contexts \union {NoContext}
  /\ closed \in BOOLEAN
  /\ wipes \in 0..1

MemInit ==
  /\ store = NoEntries
  /\ permits = 1 /\ waiters = <<>>
  /\ lock = [c \in Contexts |-> "none"]
  /\ pc = [c \in Contexts |-> "idle"]
  /\ snapshot = [c \in Contexts |-> NoSnapshot]
  /\ todo = [c \in Contexts |-> {}]
  /\ lastLock = NoContext
  /\ closed = FALSE
  /\ wipes = 0
-----------------------------------------------------------------------------
(***************************************************************************)
(* AsyncLock.                                                              *)
(***************************************************************************)

\* LockAsync: the semaphore's permit, or a place in the queue.
LockAsync(c) ==
  /\ ~closed
  /\ IF permits > 0
     THEN /\ permits' = permits - 1
          /\ lock' = [lock EXCEPT ![c] = "held"]
          /\ UNCHANGED waiters
     ELSE /\ waiters' = Append(waiters, c)
          /\ UNCHANGED <<permits, lock>>

\* Semaphore.Release: to the first waiter, or else back to the count.
PassOn(c) ==
  IF waiters = <<>>
  THEN /\ permits' = permits + 1
       /\ lock' = [lock EXCEPT ![c] = "released"]
       /\ UNCHANGED waiters
  ELSE /\ waiters' = Tail(waiters)
       /\ lock' = [lock EXCEPT ![c] = "released", ![Head(waiters)] = "held"]
       /\ UNCHANGED permits

\* Mutant: a lock may be released any number of times.
ReleaseAgain(c) == IF lock[c] # "none" /\ ~closed THEN PassOn(c) ELSE UNCHANGED lockVars

\* ActionDisposable.Dispose, once only.  A disposed semaphore throws.
Release(c) == IF lock[c] = "held" /\ ~closed THEN PassOn(c) ELSE UNCHANGED lockVars
-----------------------------------------------------------------------------
(***************************************************************************)
(* Calls outside a transaction.                                            *)
(***************************************************************************)

\* GetAsync, PutAsync and RemoveAsync begin by waiting for the lock ...
Call(c) ==
  /\ pc[c] = "idle"
  /\ LockAsync(c)
  /\ pc' = [pc EXCEPT ![c] = "calling"]
  /\ UNCHANGED <<store, snapshot, todo, lastLock, closed, wipes>>

\* ... and end by releasing it.  What PutAsync and RemoveAsync change is a snapshot
\* that nobody commits.
Called(c) ==
  /\ pc[c] = "calling" /\ lock[c] = "held"
  /\ pc' = [pc EXCEPT ![c] = "idle"]
  /\ Release(c)
  /\ lastLock' = NoContext
  /\ UNCHANGED <<store, snapshot, todo, closed, wipes>>

\* Cancellation of a call that waits.
CancelWait(c) ==
  /\ \E i \in DOMAIN waiters :
       /\ waiters[i] = c
       /\ waiters' = SubSeq(waiters, 1, i - 1) \o SubSeq(waiters, i + 1, Len(waiters))
  /\ pc' = [pc EXCEPT ![c] = "idle"]
  /\ UNCHANGED <<store, permits, lock, snapshot, todo, lastLock, closed, wipes>>
-----------------------------------------------------------------------------
(***************************************************************************)
(* Transactions.                                                           *)
(***************************************************************************)

BeginTransaction(c) ==
  /\ pc[c] = "idle"
  /\ LockAsync(c)
  /\ pc' = [pc EXCEPT ![c] = "beginning"]
  /\ UNCHANGED <<store, snapshot, todo, lastLock, closed, wipes>>

\* Mutant: LockAsync is not awaited.
BegunUnlocked(c) ==
  /\ pc[c] = "beginning"
  /\ pc' = [pc EXCEPT ![c] = "open"]
  /\ lastLock' = c
  /\ UNCHANGED <<store, lockVars, snapshot, todo, closed, wipes>>

Begun(c) ==
  /\ pc[c] = "beginning" /\ lock[c] = "held"
  /\ pc' = [pc EXCEPT ![c] = "open"]
  /\ lastLock' = c
  /\ UNCHANGED <<store, lockVars, snapshot, todo, closed, wipes>>

\* What TryGetValue looks a key up in.
View(c) == IF snapshot[c] = NoSnapshot THEN store ELSE snapshot[c]

\* EnsureSnapshot, and Put or (with Absent) Remove.
Change(c, k, e) ==
  /\ pc[c] \in {"open", "disposed"}
  /\ snapshot' = [snapshot EXCEPT ![c] = [View(c) EXCEPT ![k] = e]]
  /\ UNCHANGED <<store, lockVars, pc, todo, lastLock, closed, wipes>>

\* Mutant: the store is not cleared, so removed entries stay.
CommitKeeps(c) ==
  /\ pc[c] = "open" /\ snapshot[c] # NoSnapshot
  /\ pc' = [pc EXCEPT ![c] = "committing"]
  /\ todo' = [todo EXCEPT ![c] = Present(snapshot[c])]
  /\ UNCHANGED <<store, lockVars, snapshot, lastLock, closed, wipes>>

\* CommitAsync clears the store ...
Commit(c) ==
  /\ pc[c] = "open" /\ snapshot[c] # NoSnapshot
  /\ store' = NoEntries
  /\ pc' = [pc EXCEPT ![c] = "committing"]
  /\ todo' = [todo EXCEPT ![c] = Present(snapshot[c])]
  /\ UNCHANGED <<lockVars, snapshot, lastLock, closed, wipes>>

\* ... and copies the snapshot into it.
Copy(c) ==
  /\ pc[c] = "committing"
  /\ \E k \in todo[c] :
       /\ store' = [store EXCEPT ![k] = snapshot[c][k]]
       /\ todo' = [todo EXCEPT ![c] = @ \ {k}]
  /\ UNCHANGED <<lockVars, pc, snapshot, lastLock, closed, wipes>>

Committed(c) ==
  /\ pc[c] = "committing" /\ todo[c] = {}
  /\ pc' = [pc EXCEPT ![c] = "open"]
  /\ UNCHANGED <<store, lockVars, snapshot, todo, lastLock, closed, wipes>>

\* A transaction that has changed nothing has no snapshot: CommitAsync clears the
\* store and then fails on it.
CommitUnchanged(c) ==
  /\ pc[c] = "open" /\ snapshot[c] = NoSnapshot
  /\ store' = NoEntries
  /\ wipes' = 1 - wipes
  /\ UNCHANGED <<lockVars, pc, snapshot, todo, lastLock, closed>>

\* Dispose of the transaction.
Dispose(c) ==
  /\ pc[c] = "open"
  /\ pc' = [pc EXCEPT ![c] = "disposed"]
  /\ Release(c)
  /\ UNCHANGED <<store, snapshot, todo, lastLock, closed, wipes>>

\* Mutant: the context does not dispose its transaction.
EndScopeKeeps(c) ==
  /\ pc[c] \in {"idle", "open", "disposed"}
  /\ pc' = [pc EXCEPT ![c] = "ended"]
  /\ UNCHANGED <<store, lockVars, snapshot, todo, lastLock, closed, wipes>>

\* The request's scope ends: the context disposes its transaction, perhaps again.
EndScope(c) ==
  /\ pc[c] \in {"idle", "open", "disposed"}
  /\ pc' = [pc EXCEPT ![c] = "ended"]
  /\ Release(c)
  /\ UNCHANGED <<store, snapshot, todo, lastLock, closed, wipes>>

\* Another request, with a context of its own.
NewScope(c) ==
  /\ pc[c] = "ended" /\ ~closed
  /\ pc' = [pc EXCEPT ![c] = "idle"]
  /\ lock' = [lock EXCEPT ![c] = "none"]
  /\ snapshot' = [snapshot EXCEPT ![c] = NoSnapshot]
  /\ lastLock' = IF lastLock = c THEN NoContext ELSE lastLock
  /\ UNCHANGED <<store, permits, waiters, todo, closed, wipes>>

\* The factory is disposed when the host shuts down: the store releases the lock
\* that was taken last, if it is not released yet, and clears itself.
Shutdown ==
  /\ ~closed
  /\ closed' = TRUE
  /\ IF lastLock # NoContext THEN Release(lastLock) ELSE UNCHANGED lockVars
  /\ store' = NoEntries
  /\ wipes' = 1 - wipes
  /\ UNCHANGED <<pc, snapshot, todo, lastLock>>
-----------------------------------------------------------------------------
MemStep(c) ==
  \/ Call(c) \/ Called(c) \/ CancelWait(c)
  \/ BeginTransaction(c) \/ Begun(c)
  \/ \E k \in Keys, e \in Entries : Change(c, k, e)
  \/ Commit(c) \/ Copy(c) \/ Committed(c) \/ CommitUnchanged(c)
  \/ Dispose(c) \/ EndScope(c) \/ NewScope(c)

MemNext == Shutdown \/ \E c \in Contexts : MemStep(c)

MemSpec == MemInit /\ [][MemNext]_memVars
-----------------------------------------------------------------------------
(***************************************************************************)
(* Properties.                                                             *)
(***************************************************************************)

Holders == {c \in Contexts : lock[c] = "held"}

\* The lock is never lost nor given twice, although a transaction is disposed by its
\* user, again by the context when the scope ends, and calls are cancelled; nobody
\* queues for a lock that is free, and nobody keeps it who has ended his transaction.
LockIsKept ==
  ~closed => /\ permits + Cardinality(Holders) = 1
             /\ waiters # <<>> => permits = 0
             /\ \A c \in Holders : pc[c] \notin {"idle", "disposed", "ended"}

\* Until the store is disposed, nobody but itself changes what an open transaction
\* reads.
RepeatableReads ==
  [][\A c \in Contexts :
       pc[c] = "open" /\ pc'[c] = "open" /\ snapshot'[c] = snapshot[c] /\ ~closed' =>
         \/ View(c)' = View(c)
         \/ CommitUnchanged(c)]_memVars

\* Who waits for the lock gets it or gives up, unless the store is disposed.
WaitersAreServed ==
  \A c \in Contexts : (\E i \in DOMAIN waiters : waiters[i] = c) ~>
    closed \/ \A i \in DOMAIN waiters : waiters[i] # c

(***************************************************************************)
(* The promise of a store with transactions.  A commit takes effect at     *)
(* once for whoever has the lock, and a transaction without the lock has   *)
(* no changes that could still be committed.                               *)
(***************************************************************************)
MemStore ==
  IF closed THEN NoEntries
  ELSE IF \E c \in Contexts : pc[c] = "committing"
  THEN snapshot[CHOOSE c \in Contexts : pc[c] = "committing"]
  ELSE store

MemChange ==
  [c \in Contexts |->
     IF closed \/ pc[c] \notin {"open", "committing"} \/ snapshot[c] = NoSnapshot
     THEN NoChange
     ELSE [k \in Keys |-> IF snapshot[c][k] = MemStore[k] THEN Keep ELSE snapshot[c][k]]]
=============================================================================
