----------------------------- MODULE FileState -----------------------------
(***************************************************************************)
(* The file-system state provider: FileSystemStateTransaction on one state *)
(* file, through which the contexts of any number of processes meet.       *)
(*                                                                         *)
(* Two locks guard a commit: the range of the file from 0 to its length,   *)
(* and a lock file that only one handle can have open and that disappears  *)
(* when it is closed.  The range is locked as Windows locks it: no two     *)
(* locks overlap, not even on one handle, other handles can neither read   *)
(* nor write it, and it goes with its handle.  A range of length 0 is no   *)
(* lock at all.                                                            *)
(*                                                                         *)
(* Who fails to lock waits for a FileSystemWatcher to see the lock file    *)
(* disappear.  Its event may come early, late or never, so a waiter tries  *)
(* again at any time or not at all.  Calls outside a transaction are not   *)
(* steps here: GetAsync changes nothing, and what PutAsync and RemoveAsync *)
(* add to a transaction of their own is never committed.                   *)
(***************************************************************************)
EXTENDS States

CONSTANT MaxChanges   \* bound: entries that a transaction changes

Nobody == "nobody"

ASSUME FileStateAssumption == MaxChanges \in Nat /\ Nobody \notin Contexts

VARIABLES
  file,       \* the entries in the state file
  lockFile,   \* who has the lock file open
  at,         \* at[c]: where c's transaction stands
  level,      \* level[c]: its IsolationLevel
  pending,    \* pending[c]: _pendingOperations, all in all
  removes,    \* removes[c]: _pendingRemoves
  span,       \* span[c]: whether the range c is to lock has bytes in it
  range,      \* range[c]: whether c's handle has locked a range with bytes
  content,    \* content[c]: what c's commit is to write
  toWrite,    \* toWrite[c]: keys it has yet to write
  breaks      \* turns over when a commit breaks off in the middle

transactionVars == <<level, pending, removes>>
rangeVars == <<span, range>>
writeVars == <<content, toWrite>>
fileVars == <<file, lockFile, at, transactionVars, rangeVars, writeVars, breaks>>

FileTypeOK ==
  /\ file \in Stores
  /\ lockFile \in Contexts \union {Nobody}
  /\ at \in [Contexts -> {"idle", "locking", "opening", "waiting", "open", "reading",
                        "writing", "unlocking", "closing", "leaked"}]
  /\ level \in [Contexts -> {"ReadCommitted", "Serializable"}]
  /\ pending \in [Contexts -> Changes]
  /\ removes \in [Contexts -> SUBSET Keys]
  /\ span \in [Contexts -> BOOLEAN]
  /\ range \in [Contexts -> BOOLEAN]
  /\ content \in [Contexts -> Stores]
  /\ toWrite \in [Contexts -> SUBSET Keys]
  /\ breaks \in 0..1

FileInit ==
  /\ file = NoEntries
  /\ lockFile = Nobody
  /\ at = [c \in Contexts |-> "idle"]
  /\ level = [c \in Contexts |-> "ReadCommitted"]
  /\ pending = [c \in Contexts |-> NoChange]
  /\ removes = [c \in Contexts |-> {}]
  /\ span = [c \in Contexts |-> FALSE]
  /\ range = [c \in Contexts |-> FALSE]
  /\ content = [c \in Contexts |-> NoEntries]
  /\ toWrite = [c \in Contexts |-> {}]
  /\ breaks = 0

Goto(c, place) == at' = [at EXCEPT ![c] = place]

Discard(c) ==
  /\ pending' = [pending EXCEPT ![c] = NoChange]
  /\ removes' = [removes EXCEPT ![c] = {}]

\* c's handle is closed and c forgotten: the name is free for another context.
End(c) ==
  /\ Goto(c, "idle")
  /\ Discard(c)
  /\ level' = [level EXCEPT ![c] = "ReadCommitted"]
  /\ span' = [span EXCEPT ![c] = FALSE]
  /\ range' = [range EXCEPT ![c] = FALSE]

\* Whether another handle's lock keeps c from reading and writing.
Barred(c) == \E d \in Contexts \ {c} : range[d]
-----------------------------------------------------------------------------
(***************************************************************************)
(* LockRangeAsync.                                                         *)
(***************************************************************************)

\* It is called with the length that the file has now.
LockRange(c) ==
  /\ Goto(c, "locking")
  /\ span' = [span EXCEPT ![c] = Present(file) # {}]

\* dataStream.Lock.
TryRange(c) ==
  /\ at[c] = "locking"
  /\ IF span[c] /\ \E d \in Contexts : range[d]
     THEN Goto(c, "waiting") /\ UNCHANGED range
     ELSE Goto(c, "opening") /\ range' = [range EXCEPT ![c] = @ \/ span[c]]
  /\ UNCHANGED <<file, lockFile, transactionVars, span, writeVars, breaks>>

TakeLockFile(c) ==
  /\ lockFile' = c
  /\ Goto(c, IF level[c] = "Serializable" THEN "open" ELSE "reading")

\* Mutant: the lock file is shared.
TryLockFileShared(c) ==
  /\ at[c] = "opening"
  /\ TakeLockFile(c)
  /\ UNCHANGED <<file, transactionVars, rangeVars, writeVars, breaks>>

\* new FileStream, FileShare.None.  If it fails, the range stays locked.
TryLockFile(c) ==
  /\ at[c] = "opening"
  /\ IF lockFile = Nobody THEN TakeLockFile(c)
     ELSE Goto(c, "waiting") /\ UNCHANGED lockFile
  /\ UNCHANGED <<file, transactionVars, rangeVars, writeVars, breaks>>

\* await tcs.Task.
Wake(c) ==
  /\ at[c] = "waiting"
  /\ Goto(c, "locking")
  /\ UNCHANGED <<file, lockFile, transactionVars, rangeVars, writeVars, breaks>>

\* The token is cancelled.  CreateAsync leaves its handle to the finalizer.
CancelLock(c) ==
  /\ at[c] \in {"locking", "waiting"}
  /\ Goto(c, IF level[c] = "Serializable" THEN "leaked" ELSE "open")
  /\ UNCHANGED <<file, lockFile, transactionVars, rangeVars, writeVars, breaks>>

Finalize(c) ==
  /\ at[c] = "leaked"
  /\ End(c)
  /\ UNCHANGED <<file, lockFile, writeVars, breaks>>

\* The ActionDisposable: first the range ...
Unlock(c) ==
  /\ at[c] = "unlocking"
  /\ range' = [range EXCEPT ![c] = FALSE]
  /\ Goto(c, "closing")
  /\ UNCHANGED <<file, lockFile, transactionVars, span, writeVars, breaks>>

\* ... and then the lock file.
CloseLockFile(c) ==
  /\ at[c] = "closing"
  /\ lockFile' = Nobody
  /\ IF level[c] = "Serializable" THEN End(c)
     ELSE Goto(c, "open") /\ UNCHANGED <<transactionVars, rangeVars>>
  /\ UNCHANGED <<file, writeVars, breaks>>
-----------------------------------------------------------------------------
(***************************************************************************)
(* Transactions.                                                           *)
(***************************************************************************)

\* CreateAsync: a serializable transaction begins by locking.
Begin(c, l) ==
  /\ at[c] = "idle"
  /\ level' = [level EXCEPT ![c] = l]
  /\ IF l = "Serializable" THEN LockRange(c)
     ELSE Goto(c, "open") /\ UNCHANGED span
  /\ UNCHANGED <<file, lockFile, pending, removes, range, writeVars, breaks>>

\* Room for a change of entry k, within the bound.
MayChange(c, k) == Cardinality({j \in Keys : pending[c][j] # Keep} \union {k}) <= MaxChanges

Put(c, k, v) ==
  /\ at[c] = "open" /\ MayChange(c, k)
  /\ pending' = [pending EXCEPT ![c][k] = v]
  /\ UNCHANGED <<file, lockFile, at, level, removes, rangeVars, writeVars, breaks>>

\* Only what is in the file can be removed, and only once: a Put of this transaction
\* does not count, before or after.
Remove(c, k) ==
  /\ at[c] = "open" /\ MayChange(c, k) /\ ~Barred(c)
  /\ k \notin removes[c] /\ file[k] # Absent
  /\ removes' = [removes EXCEPT ![c] = @ \union {k}]
  /\ pending' = [pending EXCEPT ![c][k] = Absent]
  /\ UNCHANGED <<file, lockFile, at, level, rangeVars, writeVars, breaks>>

\* CommitAsync: a transaction without the lock takes it for the commit.
CommitFile(c) ==
  /\ at[c] = "open"
  /\ IF level[c] = "Serializable"
     THEN Goto(c, "reading") /\ UNCHANGED span
     ELSE LockRange(c)
  /\ UNCHANGED <<file, lockFile, transactionVars, range, writeVars, breaks>>

\* Where the commit goes in the end, or on an exception.
Leave(c) ==
  /\ Goto(c, IF level[c] = "Serializable" THEN "open" ELSE "unlocking")
  /\ content' = [content EXCEPT ![c] = NoEntries]
  /\ toWrite' = [toWrite EXCEPT ![c] = {}]

\* ReadAll, the pending operations in order, and SetLength(0).
Read(c) ==
  /\ at[c] = "reading"
  /\ IF Barred(c) THEN Leave(c) /\ UNCHANGED file
     ELSE LET result == Merge(file, pending[c]) IN
          /\ Goto(c, "writing")
          /\ file' = NoEntries
          /\ content' = [content EXCEPT ![c] = result]
          /\ toWrite' = [toWrite EXCEPT ![c] = Present(result)]
  /\ UNCHANGED <<lockFile, transactionVars, rangeVars, breaks>>

WriteEntry(c) ==
  /\ at[c] = "writing" /\ ~Barred(c)
  /\ \E k \in toWrite[c] :
       /\ file' = [file EXCEPT ![k] = content[c][k]]
       /\ toWrite' = [toWrite EXCEPT ![c] = @ \ {k}]
  /\ UNCHANGED <<lockFile, at, transactionVars, rangeVars, content, breaks>>

Flush(c) ==
  /\ at[c] = "writing" /\ toWrite[c] = {}
  /\ Leave(c)
  /\ UNCHANGED <<file, lockFile, transactionVars, rangeVars, breaks>>

\* A value cannot be serialized, or the range is locked by another handle: what is
\* not written is lost.
BreakOff(c) ==
  /\ at[c] = "writing" /\ toWrite[c] # {}
  /\ Leave(c)
  /\ breaks' = 1 - breaks
  /\ UNCHANGED <<file, lockFile, transactionVars, rangeVars>>

\* Dispose, by the user or by the context.  The handle is closed.
DisposeFile(c) ==
  /\ at[c] = "open"
  /\ IF lockFile = c
     THEN Goto(c, "unlocking") /\ Discard(c) /\ UNCHANGED <<level, rangeVars>>
     ELSE End(c)
  /\ UNCHANGED <<file, lockFile, writeVars, breaks>>

\* The process dies: the system closes its handles.
Crash(c) ==
  /\ at[c] # "idle"
  /\ End(c)
  /\ lockFile' = IF lockFile = c THEN Nobody ELSE lockFile
  /\ breaks' = IF at[c] = "writing" THEN 1 - breaks ELSE breaks
  /\ content' = [content EXCEPT ![c] = NoEntries]
  /\ toWrite' = [toWrite EXCEPT ![c] = {}]
  /\ UNCHANGED file
-----------------------------------------------------------------------------
Locking(c) == TryRange(c) \/ TryLockFile(c) \/ Wake(c) \/ CancelLock(c)
Committing(c) == Read(c) \/ WriteEntry(c) \/ Flush(c) \/ BreakOff(c)
Unlocking(c) == Unlock(c) \/ CloseLockFile(c)

FileStep(c) ==
  \/ \E l \in {"ReadCommitted", "Serializable"} : Begin(c, l)
  \/ \E k \in Keys, v \in Values : Put(c, k, v)
  \/ \E k \in Keys : Remove(c, k)
  \/ CommitFile(c) \/ Locking(c) \/ Committing(c) \/ Unlocking(c)
  \/ DisposeFile(c) \/ Crash(c) \/ Finalize(c)

FileNext == \E c \in Contexts : FileStep(c)

FileSpec == FileInit /\ [][FileNext]_fileVars
-----------------------------------------------------------------------------
(***************************************************************************)
(* Properties.                                                             *)
(***************************************************************************)

\* While a serializable transaction is open, nobody but itself changes the file,
\* although its range may have had no bytes to lock and other processes commit,
\* crash and take over the lock.
SerializableIsAlone ==
  [][\A c \in Contexts :
       level[c] = "Serializable" /\ at[c] = "open" /\ at'[c] = "open" => file' = file]_fileVars

\* Neither lock outlives the transaction that has taken it, however it ends.
LocksEnd ==
  \A c \in Contexts : at[c] = "idle" => ~range[c] /\ lockFile # c

(***************************************************************************)
(* The promise of a store with transactions: a commit takes effect when it *)
(* truncates the file, for all those that take the lock.                   *)
(***************************************************************************)
FileStore ==
  IF \E c \in Contexts : at[c] = "writing"
  THEN content[CHOOSE c \in Contexts : at[c] = "writing"]
  ELSE file
=============================================================================
