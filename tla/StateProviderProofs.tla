------------------------ MODULE StateProviderProofs ------------------------
(***************************************************************************)
(* Proofs about the state providers, for every set of contexts, keys and   *)
(* values.                                                                 *)
(***************************************************************************)
EXTENDS StateProviders, FiniteSetTheorems, SequenceTheorems, TLAPS

-----------------------------------------------------------------------------
\* The lock of the in-memory store.

\* A caller that gives up leaves the others in their order.
LEMMA RemoveOne ==
  ASSUME NEW S, NEW w \in Seq(S), NEW i \in 1..Len(w)
  PROVE  LET v == SubSeq(w, 1, i - 1) \o SubSeq(w, i + 1, Len(w)) IN
           /\ v \in Seq(S)
           /\ Len(v) = Len(w) - 1
           /\ \A j \in 1..Len(v) : v[j] = IF j < i THEN w[j] ELSE w[j + 1]
<1> DEFINE s == SubSeq(w, 1, i - 1)
           t == SubSeq(w, i + 1, Len(w))
<1>1. s \in Seq(S) /\ Len(s) = i - 1 /\ \A j \in 1..(i - 1) : s[j] = w[j]
  OBVIOUS
<1>2. t \in Seq(S) /\ Len(t) = Len(w) - i /\ \A j \in 1..(Len(w) - i) : t[j] = w[j + i]
  OBVIOUS
<1> HIDE DEF s, t
<1>3. /\ s \o t \in Seq(S)
      /\ Len(s \o t) = Len(s) + Len(t)
      /\ \A j \in 1..(Len(s) + Len(t)) :
           (s \o t)[j] = IF j <= Len(s) THEN s[j] ELSE t[j - Len(s)]
  BY <1>1, <1>2, ConcatProperties
<1>4. ASSUME NEW j \in 1..(Len(w) - 1)
      PROVE  (s \o t)[j] = IF j < i THEN w[j] ELSE w[j + 1]
  <2>1. CASE j < i
    BY <1>1, <1>2, <1>3, <2>1
  <2>2. CASE j >= i
    <3>1. (s \o t)[j] = t[j - (i - 1)] /\ j - (i - 1) \in 1..(Len(w) - i)
      BY <1>1, <1>2, <1>3, <2>2
    <3> QED
      BY <1>2, <2>2, <3>1
  <2>3. Len(w) \in Nat
    BY LenProperties
  <2>4. j < i \/ j >= i
    BY <2>3
  <2> QED
    BY <2>1, <2>2, <2>4
<1>5. Len(s \o t) = Len(w) - 1
  BY <1>1, <1>2, <1>3
<1> QED
  BY <1>3, <1>4, <1>5 DEF s, t

PCStates == {"idle", "calling", "beginning", "open", "committing", "disposed", "ended"}

LockTypes ==
  /\ permits \in Nat
  /\ waiters \in Seq(Contexts)
  /\ lock \in [Contexts -> {"none", "held", "released"}]
  /\ pc \in [Contexts -> PCStates]
  /\ closed \in BOOLEAN

\* Either the permit is there and nobody waits, or one context has the lock.
OneHolder ==
  \/ permits = 1 /\ waiters = <<>> /\ \A c \in Contexts : lock[c] # "held"
  \/ permits = 0 /\ \E h \in Contexts : \A c \in Contexts : lock[c] = "held" <=> c = h

\* Who waits does so once, in a call that has not gone on.
WaitersWait ==
  \A i \in 1..Len(waiters) :
    /\ pc[waiters[i]] \in {"calling", "beginning"}
    /\ lock[waiters[i]] # "held"
    /\ \A j \in 1..Len(waiters) : waiters[j] = waiters[i] => i = j

HoldersAreBusy ==
  \A c \in Contexts : lock[c] = "held" =>
    pc[c] \in {"calling", "beginning", "open", "committing"}

LockInv == LockTypes /\ (closed \/ (OneHolder /\ WaitersWait /\ HoldersAreBusy))

\* A context that is not waiting takes the lock, or a place in the queue.
LEMMA LockAsyncKeeps ==
  ASSUME LockInv, NEW c \in Contexts, pc[c] = "idle", LockAsync(c),
         NEW s \in {"calling", "beginning"}, pc' = [pc EXCEPT ![c] = s], UNCHANGED closed
  PROVE  LockInv'
<1> USE DEF LockInv, LockTypes, OneHolder, WaitersWait, HoldersAreBusy, PCStates
<1>1. CASE permits > 0
  BY <1>1 DEF LockAsync
<1>2. CASE permits = 0
  <2>1. /\ waiters' = Append(waiters, c)
        /\ UNCHANGED <<permits, lock>>
        /\ ~closed
    BY <1>2 DEF LockAsync
  <2>2. \A i \in 1..Len(waiters) : waiters[i] # c
    BY <2>1
  <2>3. lock[c] # "held"
    BY <2>1
  <2>4. WaitersWait'
    BY <2>1, <2>2, <2>3
  <2>5. OneHolder' /\ HoldersAreBusy'
    BY <1>2, <2>1, <2>3
  <2>6. waiters' \in Seq(Contexts)
    BY <2>1
  <2> QED
    BY <2>1, <2>4, <2>5, <2>6
<1> QED
  BY <1>1, <1>2

\* The holder's release gives the lock to the first waiter or puts the permit back.
LEMMA ReleaseKeeps ==
  ASSUME LockInv, NEW c \in Contexts, Release(c),
         NEW s \in PCStates, pc' = [pc EXCEPT ![c] = s], UNCHANGED closed,
         pc[c] \in {"calling", "beginning"} => lock[c] = "held",
         s \in {"idle", "disposed", "ended"}
  PROVE  LockInv'
<1> USE DEF LockInv, LockTypes, OneHolder, WaitersWait, HoldersAreBusy, PCStates
<1>1. CASE closed
  BY <1>1 DEF Release, lockVars
<1>2. CASE ~closed /\ lock[c] # "held"
  <2>1. UNCHANGED <<permits, waiters, lock>>
    BY <1>2 DEF Release, lockVars
  <2>2. \A i \in 1..Len(waiters) : waiters[i] # c
    BY <1>2
  <2> QED
    BY <1>2, <2>1, <2>2
<1>3. CASE ~closed /\ lock[c] = "held" /\ waiters = <<>>
  BY <1>3 DEF Release, PassOn
<1>4. CASE ~closed /\ lock[c] = "held" /\ waiters # <<>>
  <2> DEFINE h == Head(waiters)
  <2>1. /\ h \in Contexts /\ h # c /\ h = waiters[1] /\ Len(waiters) > 0
        /\ \A i \in 1..Len(waiters) : waiters[i] # c
    BY <1>4
  <2>2. /\ waiters' = Tail(waiters)
        /\ lock' = [lock EXCEPT ![c] = "released", ![h] = "held"]
        /\ permits' = permits
    BY <1>4 DEF Release, PassOn
  <2>3. /\ waiters' \in Seq(Contexts) /\ Len(waiters') = Len(waiters) - 1
        /\ \A i \in 1..Len(waiters') : waiters'[i] = waiters[i + 1]
    BY <2>1, <2>2
  <2> HIDE DEF h
  <2>4. permits = 0 /\ \A d \in Contexts : lock[d] = "held" <=> d = c
    BY <1>4
  <2>5. OneHolder'
    BY <2>1, <2>2, <2>4
  <2>6. WaitersWait'
    <3> SUFFICES ASSUME NEW i \in 1..Len(waiters')
                 PROVE  /\ pc'[waiters'[i]] \in {"calling", "beginning"}
                        /\ lock'[waiters'[i]] # "held"
                        /\ \A j \in 1..Len(waiters') : waiters'[j] = waiters'[i] => i = j
      OBVIOUS
    <3>1. i + 1 \in 1..Len(waiters) /\ 1 \in 1..Len(waiters)
      BY <2>1, <2>3
    <3>2. waiters[i + 1] \in Contexts /\ waiters[i + 1] # c /\ waiters[i + 1] # h
      BY <1>4, <2>1, <3>1
    <3>3. \A j \in 1..Len(waiters') : waiters'[j] = waiters'[i] => i = j
      BY <1>4, <2>3, <3>1
    <3> QED
      BY <1>4, <2>2, <2>3, <3>1, <3>2, <3>3
  <2>7. HoldersAreBusy'
    BY <1>4, <2>1, <2>2
  <2> QED
    BY <2>2, <2>3, <2>5, <2>6, <2>7, <2>1
<1> QED
  BY <1>1, <1>2, <1>3, <1>4

\* Moves that leave the lock alone.
LEMMA OthersKeep ==
  ASSUME LockInv, UNCHANGED <<lockVars, closed>>, pc' \in [Contexts -> PCStates],
         \A c \in Contexts : pc'[c] # pc[c] =>
           /\ pc'[c] \in {"open", "committing"}
           /\ pc[c] \in {"calling", "beginning"} => lock[c] = "held"
  PROVE  LockInv'
BY DEF LockInv, LockTypes, OneHolder, WaitersWait, HoldersAreBusy, lockVars

LEMMA MemStepKeeps ==
  ASSUME LockInv, NEW c \in Contexts, MemStep(c)
  PROVE  LockInv'
<1> USE DEF PCStates
<1>0. pc \in [Contexts -> PCStates] /\ lock \in [Contexts -> {"none", "held", "released"}]
  BY DEF LockInv, LockTypes
<1>1. CASE Call(c) \/ BeginTransaction(c)
  BY <1>1, LockAsyncKeeps DEF Call, BeginTransaction
<1>2. CASE Called(c) \/ Dispose(c) \/ EndScope(c)
  BY <1>2, ReleaseKeeps DEF Called, Dispose, EndScope
<1>3. CASE CancelWait(c)
  <2>1. PICK i \in 1..Len(waiters) :
          /\ waiters[i] = c
          /\ waiters' = SubSeq(waiters, 1, i - 1) \o SubSeq(waiters, i + 1, Len(waiters))
    BY <1>3, LenProperties DEF CancelWait, LockInv, LockTypes
  <2>2. /\ waiters' \in Seq(Contexts) /\ Len(waiters') = Len(waiters) - 1
        /\ \A j \in 1..Len(waiters') :
             waiters'[j] = IF j < i THEN waiters[j] ELSE waiters[j + 1]
    BY <2>1, RemoveOne DEF LockInv, LockTypes
  <2>3. UNCHANGED <<permits, lock, closed>> /\ pc' = [pc EXCEPT ![c] = "idle"]
    BY <1>3 DEF CancelWait
  <2>4. CASE closed
    BY <2>2, <2>3, <2>4 DEF LockInv, LockTypes
  <2>5. CASE ~closed
    <3> USE <2>5 DEF LockInv, LockTypes, OneHolder, WaitersWait, HoldersAreBusy
    <3>1. OneHolder'
      BY <2>1, <2>3
    <3>2. WaitersWait'
      <4> SUFFICES ASSUME NEW j \in 1..Len(waiters')
                   PROVE  /\ pc'[waiters'[j]] \in {"calling", "beginning"}
                          /\ lock'[waiters'[j]] # "held"
                          /\ \A k \in 1..Len(waiters') : waiters'[k] = waiters'[j] => j = k
        OBVIOUS
      <4> DEFINE old(k) == IF k < i THEN k ELSE k + 1
      <4>1. \A k \in 1..Len(waiters') : /\ old(k) \in 1..Len(waiters) /\ old(k) # i
                                        /\ waiters'[k] = waiters[old(k)]
        BY <2>2
      <4>2. \A k \in 1..Len(waiters') : old(k) = old(j) => k = j
        OBVIOUS
      <4> HIDE DEF old
      <4>3. waiters'[j] # c /\ waiters'[j] \in Contexts
        <5>1. old(j) \in 1..Len(waiters) /\ old(j) # i /\ waiters'[j] = waiters[old(j)]
          BY <4>1
        <5>2. waiters[old(j)] # waiters[i] /\ waiters[old(j)] \in Contexts
          BY <5>1
        <5> QED
          BY <2>1, <5>1, <5>2
      <4>4. ASSUME NEW k \in 1..Len(waiters'), waiters'[k] = waiters'[j]
            PROVE  j = k
        <5>1. /\ old(j) \in 1..Len(waiters) /\ old(k) \in 1..Len(waiters)
              /\ waiters[old(k)] = waiters[old(j)]
          BY <4>1, <4>4
        <5>2. old(k) = old(j)
          BY <5>1
        <5> QED
          BY <4>2, <5>2
      <4> QED
        BY <2>3, <4>1, <4>3, <4>4
    <3>3. HoldersAreBusy'
      BY <2>1, <2>3
    <3> QED
      BY <2>2, <2>3, <3>1, <3>2, <3>3
  <2> QED
    BY <2>4, <2>5
<1>4. CASE Begun(c) \/ Commit(c) \/ Committed(c)
  <2>1. /\ \E s \in {"open", "committing"} : pc' = [pc EXCEPT ![c] = s]
        /\ pc[c] = "beginning" => lock[c] = "held"
        /\ pc[c] # "calling"
        /\ UNCHANGED <<lockVars, closed>>
    BY <1>4 DEF Begun, Commit, Committed
  <2> QED
    BY <1>0, <2>1, OthersKeep
<1>5. CASE Copy(c) \/ CommitUnchanged(c) \/ \E k \in Keys, e \in Entries : Change(c, k, e)
  BY <1>0, <1>5, OthersKeep DEF Copy, CommitUnchanged, Change
<1>6. CASE NewScope(c)
  <2>1. /\ pc[c] = "ended" /\ pc' = [pc EXCEPT ![c] = "idle"]
        /\ lock' = [lock EXCEPT ![c] = "none"]
        /\ UNCHANGED <<permits, waiters, closed>> /\ ~closed
    BY <1>6 DEF NewScope
  <2> QED
    BY <2>1 DEF LockInv, LockTypes, OneHolder, WaitersWait, HoldersAreBusy
<1> QED
  BY <1>1, <1>2, <1>3, <1>4, <1>5, <1>6 DEF MemStep

LEMMA LockInvNext == LockInv /\ [Next]_vars => LockInv'
<1> SUFFICES ASSUME LockInv, [Next]_vars PROVE LockInv'
  OBVIOUS
<1>1. ASSUME NEW c \in Contexts, MemStep(c)
      PROVE  LockInv'
  BY <1>1, MemStepKeeps
<1>2. CASE Shutdown
  <2>1. closed' = TRUE /\ pc' = pc
    BY <1>2 DEF Shutdown
  <2>2. \/ UNCHANGED <<permits, waiters, lock>>
        \/ /\ lock[lastLock] = "held" /\ lastLock # NoContext
           /\ PassOn(lastLock)
    BY <1>2 DEF Shutdown, Release, lockVars
  <2> USE DEF LockInv, LockTypes, OneHolder
  <2>3. CASE UNCHANGED <<permits, waiters, lock>>
    BY <2>1, <2>3
  <2>4. CASE PassOn(lastLock) /\ waiters = <<>>
    BY <2>1, <2>4 DEF PassOn
  <2>5. CASE PassOn(lastLock) /\ waiters # <<>>
    BY <2>1, <2>5, HeadTailProperties DEF PassOn
  <2> QED
    BY <2>2, <2>3, <2>4, <2>5
<1>3. CASE UNCHANGED memVars
  BY <1>3 DEF memVars, lockVars, LockInv, LockTypes, OneHolder, WaitersWait, HoldersAreBusy
<1> QED
  BY <1>1, <1>2, <1>3 DEF Next, InMemory, MemNext, vars

LEMMA LockInvariant == Spec => []LockInv
<1>1. Init => LockInv
  <2> SUFFICES ASSUME Init PROVE LockInv
    OBVIOUS
  <2>1. /\ permits = 1 /\ waiters = <<>> /\ closed = FALSE
        /\ lock = [c \in Contexts |-> "none"]
        /\ pc = [c \in Contexts |-> "idle"]
    BY DEF Init, MemInit
  <2>2. <<>> \in Seq(Contexts) /\ Len(<<>>) = 0
    BY EmptySeq
  <2>3. LockTypes
    BY <2>1, <2>2 DEF LockTypes, PCStates
  <2>4. OneHolder /\ HoldersAreBusy
    BY <2>1 DEF OneHolder, HoldersAreBusy
  <2>5. WaitersWait
    BY <2>1, <2>2 DEF WaitersWait
  <2> QED
    BY <2>3, <2>4, <2>5 DEF LockInv
<1> QED
  BY <1>1, LockInvNext, PTL DEF Spec

-----------------------------------------------------------------------------
\* The locks of the file.

FileLockTypes ==
  /\ at \in [Contexts -> {"idle", "locking", "opening", "waiting", "open", "reading",
                         "writing", "unlocking", "closing", "leaked"}]
  /\ level \in [Contexts -> {"ReadCommitted", "Serializable"}]
  /\ range \in [Contexts -> BOOLEAN]

\* The places at which a transaction needs the lock file.
NeedsLockFile(c) ==
  \/ at[c] \in {"reading", "writing", "unlocking", "closing"}
  \/ at[c] = "open" /\ level[c] = "Serializable"

LockFileIsHeld == \A c \in Contexts : lockFile = c <=> NeedsLockFile(c)

DoneIsFree == \A c \in Contexts : at[c] = "idle" => ~range[c]

FileLockInv == FileLockTypes /\ LockFileIsHeld /\ DoneIsFree

LEMMA FileStepKeeps ==
  ASSUME FileLockInv, NEW c \in Contexts, FileStep(c)
  PROVE  FileLockInv'
<1> USE FileStateAssumption
        DEF FileLockInv, FileLockTypes, LockFileIsHeld, DoneIsFree, NeedsLockFile, Goto
<1>1. ASSUME NEW l \in {"ReadCommitted", "Serializable"}, Begin(c, l)
      PROVE  FileLockInv'
  BY <1>1 DEF Begin, LockRange
<1>2. CASE \/ \E k \in Keys, v \in Values : Put(c, k, v)
           \/ \E k \in Keys : Remove(c, k)
  BY <1>2 DEF Put, Remove, rangeVars
<1>3. CASE CommitFile(c)
  BY <1>3 DEF CommitFile, LockRange, transactionVars
<1>4. CASE TryRange(c) \/ Wake(c) \/ CancelLock(c)
  <2>1. CASE TryRange(c)
    <3>1. /\ at[c] = "locking" /\ UNCHANGED <<lockFile, level>>
          /\ \A d \in Contexts \ {c} : at'[d] = at[d] /\ range'[d] = range[d]
          /\ at'[c] \in {"waiting", "opening"}
          /\ at' \in [Contexts -> {at[d] : d \in Contexts} \union {"waiting", "opening"}]
      BY <2>1 DEF TryRange, transactionVars
    <3>2. range' \in [Contexts -> BOOLEAN]
      BY <2>1 DEF TryRange
    <3>3. FileLockTypes'
      BY <3>1, <3>2
    <3>4. LockFileIsHeld' /\ DoneIsFree'
      BY <3>1
    <3> QED
      BY <3>3, <3>4
  <2>2. CASE Wake(c)
    BY <2>2 DEF Wake, transactionVars, rangeVars
  <2>3. CASE CancelLock(c)
    BY <2>3 DEF CancelLock, transactionVars, rangeVars
  <2> QED
    BY <1>4, <2>1, <2>2, <2>3
<1>5. CASE TryLockFile(c)
  BY <1>5 DEF TryLockFile, TakeLockFile, transactionVars, rangeVars
<1>6. CASE Committing(c)
  BY <1>6 DEF Committing, Read, WriteEntry, Flush, BreakOff, Leave, transactionVars, rangeVars
<1>7. CASE Unlocking(c)
  <2>1. CASE Unlock(c)
    BY <2>1 DEF Unlock, transactionVars
  <2>2. CASE CloseLockFile(c) /\ level[c] = "Serializable"
    <3>1. /\ at[c] = "closing" /\ lockFile' = Nobody /\ at' = [at EXCEPT ![c] = "idle"]
          /\ level' = [level EXCEPT ![c] = "ReadCommitted"]
          /\ range' = [range EXCEPT ![c] = FALSE]
      BY <2>2 DEF CloseLockFile, End
    <3> QED
      BY <3>1
  <2>3. CASE CloseLockFile(c) /\ level[c] # "Serializable"
    <3>1. /\ at[c] = "closing" /\ lockFile' = Nobody /\ at' = [at EXCEPT ![c] = "open"]
          /\ UNCHANGED <<level, range>>
      BY <2>3 DEF CloseLockFile, transactionVars, rangeVars
    <3> QED
      BY <2>3, <3>1
  <2> QED
    BY <1>7, <2>1, <2>2, <2>3 DEF Unlocking
<1>8. CASE DisposeFile(c)
  <2>1. CASE lockFile = c
    <3>1. /\ at[c] = "open" /\ at' = [at EXCEPT ![c] = "unlocking"]
          /\ UNCHANGED <<level, range, lockFile>>
      BY <1>8, <2>1 DEF DisposeFile, rangeVars
    <3> QED
      BY <2>1, <3>1
  <2>2. CASE lockFile # c
    <3>1. /\ at[c] = "open" /\ at' = [at EXCEPT ![c] = "idle"] /\ lockFile' = lockFile
          /\ level' = [level EXCEPT ![c] = "ReadCommitted"]
          /\ range' = [range EXCEPT ![c] = FALSE]
      BY <1>8, <2>2 DEF DisposeFile, End
    <3> QED
      BY <2>2, <3>1
  <2> QED
    BY <2>1, <2>2
<1>9. CASE Crash(c) \/ Finalize(c)
  <2>1. /\ at' = [at EXCEPT ![c] = "idle"]
        /\ level' = [level EXCEPT ![c] = "ReadCommitted"]
        /\ range' = [range EXCEPT ![c] = FALSE]
    BY <1>9 DEF Crash, Finalize, End
  <2>2. \A d \in Contexts : lockFile' = d <=> lockFile = d /\ d # c
    <3>1. CASE Crash(c)
      BY <3>1 DEF Crash
    <3>2. CASE Finalize(c)
      <4>1. lockFile' = lockFile /\ at[c] = "leaked"
        BY <3>2 DEF Finalize
      <4> QED
        BY <4>1
    <3> QED
      BY <1>9, <3>1, <3>2
  <2> QED
    BY <2>1, <2>2
<1> QED
  BY <1>1, <1>2, <1>3, <1>4, <1>5, <1>6, <1>7, <1>8, <1>9 DEF FileStep, Locking

LEMMA FileLockInvariant == Spec => []FileLockInv
<1>1. Init => FileLockInv
  BY FileStateAssumption
  DEF Init, FileInit, FileLockInv, FileLockTypes, LockFileIsHeld, DoneIsFree, NeedsLockFile
<1>2. FileLockInv /\ [Next]_vars => FileLockInv'
  <2> SUFFICES ASSUME FileLockInv, [Next]_vars PROVE FileLockInv'
    OBVIOUS
  <2>1. CASE UNCHANGED fileVars
    BY <2>1 DEF fileVars, transactionVars, rangeVars, FileLockInv, FileLockTypes,
                LockFileIsHeld, DoneIsFree, NeedsLockFile
  <2> QED
    BY <2>1, FileStepKeeps DEF Next, InMemory, FileNext, vars
<1> QED
  BY <1>1, <1>2, PTL DEF Spec

\* However many processes meet in a state file, crash, or give up while they wait:
\* nobody writes it while a serializable transaction is open, but itself.
THEOREM SerializableAlone == Spec => SerializableIsAlone
<1> DEFINE Alone(c) ==
      level[c] = "Serializable" /\ at[c] = "open" /\ at'[c] = "open" => file' = file
<1>1. ASSUME FileLockInv, NEW c \in Contexts, NEW d \in Contexts, FileStep(d),
             level[c] = "Serializable", at[c] = "open", at'[c] = "open"
      PROVE  file' = file
  <2>1. CASE Read(d) \/ WriteEntry(d)
    <3>1. lockFile = c /\ lockFile = d
      BY <1>1, <2>1 DEF FileLockInv, LockFileIsHeld, NeedsLockFile, Read, WriteEntry
    <3> QED
      BY <1>1, <2>1, <3>1 DEF Read, WriteEntry
  <2>2. CASE ~(Read(d) \/ WriteEntry(d))
    BY <1>1, <2>2
    DEF FileStep, Begin, Put, Remove, CommitFile, Locking, TryRange, TryLockFile, Wake,
        CancelLock, Committing, Flush, BreakOff, Unlocking, Unlock, CloseLockFile,
        DisposeFile, Crash, Finalize
  <2> QED
    BY <2>1, <2>2
<1>2. FileLockInv /\ [Next]_vars => [\A c \in Contexts : Alone(c)]_fileVars
  BY <1>1 DEF Next, InMemory, FileNext, vars
<1> QED
  BY <1>2, FileLockInvariant, PTL DEF Spec, SerializableIsAlone

-----------------------------------------------------------------------------
\* In every system, however transactions are disposed of, broken off by a crash, and
\* calls cancelled: the lock of the store in memory is never lost nor given twice, until
\* the store is disposed, and the locks of a file end with the transaction.
THEOREM LocksKept == Spec => []LocksAreKept
<1>1. LockInv => LockIsKept
  <2> SUFFICES ASSUME LockInv, ~closed PROVE LockIsKept!2
    BY DEF LockIsKept
  <2>1. permits + Cardinality(Holders) = 1
    <3>1. CASE permits = 1 /\ Holders = {}
      BY <3>1, FS_EmptySet
    <3>2. ASSUME NEW h, permits = 0, Holders = {h}
          PROVE  permits + Cardinality(Holders) = 1
      <4>1. Cardinality({h}) = 1
        BY FS_Singleton
      <4> QED
        BY <3>2, <4>1
    <3>3. \/ permits = 1 /\ Holders = {}
          \/ permits = 0 /\ \E h \in Contexts : Holders = {h}
      BY DEF LockInv, OneHolder, Holders
    <3> QED
      BY <3>1, <3>2, <3>3
  <2> QED
    BY <2>1 DEF LockInv, OneHolder, HoldersAreBusy, Holders
<1>2. FileLockInv => LocksEnd
  BY DEF FileLockInv, LockFileIsHeld, NeedsLockFile, DoneIsFree, LocksEnd
<1> QED
  BY <1>1, <1>2, LockInvariant, FileLockInvariant, PTL DEF LocksAreKept
-----------------------------------------------------------------------------
\* Types.

LEMMA StoreTypes ==
  /\ NoEntries \in Stores /\ NoChange \in Changes
  /\ \A s \in Stores, d \in Changes : Merge(s, d) \in Stores
  /\ \A s \in Stores, k \in Keys, e \in Entries : [s EXCEPT ![k] = e] \in Stores
  /\ \A s : Present(s) \subseteq Keys
BY DEF Stores, Entries, NoEntries, Changes, NoChange, Merge, Present

\* A commit needs a snapshot to copy.
MemTypeInv ==
  /\ MemTypeOK
  /\ \A c \in Contexts : pc[c] = "committing" => snapshot[c] \in Stores

LEMMA MemTypeStep ==
  ASSUME MemTypeInv, LockInv, LockInv', MemNext
  PROVE  MemTypeInv'
<1> USE StoreTypes DEF MemTypeInv, MemTypeOK
<1>1. /\ waiters' \in Seq(Contexts) /\ lock' \in [Contexts -> {"none", "held", "released"}]
      /\ closed' \in BOOLEAN
      /\ pc' \in [Contexts -> {"idle", "calling", "beginning", "open", "committing",
                               "disposed", "ended"}]
  BY DEF LockInv, LockTypes, PCStates
<1>2. permits' \in 0..1
  <2>1. CASE ~closed'
    BY <2>1 DEF LockInv, OneHolder
  <2>2. CASE Shutdown
    BY <2>2 DEF Shutdown, Release, PassOn, lockVars, LockInv, OneHolder
  <2>3. ASSUME NEW c \in Contexts, MemStep(c), closed'
        PROVE  permits' = permits
    <3>1. closed
      BY <2>3 DEF MemStep, Call, Called, CancelWait, BeginTransaction, Begun, Change, Commit,
                  Copy, Committed, CommitUnchanged, Dispose, EndScope, NewScope
    <3> QED
      BY <2>3, <3>1 DEF MemStep, Call, Called, CancelWait, BeginTransaction, Begun, Change,
         Commit, Copy, Committed, CommitUnchanged, Dispose, EndScope, NewScope, LockAsync,
         Release, lockVars
  <2> QED
    BY <2>1, <2>2, <2>3 DEF MemNext
<1>3. CASE Shutdown
  BY <1>1, <1>2, <1>3 DEF Shutdown
<1>4. ASSUME NEW c \in Contexts, MemStep(c)
      PROVE  MemTypeInv'
  <2>1. CASE Call(c) \/ Called(c) \/ CancelWait(c) \/ BeginTransaction(c) \/ Begun(c)
    BY <1>1, <1>2, <2>1 DEF Call, Called, CancelWait, BeginTransaction, Begun
  <2>2. ASSUME NEW k \in Keys, NEW e \in Entries, Change(c, k, e)
        PROVE  MemTypeInv'
    <3>1. [View(c) EXCEPT ![k] = e] \in Stores
      BY DEF View
    <3> QED
      BY <1>1, <1>2, <2>2, <3>1 DEF Change, lockVars
  <2>3. CASE Commit(c)
    BY <1>1, <1>2, <2>3 DEF Commit, lockVars
  <2>4. CASE Copy(c)
    <3>1. PICK k \in todo[c] : /\ store' = [store EXCEPT ![k] = snapshot[c][k]]
                               /\ todo' = [todo EXCEPT ![c] = @ \ {k}]
      BY <2>4 DEF Copy
    <3>2. k \in Keys /\ snapshot[c] \in Stores
      BY <2>4 DEF Copy
    <3>3. store' \in Stores
      BY <3>1, <3>2 DEF Stores
    <3> QED
      BY <1>1, <1>2, <2>4, <3>1, <3>3 DEF Copy, lockVars
  <2>5. CASE Committed(c) \/ CommitUnchanged(c)
    BY <1>1, <1>2, <2>5 DEF Committed, CommitUnchanged, lockVars
  <2>6. CASE Dispose(c) \/ EndScope(c) \/ NewScope(c)
    BY <1>1, <1>2, <2>6 DEF Dispose, EndScope, NewScope
  <2> QED
    BY <1>4, <2>1, <2>2, <2>3, <2>4, <2>5, <2>6 DEF MemStep
<1> QED
  BY <1>3, <1>4 DEF MemNext

LEMMA FileTypeStep ==
  ASSUME FileTypeOK, NEW c \in Contexts, FileStep(c)
  PROVE  FileTypeOK'
<1> USE StoreTypes DEF FileTypeOK, Goto
<1>1. ASSUME NEW l \in {"ReadCommitted", "Serializable"}, Begin(c, l)
      PROVE  FileTypeOK'
  BY <1>1 DEF Begin, LockRange, writeVars
<1>2. ASSUME NEW k \in Keys, NEW e \in Entries, pending' = [pending EXCEPT ![c][k] = e]
      PROVE  pending' \in [Contexts -> Changes]
  <2>1. pending[c] \in Changes
    OBVIOUS
  <2>2. [pending[c] EXCEPT ![k] = e] \in Changes
    BY <2>1 DEF Changes
  <2> QED
    BY <1>2, <2>2
<1>3. ASSUME NEW k \in Keys, NEW v \in Values, Put(c, k, v)
      PROVE  FileTypeOK'
  BY <1>2, <1>3 DEF Put, rangeVars, writeVars, Entries
<1>4. ASSUME NEW k \in Keys, Remove(c, k)
      PROVE  FileTypeOK'
  BY <1>2, <1>4 DEF Remove, rangeVars, writeVars, Entries
<1>5. CASE CommitFile(c)
  BY <1>5 DEF CommitFile, LockRange, transactionVars, writeVars
<1>6. CASE Locking(c)
  BY <1>6 DEF Locking, TryRange, TryLockFile, TakeLockFile, Wake, CancelLock,
              transactionVars, rangeVars, writeVars
<1>7. CASE Read(c)
  <2>1. CASE Barred(c)
    BY <1>7, <2>1 DEF Read, Leave, transactionVars, rangeVars
  <2>2. CASE ~Barred(c)
    <3>1. /\ at' = [at EXCEPT ![c] = "writing"] /\ file' = NoEntries
          /\ content' = [content EXCEPT ![c] = Merge(file, pending[c])]
          /\ toWrite' = [toWrite EXCEPT ![c] = Present(Merge(file, pending[c]))]
          /\ UNCHANGED <<lockFile, transactionVars, rangeVars, breaks>>
      BY <1>7, <2>2 DEF Read
    <3>2. Merge(file, pending[c]) \in Stores
      OBVIOUS
    <3>3. content' \in [Contexts -> Stores] /\ toWrite' \in [Contexts -> SUBSET Keys]
      BY <3>1, <3>2
    <3> QED
      BY <3>1, <3>3 DEF transactionVars, rangeVars
  <2> QED
    BY <2>1, <2>2
<1>8. CASE WriteEntry(c)
  <2>1. PICK k \in toWrite[c] : /\ file' = [file EXCEPT ![k] = content[c][k]]
                                /\ toWrite' = [toWrite EXCEPT ![c] = @ \ {k}]
    BY <1>8 DEF WriteEntry
  <2>2. file' \in Stores /\ toWrite' \in [Contexts -> SUBSET Keys]
    BY <2>1 DEF Stores
  <2> QED
    BY <1>8, <2>2 DEF WriteEntry, transactionVars, rangeVars
<1>9. CASE Flush(c) \/ BreakOff(c)
  <2>1. /\ \E place \in {"open", "unlocking"} : at' = [at EXCEPT ![c] = place]
        /\ content' = [content EXCEPT ![c] = NoEntries]
        /\ toWrite' = [toWrite EXCEPT ![c] = {}]
        /\ breaks' \in {breaks, 1 - breaks}
        /\ UNCHANGED <<file, lockFile, transactionVars, rangeVars>>
    BY <1>9 DEF Flush, BreakOff, Leave
  <2> QED
    BY <2>1 DEF transactionVars, rangeVars
<1>10. CASE Unlocking(c) \/ DisposeFile(c) \/ Finalize(c)
  <2>1. CASE Unlock(c)
    BY <2>1 DEF Unlock, transactionVars, writeVars
  <2>2. CASE CloseLockFile(c)
    <3>1. CASE level[c] = "Serializable"
      <4>1. End(c) /\ lockFile' = Nobody /\ UNCHANGED <<file, writeVars, breaks>>
        BY <2>2, <3>1 DEF CloseLockFile
      <4> QED
        BY <4>1 DEF End, Discard, writeVars
    <3>2. CASE level[c] # "Serializable"
      BY <2>2, <3>2 DEF CloseLockFile, transactionVars, rangeVars, writeVars
    <3> QED
      BY <3>1, <3>2
  <2>3. CASE DisposeFile(c)
    <3>1. CASE lockFile = c
      BY <2>3, <3>1 DEF DisposeFile, Discard, rangeVars, writeVars
    <3>2. CASE lockFile # c
      <4>1. End(c) /\ UNCHANGED <<file, lockFile, writeVars, breaks>>
        BY <2>3, <3>2 DEF DisposeFile
      <4> QED
        BY <4>1 DEF End, Discard, writeVars
    <3> QED
      BY <3>1, <3>2
  <2>4. CASE Finalize(c)
    BY <2>4 DEF Finalize, End, Discard, writeVars
  <2> QED
    BY <1>10, <2>1, <2>2, <2>3, <2>4 DEF Unlocking
<1>11. CASE Crash(c)
  BY <1>11 DEF Crash, End, Discard
<1> QED
  BY <1>1, <1>3, <1>4, <1>5, <1>6, <1>7, <1>8, <1>9, <1>10, <1>11 DEF FileStep, Committing

TypeInv == provider \in {"memory", "file"} /\ MemTypeInv /\ FileTypeOK

LEMMA TypeInvariant == Spec => []TypeInv
<1> USE DEF TypeInv
<1>1. Init => TypeInv
  <2> SUFFICES ASSUME Init PROVE TypeInv
    OBVIOUS
  <2>1. MemTypeInv
    <3>1. <<>> \in Seq(Contexts)
      BY EmptySeq
    <3>2. /\ permits = 1 /\ waiters = <<>> /\ lastLock = NoContext /\ closed = FALSE /\ wipes = 0
          /\ store = NoEntries
          /\ lock = [c \in Contexts |-> "none"] /\ pc = [c \in Contexts |-> "idle"]
          /\ snapshot = [c \in Contexts |-> NoSnapshot] /\ todo = [c \in Contexts |-> {}]
      BY DEF Init, MemInit
    <3>3. snapshot \in [Contexts -> Stores \union {NoSnapshot}]
      BY <3>2
    <3>4. /\ lock \in [Contexts -> {"none", "held", "released"}]
          /\ todo \in [Contexts -> SUBSET Keys]
      BY <3>2
    <3>5. /\ pc \in [Contexts -> {"idle", "calling", "beginning", "open", "committing",
                                  "disposed", "ended"}]
          /\ \A c \in Contexts : pc[c] # "committing"
      BY <3>2
    <3> QED
      <4>1. waiters \in Seq(Contexts)
        BY <3>1, <3>2
      <4>2. /\ permits \in 0..1 /\ lastLock \in Contexts \union {NoContext}
            /\ closed \in BOOLEAN /\ wipes \in 0..1 /\ store \in Stores
        <5>1. permits \in 0..1 /\ wipes \in 0..1
          BY <3>2
        <5>2. store \in Stores
          BY <3>2, StoreTypes
        <5> QED
          BY <3>2, <5>1, <5>2, Zenon
      <4> QED
        BY <3>3, <3>4, <3>5, <4>1, <4>2 DEF MemTypeInv, MemTypeOK
  <2>2. FileTypeOK
    BY StoreTypes DEF Init, FileInit, FileTypeOK
  <2> QED
    BY <2>1, <2>2 DEF Init
<1>2. TypeInv /\ LockInv /\ LockInv' /\ [Next]_vars => TypeInv'
  <2> SUFFICES ASSUME TypeInv, LockInv, LockInv', [Next]_vars PROVE TypeInv'
    OBVIOUS
  <2>1. CASE InMemory(MemNext)
    <3>1. FileTypeOK'
      BY <2>1 DEF InMemory, fileVars, transactionVars, rangeVars, writeVars, FileTypeOK
    <3> QED
      BY <2>1, <3>1, MemTypeStep DEF InMemory
  <2>2. CASE FileNext /\ UNCHANGED <<provider, memVars>>
    <3>1. MemTypeInv'
      BY <2>2 DEF memVars, lockVars, MemTypeInv, MemTypeOK
    <3> QED
      BY <2>2, <3>1, FileTypeStep DEF FileNext
  <2>3. CASE UNCHANGED vars
    BY <2>3 DEF vars, memVars, lockVars, MemTypeInv, MemTypeOK, fileVars, transactionVars,
                rangeVars, writeVars, FileTypeOK
  <2> QED
    BY <2>1, <2>2, <2>3 DEF Next
<1> QED
  BY <1>1, <1>2, LockInvariant, PTL DEF Spec

\* Whatever happens to commits halfway, an entry of a store is a value or absent, and
\* the semaphore has one permit at most.
THEOREM TypeCorrect == Spec => []TypeOK
<1>1. TypeInv => TypeOK
  BY DEF TypeInv, TypeOK, MemTypeInv
<1> QED
  BY <1>1, TypeInvariant, PTL

-----------------------------------------------------------------------------
(***************************************************************************)
(* Transactions in memory: what the lock is good for.                      *)
(***************************************************************************)

OpenHasLock == \A c \in Contexts : pc[c] \in {"open", "committing"} => lock[c] = "held"

\* A commit has copied what is not to do any more, and nothing else is in the store.
Copying ==
  \A c \in Contexts : pc[c] = "committing" =>
    store = [k \in Keys |-> IF k \in todo[c] THEN Absent ELSE snapshot[c][k]]

Unchanged == \A c \in Contexts :
  pc[c] \in {"idle", "calling", "beginning"} => snapshot[c] = NoSnapshot

TransactionInv == closed \/ (OpenHasLock /\ Copying /\ Unchanged)

\* Only who has the lock is in a transaction.
LEMMA OneTransaction ==
  ASSUME LockInv, TransactionInv, ~closed, NEW c \in Contexts, NEW d \in Contexts,
         pc[c] \in {"open", "committing"}, pc[d] \in {"open", "committing"}
  PROVE  c = d
BY DEF LockInv, OneHolder, TransactionInv, OpenHasLock

LEMMA OpenHasLockStep ==
  ASSUME LockInv, TransactionInv, MemNext, ~closed'
  PROVE  OpenHasLock'
<1>0. /\ ~closed /\ OpenHasLock
      /\ pc \in [Contexts -> PCStates] /\ lock \in [Contexts -> {"none", "held", "released"}]
  <2>1. ~closed
    BY DEF MemNext, MemStep, Shutdown, Call, Called, CancelWait, BeginTransaction, Begun,
           Change, Commit, Copy, Committed, CommitUnchanged, Dispose, EndScope, NewScope
  <2> QED
    BY <2>1 DEF TransactionInv, LockInv, LockTypes
<1> USE <1>0 DEF OpenHasLock
<1>1. PICK c \in Contexts : MemStep(c)
  BY DEF MemNext, Shutdown
<1>2. ASSUME \A d \in Contexts \ {c} : lock[d] = "held" => lock'[d] = "held",
             NEW s \in {"calling", "beginning", "idle", "disposed", "ended"},
             pc' = [pc EXCEPT ![c] = s]
      PROVE  OpenHasLock'
  BY <1>2
<1>3. ASSUME Release(c)
      PROVE  \A d \in Contexts \ {c} : lock[d] = "held" => lock'[d] = "held"
  <2>1. CASE lock' = lock
    BY <2>1
  <2>2. CASE lock' = [lock EXCEPT ![c] = "released"]
    BY <2>2
  <2>3. CASE lock' = [lock EXCEPT ![c] = "released", ![Head(waiters)] = "held"]
    BY <2>3
  <2> QED
    BY <1>3, <2>1, <2>2, <2>3 DEF Release, PassOn, lockVars
<1>4. CASE Call(c) \/ BeginTransaction(c)
  <2>1. \A d \in Contexts \ {c} : lock[d] = "held" => lock'[d] = "held"
    BY <1>4 DEF Call, BeginTransaction, LockAsync
  <2>2. pc' = [pc EXCEPT ![c] = "calling"] \/ pc' = [pc EXCEPT ![c] = "beginning"]
    BY <1>4 DEF Call, BeginTransaction
  <2> QED
    BY <1>2, <2>1, <2>2
<1>5. CASE Called(c) \/ Dispose(c) \/ EndScope(c)
  <2>1. \/ pc' = [pc EXCEPT ![c] = "idle"] \/ pc' = [pc EXCEPT ![c] = "disposed"]
        \/ pc' = [pc EXCEPT ![c] = "ended"]
    BY <1>5 DEF Called, Dispose, EndScope
  <2>2. Release(c)
    BY <1>5 DEF Called, Dispose, EndScope
  <2> QED
    BY <1>2, <1>3, <2>1, <2>2
<1>6. CASE CancelWait(c)
  BY <1>2, <1>6 DEF CancelWait
<1>7. CASE NewScope(c)
  BY <1>2, <1>7 DEF NewScope
<1>8. CASE Begun(c) \/ Commit(c) \/ Committed(c)
  BY <1>8 DEF Begun, Commit, Committed, lockVars
<1>9. CASE Copy(c) \/ CommitUnchanged(c) \/ \E k \in Keys, e \in Entries : Change(c, k, e)
  BY <1>9 DEF Copy, CommitUnchanged, Change, lockVars
<1> QED
  BY <1>1, <1>4, <1>5, <1>6, <1>7, <1>8, <1>9 DEF MemStep

\* While a commit copies, nobody else comes near the store.
LEMMA CopyingStep ==
  ASSUME LockInv, TransactionInv, MemTypeInv, MemNext, ~closed'
  PROVE  Copying'
<1>0. /\ ~closed /\ Copying /\ MemTypeOK
  <2>1. ~closed
    BY DEF MemNext, MemStep, Shutdown, Call, Called, CancelWait, BeginTransaction, Begun,
           Change, Commit, Copy, Committed, CommitUnchanged, Dispose, EndScope, NewScope
  <2> QED
    BY <2>1 DEF TransactionInv, MemTypeInv
<1>1. PICK c \in Contexts : MemStep(c)
  BY DEF MemNext, Shutdown
<1>2. SUFFICES ASSUME NEW d \in Contexts, pc'[d] = "committing"
               PROVE  store' = [k \in Keys |-> IF k \in todo'[d] THEN Absent
                                               ELSE snapshot'[d][k]]
  BY DEF Copying
<1>3. CASE Commit(c)
  <2>1. d = c
    <3>1. CASE pc[d] = "committing"
      BY <1>0, <1>3, <3>1, OneTransaction DEF Commit
    <3>2. CASE pc[d] # "committing"
      BY <1>0, <1>2, <1>3, <3>2 DEF Commit, MemTypeOK
    <3> QED
      BY <3>1, <3>2
  <2>2. /\ store' = NoEntries /\ todo'[d] = Present(snapshot[d])
        /\ snapshot' = snapshot
    BY <1>0, <1>3, <2>1 DEF Commit, MemTypeOK
  <2> QED
    BY <2>2 DEF NoEntries, Present
<1>4. CASE Copy(c)
  <2>1. d = c /\ pc[c] = "committing" /\ snapshot' = snapshot
    <3>1. pc' = pc /\ pc[c] = "committing" /\ snapshot' = snapshot
      BY <1>4 DEF Copy
    <3> QED
      BY <1>0, <1>2, <3>1, OneTransaction
  <2>2. PICK k \in todo[c] : /\ store' = [store EXCEPT ![k] = snapshot[c][k]]
                             /\ todo' = [todo EXCEPT ![c] = @ \ {k}]
    BY <1>4 DEF Copy
  <2>3. store = [j \in Keys |-> IF j \in todo[c] THEN Absent ELSE snapshot[c][j]]
    BY <1>0, <2>1 DEF Copying
  <2>4. todo'[c] = todo[c] \ {k} /\ k \in Keys
    BY <1>0, <2>2 DEF MemTypeOK
  <2>5. store' = [j \in Keys |-> IF j \in todo[c] \ {k} THEN Absent ELSE snapshot[c][j]]
    BY <2>2, <2>3, <2>4
  <2> QED
    BY <2>1, <2>4, <2>5
<1>5. CASE ~(Commit(c) \/ Copy(c))
  <2>1. pc[d] = "committing"
    BY <1>0, <1>1, <1>2, <1>5
    DEF MemStep, Call, Called, CancelWait, BeginTransaction, Begun, Change, Committed,
        CommitUnchanged, Dispose, EndScope, NewScope, MemTypeOK
  <2>2. ~CommitUnchanged(c)
    BY <1>0, <2>1, OneTransaction DEF CommitUnchanged
  <2>3. store' = store /\ todo' = todo /\ snapshot'[d] = snapshot[d]
    <3>1. CASE \E k \in Keys, e \in Entries : Change(c, k, e)
      <4>1. c # d
        BY <2>1, <3>1 DEF Change
      <4> QED
        BY <1>0, <3>1, <4>1 DEF Change, MemTypeOK
    <3>2. CASE NewScope(c)
      <4>1. c # d
        BY <2>1, <3>2 DEF NewScope
      <4> QED
        BY <1>0, <3>2, <4>1 DEF NewScope, MemTypeOK
    <3> QED
      BY <1>1, <1>5, <2>2, <3>1, <3>2
      DEF MemStep, Call, Called, CancelWait, BeginTransaction, Begun, Committed,
          Dispose, EndScope
  <2> QED
    BY <1>0, <2>1, <2>3 DEF Copying
<1> QED
  BY <1>3, <1>4, <1>5

LEMMA UnchangedStep ==
  ASSUME LockInv, TransactionInv, MemTypeInv, MemNext, ~closed'
  PROVE  Unchanged'
<1>0. ~closed /\ Unchanged /\ MemTypeOK
  <2>1. ~closed
    BY DEF MemNext, MemStep, Shutdown, Call, Called, CancelWait, BeginTransaction, Begun,
           Change, Commit, Copy, Committed, CommitUnchanged, Dispose, EndScope, NewScope
  <2> QED
    BY <2>1 DEF TransactionInv, MemTypeInv
<1> USE <1>0 DEF Unchanged, MemTypeOK
<1>1. CASE Shutdown
  BY <1>1 DEF Shutdown
<1>2. ASSUME NEW c \in Contexts, NewScope(c) PROVE Unchanged'
  BY <1>2 DEF NewScope
<1>3. ASSUME NEW c \in Contexts, NEW k \in Keys, NEW e \in Entries, Change(c, k, e)
      PROVE  Unchanged'
  BY <1>3 DEF Change
<1>4. ASSUME NEW c \in Contexts, Call(c) \/ Called(c) \/ CancelWait(c) \/ BeginTransaction(c)
      PROVE  Unchanged'
  <2>1. pc[c] \in {"idle", "calling", "beginning"}
    <3>1. CASE CancelWait(c)
      BY <3>1, LenProperties DEF CancelWait, LockInv, WaitersWait
    <3> QED
      BY <1>4, <3>1 DEF Call, Called, BeginTransaction
  <2> QED
    BY <1>4, <2>1 DEF Call, Called, CancelWait, BeginTransaction
<1>5. ASSUME NEW c \in Contexts, Begun(c) \/ Commit(c) \/ Copy(c) \/ Committed(c)
                                   \/ CommitUnchanged(c) \/ Dispose(c) \/ EndScope(c)
      PROVE  Unchanged'
  BY <1>5 DEF Begun, Commit, Copy, Committed, CommitUnchanged, Dispose, EndScope
<1> QED
  BY <1>1, <1>2, <1>3, <1>4, <1>5 DEF MemNext, MemStep

LEMMA TransactionInvStep ==
  ASSUME LockInv, TransactionInv, TypeInv, [Next]_vars
  PROVE  TransactionInv'
<1>1. CASE MemNext
  BY <1>1, OpenHasLockStep, CopyingStep, UnchangedStep DEF TransactionInv, TypeInv
<1>2. CASE UNCHANGED memVars
  BY <1>2 DEF memVars, lockVars, TransactionInv, OpenHasLock, Copying, Unchanged
<1> QED
  BY <1>1, <1>2 DEF Next, InMemory, vars

LEMMA TransactionInvariant == Spec => []TransactionInv
<1>1. Init => TransactionInv
  BY DEF Init, MemInit, TransactionInv, OpenHasLock, Copying, Unchanged
<1> QED
  BY <1>1, TransactionInvStep, LockInvariant, TypeInvariant, PTL DEF Spec

\* In every system, until the store is disposed: what a transaction in memory has read
\* it reads again, whatever other contexts call, commit, cancel or dispose of.
THEOREM ReadsAreRepeatable == Spec => RepeatableReads
<1> DEFINE Repeats(c) ==
      pc[c] = "open" /\ pc'[c] = "open" /\ snapshot'[c] = snapshot[c] /\ ~closed' =>
        \/ View(c)' = View(c)
        \/ CommitUnchanged(c)
<1>1. ASSUME LockInv, TransactionInv, MemTypeInv, NEW c \in Contexts, MemNext,
             pc[c] = "open", pc'[c] = "open", snapshot'[c] = snapshot[c], ~closed',
             ~CommitUnchanged(c)
      PROVE  View(c)' = View(c)
  <2>1. PICK d \in Contexts : MemStep(d)
    BY <1>1 DEF MemNext, Shutdown
  <2>2. ~closed
    BY <1>1, <2>1
    DEF MemStep, Call, Called, CancelWait, BeginTransaction, Begun, Change, Commit, Copy,
        Committed, CommitUnchanged, Dispose, EndScope, NewScope
  <2>3. ~(Commit(d) \/ Copy(d) \/ CommitUnchanged(d))
    <3>1. ASSUME Commit(d) \/ Copy(d) \/ CommitUnchanged(d) PROVE FALSE
      <4>1. d = c
        BY <1>1, <2>2, <3>1, OneTransaction DEF Commit, Copy, CommitUnchanged
      <4> QED
        BY <1>1, <3>1, <4>1 DEF Commit, Copy, MemTypeInv, MemTypeOK
    <3> QED
      BY <3>1
  <2>4. store' = store
    BY <2>1, <2>3
    DEF MemStep, Call, Called, CancelWait, BeginTransaction, Begun, Change, Committed,
        Dispose, EndScope, NewScope
  <2> QED
    BY <1>1, <2>4 DEF View
<1>2. ASSUME LockInv, TransactionInv, TypeInv, [Next]_vars
      PROVE  [\A c \in Contexts : Repeats(c)]_memVars
  <2>1. MemNext \/ UNCHANGED memVars
    BY <1>2 DEF Next, InMemory, vars
  <2> QED
    BY <1>1, <1>2, <2>1 DEF TypeInv
<1> QED
  BY <1>2, LockInvariant, TransactionInvariant, TypeInvariant, PTL DEF Spec, RepeatableReads

-----------------------------------------------------------------------------
(***************************************************************************)
(* The provider in memory implements AtomicStore.                          *)
(***************************************************************************)

\* What would still change a store s so that it becomes t.
Diff(s, t) ==
  IF t = NoSnapshot THEN NoChange
  ELSE [k \in Keys |-> IF t[k] = s[k] THEN Keep ELSE t[k]]

NoChanges == [c \in Contexts |-> NoChange]

InTransaction(c) == pc[c] \in {"open", "committing"}

\* The abstract store as whoever is in a transaction, or nobody, leaves it.
MemMapped ==
  /\ closed => MemStore = NoEntries /\ MemChange = NoChanges
  /\ ~closed /\ (\A c \in Contexts : ~InTransaction(c)) =>
       MemStore = store /\ MemChange = NoChanges
  /\ \A c \in Contexts : ~closed /\ pc[c] = "open" =>
       /\ MemStore = store
       /\ MemChange = [NoChanges EXCEPT ![c] = Diff(store, snapshot[c])]
  /\ \A c \in Contexts : ~closed /\ pc[c] = "committing" =>
       MemStore = snapshot[c] /\ MemChange = NoChanges

LEMMA MemMapping == LockInv /\ TransactionInv /\ MemTypeInv => MemMapped
<1> SUFFICES ASSUME LockInv, TransactionInv, MemTypeInv PROVE MemMapped
  OBVIOUS
<1>1. closed => MemStore = NoEntries /\ MemChange = NoChanges
  BY DEF MemStore, MemChange, NoChanges
<1>2. ASSUME ~closed, \A c \in Contexts : ~InTransaction(c)
      PROVE  MemStore = store /\ MemChange = NoChanges
  BY <1>2 DEF MemStore, MemChange, NoChanges, InTransaction
<1>3. ASSUME NEW c \in Contexts, ~closed, InTransaction(c)
      PROVE  \A d \in Contexts \ {c} : ~InTransaction(d)
  BY <1>3, OneTransaction DEF InTransaction
<1>4. ASSUME NEW c \in Contexts, ~closed, pc[c] = "open"
      PROVE  /\ MemStore = store
             /\ MemChange = [NoChanges EXCEPT ![c] = Diff(store, snapshot[c])]
  <2>1. \A d \in Contexts \ {c} : ~InTransaction(d)
    BY <1>3, <1>4 DEF InTransaction
  <2>2. MemStore = store
    BY <1>4, <2>1 DEF MemStore, InTransaction
  <2>3. MemChange = [d \in Contexts |-> IF d = c THEN Diff(store, snapshot[c]) ELSE NoChange]
    BY <1>4, <2>1, <2>2 DEF MemChange, InTransaction, Diff
  <2> QED
    BY <2>2, <2>3 DEF NoChanges
<1>5. ASSUME NEW c \in Contexts, ~closed, pc[c] = "committing"
      PROVE  MemStore = snapshot[c] /\ MemChange = NoChanges
  <2>1. \A d \in Contexts : d = c \/ ~InTransaction(d)
    BY <1>3, <1>5 DEF InTransaction
  <2>2. MemStore = snapshot[c]
    BY <1>5, <2>1 DEF MemStore, InTransaction
  <2>3. [k \in Keys |-> IF snapshot[c][k] = MemStore[k] THEN Keep ELSE snapshot[c][k]] = NoChange
    BY <2>2 DEF NoChange
  <2>4. MemChange = NoChanges
    BY <1>5, <2>1, <2>3 DEF MemChange, InTransaction, NoChanges
  <2> QED
    BY <2>2, <2>4
<1> QED
  BY <1>1, <1>2, <1>4, <1>5 DEF MemMapped

LEMMA MemMappingNext == (LockInv /\ TransactionInv /\ MemTypeInv)' => MemMapped'
  BY MemMapping, PTL

Memory == INSTANCE AtomicStore WITH
  store <- MemStore, change <- MemChange, losses <- wipes

\* Steps outside transactions, and after the end, leave no trace.
LEMMA MemStutter ==
  ASSUME MemMapped, MemMapped', closed' = closed,
         closed \/ store' = store,
         closed \/ \A d \in Contexts : /\ InTransaction(d)' <=> InTransaction(d)
                                       /\ InTransaction(d) => pc'[d] = pc[d]
                                                              /\ snapshot'[d] = snapshot[d]
  PROVE  MemStore' = MemStore /\ MemChange' = MemChange
<1>1. NoChanges' = NoChanges
  BY DEF NoChanges, NoChange
<1>2. CASE closed
  BY <1>1, <1>2 DEF MemMapped
<1>3. CASE ~closed /\ \A c \in Contexts : ~InTransaction(c)
  BY <1>1, <1>3 DEF MemMapped
<1>4. ASSUME NEW c \in Contexts, ~closed, pc[c] = "open"
      PROVE  MemStore' = MemStore /\ MemChange' = MemChange
  <2>1. pc'[c] = "open" /\ snapshot'[c] = snapshot[c] /\ store' = store /\ ~closed'
    BY <1>4 DEF InTransaction
  <2>2. /\ MemStore = store
        /\ MemChange = [NoChanges EXCEPT ![c] = Diff(store, snapshot[c])]
    BY <1>4 DEF MemMapped
  <2>3. /\ MemStore' = store'
        /\ MemChange' = [NoChanges' EXCEPT ![c] = Diff(store, snapshot[c])']
    BY <2>1 DEF MemMapped
  <2>4. Diff(store, snapshot[c])' = Diff(store, snapshot[c])
    BY <2>1 DEF Diff
  <2> QED
    BY <1>1, <2>1, <2>2, <2>3, <2>4
<1>5. ASSUME NEW c \in Contexts, ~closed, pc[c] = "committing"
      PROVE  MemStore' = MemStore /\ MemChange' = MemChange
  <2>1. pc'[c] = "committing" /\ snapshot'[c] = snapshot[c] /\ ~closed'
    BY <1>5 DEF InTransaction
  <2>2. MemStore = snapshot[c] /\ MemChange = NoChanges
    BY <1>5 DEF MemMapped
  <2>3. MemStore' = snapshot'[c] /\ MemChange' = NoChanges'
    BY <2>1 DEF MemMapped
  <2> QED
    BY <1>1, <2>1, <2>2, <2>3
<1> QED
  BY <1>2, <1>3, <1>4, <1>5 DEF InTransaction

\* What the invariants say of the states before and after a step.
MemFacts == LockInv /\ TransactionInv /\ MemTypeInv /\ MemMapped

LEMMA DiffTypes ==
  /\ \A s \in Stores, t \in Stores \union {NoSnapshot} : Diff(s, t) \in Changes
  /\ \A s \in Stores, t \in Stores : t # NoSnapshot => Merge(s, Diff(s, t)) = t
  /\ \A s : Diff(s, s) = NoChange
  /\ NoChanges \in [Contexts -> Changes] /\ NoChanges' = NoChanges
<1>1. ASSUME NEW s \in Stores, NEW t \in Stores \union {NoSnapshot}
      PROVE  Diff(s, t) \in Changes
  BY DEF Diff, Changes, NoChange, NoSnapshot, Stores
<1>2. ASSUME NEW s \in Stores, NEW t \in Stores, t # NoSnapshot
      PROVE  Merge(s, Diff(s, t)) = t
  <2>1. \A k \in Keys : t[k] # Keep
    BY StatesAssumption DEF Stores, Entries, Keep, Absent
  <2>2. Diff(s, t) = [k \in Keys |-> IF t[k] = s[k] THEN Keep ELSE t[k]]
    BY <1>2 DEF Diff
  <2>3. Merge(s, Diff(s, t)) = [k \in Keys |-> t[k]]
    BY <2>1, <2>2 DEF Merge
  <2> QED
    BY <2>3 DEF Stores
<1>3. ASSUME NEW s PROVE Diff(s, s) = NoChange
  BY DEF Diff, NoChange
<1>4. NoChanges \in [Contexts -> Changes] /\ NoChanges' = NoChanges
  BY StoreTypes DEF NoChanges, NoChange
<1> QED
  BY <1>1, <1>2, <1>3, <1>4

\* A change inside a transaction is a write of the abstract store.
LEMMA ChangeWrites ==
  ASSUME MemFacts, MemFacts', NEW c \in Contexts, NEW k \in Keys, NEW e \in Entries,
         Change(c, k, e), ~closed, pc[c] = "open"
  PROVE  Memory!Write(c)
<1>0. MemTypeOK /\ snapshot[c] \in Stores \union {NoSnapshot} /\ store \in Stores
  BY DEF MemFacts, MemTypeInv, MemTypeOK
<1>1. /\ pc' = pc /\ store' = store /\ closed' = closed /\ wipes' = wipes
      /\ snapshot'[c] = [View(c) EXCEPT ![k] = e]
  BY <1>0 DEF Change, MemTypeOK
<1>2. View(c) \in Stores
  BY <1>0 DEF View
<1>3. snapshot'[c] \in Stores /\ snapshot'[c][k] = e
  BY <1>1, <1>2 DEF Stores
<1>4. snapshot'[c] # NoSnapshot
  <2>1. e # Keep
    BY StatesAssumption DEF Entries, Keep, Absent
  <2> QED
    BY <1>3, <2>1 DEF NoSnapshot, NoChange
<1> DEFINE f == IF e = store[k] THEN Keep ELSE e
<1>5. Diff(store, snapshot[c])' = [Diff(store, snapshot[c]) EXCEPT ![k] = f]
  <2>1. Diff(store, snapshot[c])' =
          [j \in Keys |-> IF snapshot'[c][j] = store[j] THEN Keep ELSE snapshot'[c][j]]
    BY <1>1, <1>4 DEF Diff, NoSnapshot, NoChange
  <2>2. \A j \in Keys : snapshot'[c][j] = IF j = k THEN e ELSE View(c)[j]
    BY <1>1, <1>2 DEF Stores
  <2>3. Diff(store, snapshot[c]) =
          [j \in Keys |-> IF View(c)[j] = store[j] THEN Keep ELSE View(c)[j]]
    BY DEF Diff, View, NoChange
  <2> QED
    BY <2>1, <2>2, <2>3
<1>6. /\ MemStore = store
      /\ MemChange = [NoChanges EXCEPT ![c] = Diff(store, snapshot[c])]
  BY DEF MemFacts, MemMapped
<1>7. /\ MemStore' = store'
      /\ MemChange' = [NoChanges EXCEPT ![c] = Diff(store, snapshot[c])']
  BY <1>1, DiffTypes DEF MemFacts, MemMapped
<1>8. MemChange' = [MemChange EXCEPT ![c][k] = f]
  <2>1. MemChange[c] = Diff(store, snapshot[c])
    BY <1>6, DiffTypes
  <2> HIDE DEF f
  <2>2. [MemChange EXCEPT ![c][k] = f] = [MemChange EXCEPT ![c] = [MemChange[c] EXCEPT ![k] = f]]
    OBVIOUS
  <2>3. MemChange' = [NoChanges EXCEPT ![c] = [Diff(store, snapshot[c]) EXCEPT ![k] = f]]
    BY <1>5, <1>7
  <2> QED
    BY <1>6, <2>1, <2>2, <2>3, DiffTypes
<1>9. f \in Entries \union {Keep}
  OBVIOUS
<1> QED
  <2>1. MemStore' = MemStore /\ wipes' = wipes
    BY <1>1, <1>6, <1>7
  <2> HIDE DEF f
  <2> QED
    BY <1>8, <1>9, <2>1
       DEF Memory!Write, Memory!Entries, Memory!Keep, Memory!Absent, Entries, Keep, Absent

LEMMA MemLoses ==
  ASSUME MemStore' = NoEntries, MemChange' = NoChanges, wipes' = 1 - wipes
  PROVE  Memory!Next
<1>1. \E S \in SUBSET Keys :
        MemStore' = [k \in Keys |-> IF k \in S THEN MemStore[k] ELSE Memory!Absent]
  <2> WITNESS {} \in SUBSET Keys
  <2> QED
    BY DEF NoEntries, Memory!Absent, Absent
<1>2. \E C \in SUBSET Contexts :
        MemChange' = [d \in Contexts |-> IF d \in C THEN MemChange[d] ELSE Memory!NoChange]
  <2> WITNESS {} \in SUBSET Contexts
  <2> QED
    BY DEF NoChanges, Memory!NoChange, Memory!Keep, NoChange, Keep
<1>3. Memory!Lose
  BY <1>1, <1>2 DEF Memory!Lose
<1> QED
  BY <1>3 DEF Memory!Next

LEMMA MemStepMaps ==
  ASSUME MemFacts, MemFacts', NEW c \in Contexts, MemStep(c)
  PROVE  [Memory!Next]_(Memory!vars)
<1>0. /\ MemTypeOK /\ MemMapped /\ MemMapped' /\ LockInv /\ TransactionInv
      /\ snapshot[c] \in Stores \union {NoSnapshot} /\ store \in Stores
      /\ pc \in [Contexts -> PCStates]
      /\ NoChanges' = NoChanges
  BY DiffTypes DEF MemFacts, MemTypeInv, MemTypeOK, PCStates
<1>1. closed' = closed
  BY DEF MemStep, Call, Called, CancelWait, BeginTransaction, Begun, Change, Commit, Copy,
         Committed, CommitUnchanged, Dispose, EndScope, NewScope
<1>2. ASSUME MemStore' = MemStore, MemChange' = MemChange, wipes' = wipes
      PROVE  [Memory!Next]_(Memory!vars)
  BY <1>2 DEF Memory!vars
<1>3. ASSUME MemStore' = NoEntries, MemChange' = NoChanges, wipes' = 1 - wipes
      PROVE  Memory!Next
  BY <1>3, MemLoses
<1>4. CASE closed
  <2>1. MemStore' = MemStore /\ MemChange' = MemChange
    BY <1>0, <1>1, <1>4, MemStutter
  <2>2. CASE CommitUnchanged(c)
    BY <1>0, <1>3, <1>4, <2>1, <2>2 DEF CommitUnchanged, MemMapped
  <2>3. CASE ~CommitUnchanged(c)
    <3>1. wipes' = wipes
      BY <2>3 DEF MemStep, Call, Called, CancelWait, BeginTransaction, Begun, Change, Commit,
                  Copy, Committed, Dispose, EndScope, NewScope
    <3> QED
      BY <1>2, <2>1, <3>1
  <2> QED
    BY <2>2, <2>3
<1>5. CASE ~closed
  <2>1. CASE Call(c) \/ Called(c) \/ CancelWait(c) \/ BeginTransaction(c)
    <3>1. pc[c] \in {"idle", "calling", "beginning"}
      <4>1. CASE CancelWait(c)
        BY <1>0, <1>5, <4>1, LenProperties DEF CancelWait, LockInv, LockTypes, WaitersWait
      <4> QED
        BY <2>1, <4>1 DEF Call, Called, BeginTransaction
    <3>2. /\ \E s \in {"idle", "calling", "beginning"} : pc' = [pc EXCEPT ![c] = s]
          /\ store' = store /\ snapshot' = snapshot /\ wipes' = wipes
      BY <2>1 DEF Call, Called, CancelWait, BeginTransaction
    <3>3. \A d \in Contexts : /\ InTransaction(d)' <=> InTransaction(d)
                              /\ InTransaction(d) => pc'[d] = pc[d]
      BY <1>0, <3>1, <3>2 DEF InTransaction
    <3> QED
      BY <1>0, <1>1, <1>2, <3>2, <3>3, MemStutter
  <2>2. CASE Begun(c)
    <3>1. /\ pc' = [pc EXCEPT ![c] = "open"] /\ pc[c] = "beginning" /\ lock[c] = "held"
          /\ store' = store /\ snapshot' = snapshot /\ wipes' = wipes
      BY <2>2 DEF Begun
    <3>2. \A d \in Contexts : ~InTransaction(d)
      BY <1>0, <1>5, <3>1
      DEF LockInv, OneHolder, TransactionInv, OpenHasLock, InTransaction
    <3>3. snapshot[c] = NoSnapshot
      BY <1>0, <1>5, <3>1 DEF TransactionInv, Unchanged
    <3>4. pc'[c] = "open"
      BY <1>0, <3>1
    <3>5. MemStore' = store' /\ MemChange' = [NoChanges EXCEPT ![c] = Diff(store, snapshot[c])']
      BY <1>0, <1>1, <1>5, <3>4 DEF MemMapped
    <3>6. Diff(store, snapshot[c])' = NoChange
      BY <3>1, <3>3 DEF Diff, NoSnapshot, NoChange
    <3>7. [NoChanges EXCEPT ![c] = NoChange] = NoChanges
      BY DEF NoChanges
    <3>8. MemStore = store /\ MemChange = NoChanges
      BY <1>0, <1>5, <3>2 DEF MemMapped
    <3> QED
      BY <1>2, <3>1, <3>5, <3>6, <3>7, <3>8
  <2>3. ASSUME NEW k \in Keys, NEW e \in Entries, Change(c, k, e)
        PROVE  [Memory!Next]_(Memory!vars)
    <3>1. CASE pc[c] = "open"
      BY <1>5, <2>3, <3>1, ChangeWrites DEF Memory!Next
    <3>2. CASE pc[c] = "disposed"
      <4>1. /\ pc' = pc /\ store' = store /\ wipes' = wipes
            /\ \A d \in Contexts \ {c} : snapshot'[d] = snapshot[d]
        BY <1>0, <2>3 DEF Change, MemTypeOK
      <4>2. \A d \in Contexts : /\ InTransaction(d)' <=> InTransaction(d)
                                /\ InTransaction(d) => snapshot'[d] = snapshot[d]
        BY <3>2, <4>1 DEF InTransaction
      <4> QED
        BY <1>0, <1>1, <1>2, <4>1, <4>2, MemStutter
    <3> QED
      BY <2>3, <3>1, <3>2 DEF Change
  <2>4. CASE Commit(c)
    <3>1. /\ pc[c] = "open" /\ snapshot[c] # NoSnapshot /\ pc'[c] = "committing"
          /\ snapshot' = snapshot /\ wipes' = wipes
      BY <1>0, <2>4 DEF Commit
    <3>2. MemStore = store /\ MemChange = [NoChanges EXCEPT ![c] = Diff(store, snapshot[c])]
      BY <1>0, <1>5, <3>1 DEF MemMapped
    <3>3. MemStore' = snapshot[c] /\ MemChange' = NoChanges
      BY <1>0, <1>1, <1>5, <3>1 DEF MemMapped
    <3>4. MemChange[c] = Diff(store, snapshot[c]) /\ [MemChange EXCEPT ![c] = NoChange] = NoChanges
      BY <3>2 DEF NoChanges
    <3>5. snapshot[c] = Merge(MemStore, MemChange[c])
      BY <1>0, <3>1, <3>2, <3>4, DiffTypes
    <3>6. Memory!Commit(c)
      <4>1. /\ Memory!NoChange = NoChange
            /\ Memory!Merge(MemStore, MemChange[c]) = Merge(MemStore, MemChange[c])
        BY DEF Memory!NoChange, Memory!Merge, Memory!Keep, NoChange, Merge, Keep
      <4> QED
        BY <3>1, <3>3, <3>4, <3>5, <4>1 DEF Memory!Commit
    <3> QED
      BY <3>6 DEF Memory!Next
  <2>5. CASE Copy(c)
    <3>1. pc' = pc /\ pc[c] = "committing" /\ snapshot' = snapshot /\ wipes' = wipes
      BY <2>5 DEF Copy
    <3>2. MemStore = snapshot[c] /\ MemChange = NoChanges
      BY <1>0, <1>5, <3>1 DEF MemMapped
    <3>3. MemStore' = snapshot[c] /\ MemChange' = NoChanges
      BY <1>0, <1>1, <1>5, <3>1 DEF MemMapped
    <3> QED
      BY <1>2, <3>1, <3>2, <3>3
  <2>6. CASE Committed(c)
    <3>1. /\ pc[c] = "committing" /\ pc'[c] = "open" /\ todo[c] = {}
          /\ store' = store /\ snapshot' = snapshot /\ wipes' = wipes
      BY <1>0, <2>6 DEF Committed
    <3>2. store = snapshot[c]
      <4>1. store = [k \in Keys |-> snapshot[c][k]]
        BY <1>0, <1>5, <3>1 DEF TransactionInv, Copying
      <4>2. snapshot[c] \in Stores
        BY <3>1 DEF MemFacts, MemTypeInv
      <4> QED
        BY <4>1, <4>2 DEF Stores
    <3>3. MemStore = snapshot[c] /\ MemChange = NoChanges
      BY <1>0, <1>5, <3>1 DEF MemMapped
    <3>4. MemStore' = store' /\ MemChange' = [NoChanges EXCEPT ![c] = Diff(store, snapshot[c])']
      BY <1>0, <1>1, <1>5, <3>1 DEF MemMapped
    <3>5. Diff(store, snapshot[c])' = NoChange
      BY <3>1, <3>2 DEF Diff, NoChange, NoSnapshot
    <3>6. [NoChanges EXCEPT ![c] = NoChange] = NoChanges
      BY DEF NoChanges
    <3> QED
      BY <1>2, <3>1, <3>2, <3>3, <3>4, <3>5, <3>6
  <2>7. CASE CommitUnchanged(c)
    <3>1. /\ pc'[c] = "open" /\ snapshot'[c] = NoSnapshot /\ store' = NoEntries
          /\ wipes' = 1 - wipes
      BY <2>7 DEF CommitUnchanged
    <3>2. MemStore' = store' /\ MemChange' = [NoChanges EXCEPT ![c] = Diff(store, snapshot[c])']
      BY <1>0, <1>1, <1>5, <3>1 DEF MemMapped
    <3>3. Diff(store, snapshot[c])' = NoChange
      BY <3>1 DEF Diff, NoChange, NoSnapshot
    <3>4. [NoChanges EXCEPT ![c] = NoChange] = NoChanges
      BY DEF NoChanges
    <3> QED
      BY <1>3, <3>1, <3>2, <3>3, <3>4
  <2>8. CASE (Dispose(c) \/ EndScope(c)) /\ pc[c] = "open"
    <3>1. /\ \E s \in {"disposed", "ended"} : pc' = [pc EXCEPT ![c] = s]
          /\ store' = store /\ snapshot' = snapshot /\ wipes' = wipes
      BY <2>8 DEF Dispose, EndScope
    <3>2. \A d \in Contexts \ {c} : ~InTransaction(d)
      BY <1>0, <1>5, <2>8, OneTransaction DEF InTransaction
    <3>3. \A d \in Contexts : ~InTransaction(d)'
      BY <1>0, <3>1, <3>2 DEF InTransaction
    <3>4. MemStore' = store /\ MemChange' = NoChanges
      BY <1>0, <1>1, <1>5, <3>1, <3>3 DEF MemMapped
    <3>5. MemStore = store /\ MemChange = [NoChanges EXCEPT ![c] = Diff(store, snapshot[c])]
      BY <1>0, <1>5, <2>8 DEF MemMapped
    <3>6. [MemChange EXCEPT ![c] = NoChange] = NoChanges
      BY <3>5 DEF NoChanges
    <3>7. Memory!Abandon(c)
      <4>1. Memory!NoChange = NoChange
        BY DEF Memory!NoChange, Memory!Keep, NoChange, Keep
      <4> QED
        BY <3>1, <3>4, <3>5, <3>6, <4>1 DEF Memory!Abandon
    <3> QED
      BY <3>7 DEF Memory!Next
  <2>9. CASE (EndScope(c) /\ pc[c] # "open") \/ NewScope(c)
    <3>1. /\ pc[c] \in {"idle", "disposed", "ended"} /\ store' = store /\ wipes' = wipes
          /\ \E s \in {"idle", "ended"} : pc' = [pc EXCEPT ![c] = s]
          /\ \A d \in Contexts \ {c} : snapshot'[d] = snapshot[d]
      BY <1>0, <2>9 DEF EndScope, NewScope, MemTypeOK
    <3>2. \A d \in Contexts : /\ InTransaction(d)' <=> InTransaction(d)
                              /\ InTransaction(d) => pc'[d] = pc[d]
                                                     /\ snapshot'[d] = snapshot[d]
      BY <1>0, <3>1 DEF InTransaction
    <3> QED
      BY <1>0, <1>1, <1>2, <3>1, <3>2, MemStutter
  <2> QED
    BY <2>1, <2>2, <2>3, <2>4, <2>5, <2>6, <2>7, <2>8, <2>9 DEF MemStep, Dispose
<1> QED
  BY <1>4, <1>5 DEF MemFacts, LockInv, LockTypes

LEMMA MemSpecMaps ==
  LockInv /\ TransactionInv /\ TypeInv /\ LockInv' /\ TransactionInv' /\ TypeInv'
    /\ (MemNext \/ UNCHANGED memVars)
    => [Memory!Next]_(Memory!vars)
<1> SUFFICES ASSUME LockInv, TransactionInv, TypeInv, LockInv', TransactionInv', TypeInv',
                    MemNext \/ UNCHANGED memVars
             PROVE  [Memory!Next]_(Memory!vars)
  OBVIOUS
<1>1. MemFacts /\ MemFacts'
  <2>1. MemFacts
    BY MemMapping DEF MemFacts, TypeInv
  <2>2. MemMapped'
    BY MemMappingNext DEF TypeInv
  <2> QED
    BY <2>1, <2>2 DEF MemFacts, TypeInv
<1>2. CASE Shutdown
  <2>1. ~closed /\ closed' /\ wipes' = 1 - wipes
    BY <1>2 DEF Shutdown
  <2>2. MemStore' = NoEntries /\ MemChange' = NoChanges
    BY <1>1, <2>1, DiffTypes DEF MemFacts, MemMapped, NoEntries
  <2> QED
    BY <2>1, <2>2, MemLoses
<1>3. CASE UNCHANGED memVars
  BY <1>3 DEF memVars, Memory!vars, MemStore, MemChange
<1> QED
  BY <1>1, <1>2, <1>3, MemStepMaps DEF MemNext

-----------------------------------------------------------------------------
(***************************************************************************)
(* The provider in the file system implements it, too.                     *)
(***************************************************************************)

Files == INSTANCE AtomicStore WITH
  store <- FileStore, change <- pending, losses <- breaks

\* What a commit has yet to write is not in the file, and nothing else is missing.
Writing ==
  \A c \in Contexts : at[c] = "writing" =>
    file = [k \in Keys |-> IF k \in toWrite[c] THEN Absent ELSE content[c][k]]

\* Only who has the lock file is at the state file.
LEMMA OneWriter ==
  ASSUME FileLockInv, NEW c \in Contexts, NEW d \in Contexts,
         at[c] \in {"reading", "writing"}, at[d] \in {"reading", "writing"}
  PROVE  c = d
BY DEF FileLockInv, LockFileIsHeld, NeedsLockFile

\* The abstract store as the one that writes, or nobody, leaves it.
FileMapped ==
  /\ (\A c \in Contexts : at[c] # "writing") => FileStore = file
  /\ \A c \in Contexts : at[c] = "writing" => FileStore = content[c]

LEMMA FileMapping == FileLockInv => FileMapped
<1> SUFFICES ASSUME FileLockInv PROVE FileMapped
  OBVIOUS
<1>1. (\A c \in Contexts : at[c] # "writing") => FileStore = file
  BY DEF FileStore
<1>2. ASSUME NEW c \in Contexts, at[c] = "writing" PROVE FileStore = content[c]
  <2>1. \A d \in Contexts : at[d] = "writing" <=> d = c
    BY <1>2, OneWriter
  <2> QED
    BY <2>1 DEF FileStore
<1> QED
  BY <1>1, <1>2 DEF FileMapped

LEMMA FileMappingNext == FileLockInv' => FileMapped'
  BY FileMapping, PTL

\* Where a step leaves the writing of all contexts alone, it leaves the store alone.
LEMMA FileStutter ==
  ASSUME FileLockInv, FileLockInv',
         \A d \in Contexts : /\ at'[d] = "writing" <=> at[d] = "writing"
                             /\ at[d] = "writing" => content'[d] = content[d],
         (\A d \in Contexts : at[d] # "writing") => file' = file
  PROVE  FileStore' = FileStore
<1>1. CASE \A d \in Contexts : at[d] # "writing"
  BY <1>1 DEF FileStore
<1>2. ASSUME NEW d \in Contexts, at[d] = "writing" PROVE FileStore' = FileStore
  <2>1. \A c \in Contexts : at[c] = "writing" <=> c = d
    BY <1>2, OneWriter
  <2>2. \A c \in Contexts : at'[c] = "writing" <=> c = d
    BY <2>1
  <2> QED
    BY <1>2, <2>1, <2>2 DEF FileStore
<1> QED
  BY <1>1, <1>2

LEMMA WritingStep ==
  ASSUME FileLockInv, Writing, FileTypeOK, NEW c \in Contexts, FileStep(c)
  PROVE  Writing'
<1> USE DEF Goto
<1>1. SUFFICES ASSUME NEW d \in Contexts, at'[d] = "writing"
               PROVE  file' = [k \in Keys |-> IF k \in toWrite'[d] THEN Absent
                                              ELSE content'[d][k]]
  BY DEF Writing
<1>2. CASE Read(c) /\ ~Barred(c)
  <2>1. d = c
    <3>1. at[d] = "writing" \/ d = c
      BY <1>1, <1>2 DEF Read, FileTypeOK
    <3> QED
      BY <1>2, <3>1, OneWriter DEF Read
  <2> DEFINE result == Merge(file, pending[c])
  <2>2. /\ file' = NoEntries /\ content'[c] = result /\ toWrite'[c] = Present(result)
    BY <1>2 DEF Read, FileTypeOK
  <2> HIDE DEF result
  <2> QED
    BY <2>1, <2>2 DEF NoEntries, Present
<1>3. CASE WriteEntry(c)
  <2>1. d = c /\ at[c] = "writing" /\ content' = content
    BY <1>1, <1>3, OneWriter DEF WriteEntry
  <2>2. PICK k \in toWrite[c] : /\ file' = [file EXCEPT ![k] = content[c][k]]
                                /\ toWrite' = [toWrite EXCEPT ![c] = @ \ {k}]
    BY <1>3 DEF WriteEntry
  <2>3. file = [j \in Keys |-> IF j \in toWrite[c] THEN Absent ELSE content[c][j]]
    BY <2>1 DEF Writing
  <2>4. toWrite'[c] = toWrite[c] \ {k} /\ k \in Keys
    BY <2>2 DEF FileTypeOK
  <2>5. file' = [j \in Keys |-> IF j \in toWrite[c] \ {k} THEN Absent ELSE content[c][j]]
    BY <2>2, <2>3, <2>4
  <2> QED
    BY <2>1, <2>4, <2>5
<1>4. CASE (Read(c) /\ Barred(c)) \/ Flush(c) \/ BreakOff(c) \/ Crash(c)
  <2>1. d # c /\ file' = file /\ at'[d] = at[d]
    <3>1. CASE (Read(c) /\ Barred(c)) \/ Flush(c) \/ BreakOff(c)
      BY <1>1, <3>1 DEF Read, Flush, BreakOff, Leave, FileTypeOK
    <3>2. CASE Crash(c)
      BY <1>1, <3>2 DEF Crash, End, FileTypeOK
    <3> QED
      BY <1>4, <3>1, <3>2
  <2>2. content'[d] = content[d] /\ toWrite'[d] = toWrite[d]
    BY <1>4, <2>1 DEF Read, Flush, BreakOff, Crash, Leave, FileTypeOK
  <2> QED
    BY <1>1, <2>1, <2>2 DEF Writing
<1>5. CASE ~(Read(c) \/ WriteEntry(c) \/ Flush(c) \/ BreakOff(c) \/ Crash(c))
  <2>1. at[d] = "writing"
    BY <1>1, <1>5
    DEF FileStep, Begin, LockRange, Put, Remove, CommitFile, Locking, TryRange, TryLockFile,
        TakeLockFile, Wake, CancelLock, Committing, Unlocking, Unlock, CloseLockFile,
        DisposeFile, Finalize, End, FileTypeOK
  <2>2. file' = file /\ content' = content /\ toWrite' = toWrite
    BY <1>5
    DEF FileStep, Begin, Put, Remove, CommitFile, Locking, TryRange, TryLockFile, Wake,
        CancelLock, Committing, Unlocking, Unlock, CloseLockFile, DisposeFile, Finalize,
        writeVars
  <2> QED
    BY <2>1, <2>2 DEF Writing
<1> QED
  BY <1>2, <1>3, <1>4, <1>5

LEMMA WritingInvariant == Spec => []Writing
<1>1. Init => Writing
  BY DEF Init, FileInit, Writing
<1>2. FileLockInv /\ Writing /\ TypeInv /\ [Next]_vars => Writing'
  <2> SUFFICES ASSUME FileLockInv, Writing, TypeInv, [Next]_vars PROVE Writing'
    OBVIOUS
  <2>1. CASE UNCHANGED fileVars
    BY <2>1 DEF fileVars, writeVars, Writing
  <2>2. ASSUME NEW c \in Contexts, FileStep(c) PROVE Writing'
    BY <2>2, WritingStep DEF TypeInv
  <2> QED
    BY <2>1, <2>2 DEF Next, InMemory, FileNext, vars
<1> QED
  BY <1>1, <1>2, FileLockInvariant, TypeInvariant, PTL DEF Spec

LEMMA FileStepMaps ==
  ASSUME FileLockInv, FileLockInv', Writing, FileTypeOK, NEW c \in Contexts, FileStep(c)
  PROVE  [Files!Next]_(Files!vars)
<1> USE DEF Goto
<1>0. /\ file \in Stores /\ pending \in [Contexts -> Changes]
      /\ \A d \in Contexts : pending[d] \in Changes
  BY DEF FileTypeOK
<1>1. ASSUME FileStore' = FileStore, pending' = pending, breaks' = breaks
      PROVE  [Files!Next]_(Files!vars)
  BY <1>1 DEF Files!vars
<1>2. ASSUME FileStore' = FileStore, breaks' = breaks,
             pending' = [pending EXCEPT ![c] = NoChange]
      PROVE  [Files!Next]_(Files!vars)
  <2>1. Files!Abandon(c)
    BY <1>2 DEF Files!Abandon, Files!NoChange, Files!Keep, NoChange, Keep
  <2> QED
    BY <2>1 DEF Files!Next
<1>3. ASSUME NEW k \in Keys, NEW e \in Entries, FileStore' = FileStore, breaks' = breaks,
             pending' = [pending EXCEPT ![c][k] = e]
      PROVE  [Files!Next]_(Files!vars)
  <2>1. Files!Write(c)
    BY <1>3 DEF Files!Write, Files!Entries, Files!Absent, Entries, Absent
  <2> QED
    BY <2>1 DEF Files!Next
<1>4. CASE (\E k \in Keys, v \in Values : Put(c, k, v)) \/ \E k \in Keys : Remove(c, k)
  <2>1. FileStore' = FileStore /\ breaks' = breaks
    <3>1. at' = at /\ content' = content /\ file' = file /\ breaks' = breaks
      BY <1>4 DEF Put, Remove, writeVars
    <3> QED
      BY <3>1, FileStutter
  <2>2. \E k \in Keys, e \in Entries : pending' = [pending EXCEPT ![c][k] = e]
    BY <1>4 DEF Put, Remove, Entries
  <2> QED
    BY <1>3, <2>1, <2>2
<1>5. CASE (\E l \in {"ReadCommitted", "Serializable"} : Begin(c, l)) \/ CommitFile(c)
             \/ Locking(c) \/ Unlock(c)
  <2>1. /\ pending' = pending /\ breaks' = breaks /\ file' = file /\ content' = content
        /\ at[c] # "writing" /\ \E place : place # "writing" /\ at' = [at EXCEPT ![c] = place]
    BY <1>5 DEF Begin, CommitFile, LockRange, Locking, TryRange, TryLockFile, TakeLockFile,
                Wake, CancelLock, Unlock, transactionVars, writeVars
  <2>2. FileStore' = FileStore
    BY <2>1, FileStutter DEF FileTypeOK
  <2> QED
    BY <1>1, <2>1, <2>2
<1>6. CASE CloseLockFile(c) \/ DisposeFile(c) \/ Finalize(c)
  <2>1. /\ breaks' = breaks /\ file' = file /\ content' = content /\ at[c] # "writing"
        /\ \E place \in {"idle", "open", "unlocking"} : at' = [at EXCEPT ![c] = place]
    BY <1>6 DEF CloseLockFile, DisposeFile, Finalize, End, writeVars
  <2>2. pending' = pending \/ pending' = [pending EXCEPT ![c] = NoChange]
    BY <1>6 DEF CloseLockFile, DisposeFile, Finalize, End, Discard, transactionVars
  <2>3. FileStore' = FileStore
    BY <2>1, FileStutter DEF FileTypeOK
  <2> QED
    BY <1>1, <1>2, <2>1, <2>2, <2>3
<1>7. CASE Read(c)
  <2>0. at[c] = "reading" /\ (\A d \in Contexts : at[d] # "writing") /\ FileStore = file
    <3>1. at[c] = "reading"
      BY <1>7 DEF Read
    <3>2. \A d \in Contexts : at[d] # "writing"
      BY <3>1, OneWriter
    <3> QED
      BY <3>1, <3>2, FileMapping DEF FileMapped
  <2>1. CASE Barred(c)
    <3>1. /\ file' = file /\ pending' = pending /\ breaks' = breaks
          /\ \E place \in {"open", "unlocking"} : at' = [at EXCEPT ![c] = place]
      BY <1>7, <2>1 DEF Read, Leave, transactionVars
    <3>2. FileStore' = FileStore
      BY <2>0, <3>1, FileStutter DEF FileTypeOK
    <3> QED
      BY <1>1, <3>1, <3>2
  <2>2. CASE ~Barred(c)
    <3>1. /\ at'[c] = "writing" /\ content'[c] = Merge(file, pending[c])
          /\ pending' = pending /\ breaks' = breaks
      BY <1>7, <2>2 DEF Read, transactionVars, FileTypeOK
    <3>2. FileStore' = content'[c]
      BY <3>1, FileMappingNext DEF FileMapped
    <3>3. Files!Merge(FileStore, pending[c]) = Merge(FileStore, pending[c])
      BY DEF Files!Merge, Files!Keep, Merge, Keep
    <3>4. Files!Commit(c)
      BY <2>0, <3>1, <3>2, <3>3 DEF Files!Commit
    <3> QED
      BY <3>4 DEF Files!Next
  <2> QED
    BY <2>1, <2>2
<1>8. CASE WriteEntry(c)
  <2>1. /\ at[c] = "writing" /\ at' = at /\ content' = content /\ pending' = pending
        /\ breaks' = breaks
    BY <1>8 DEF WriteEntry, transactionVars
  <2>2. FileStore' = FileStore
    BY <2>1, FileStutter
  <2> QED
    BY <1>1, <2>1, <2>2
<1>9. ASSUME at[c] = "writing", at'[c] # "writing", file' = file,
             \A d \in Contexts \ {c} : at'[d] = at[d]
      PROVE  /\ FileStore = content[c] /\ FileStore' = file
             /\ file = [k \in Keys |-> IF k \in toWrite[c] THEN Absent ELSE FileStore[k]]
  <2>1. FileStore = content[c]
    BY <1>9, FileMapping DEF FileMapped
  <2>2. \A d \in Contexts : at'[d] # "writing"
    BY <1>9, OneWriter
  <2>3. FileStore' = file'
    BY <2>2, FileMappingNext DEF FileMapped
  <2> QED
    BY <1>9, <2>1, <2>3 DEF Writing
<1>10. CASE Flush(c)
  <2>1. /\ at[c] = "writing" /\ toWrite[c] = {} /\ file' = file /\ pending' = pending
        /\ breaks' = breaks /\ at'[c] # "writing"
        /\ \A d \in Contexts \ {c} : at'[d] = at[d]
    BY <1>10 DEF Flush, Leave, transactionVars, FileTypeOK
  <2>2. file = [k \in Keys |-> FileStore[k]] /\ FileStore = content[c] /\ FileStore' = file
    BY <1>9, <2>1
  <2>3. content[c] = [k \in Keys |-> content[c][k]]
    BY DEF FileTypeOK, Stores
  <2> QED
    BY <1>1, <2>1, <2>2, <2>3
<1>11. ASSUME at[c] = "writing", at'[c] # "writing", file' = file, breaks' = 1 - breaks,
              \A d \in Contexts \ {c} : at'[d] = at[d],
              \/ pending' = pending
              \/ pending' = [pending EXCEPT ![c] = NoChange]
       PROVE  [Files!Next]_(Files!vars)
  <2>1. \E S \in SUBSET Keys :
          FileStore' = [k \in Keys |-> IF k \in S THEN FileStore[k] ELSE Files!Absent]
    <3> WITNESS Keys \ toWrite[c] \in SUBSET Keys
    <3>1. FileStore' = [k \in Keys |-> IF k \in toWrite[c] THEN Absent ELSE FileStore[k]]
      BY <1>9, <1>11
    <3> QED
      BY <3>1 DEF Files!Absent, Absent
  <2>2. \E C \in SUBSET Contexts :
          pending' = [d \in Contexts |-> IF d \in C THEN pending[d] ELSE Files!NoChange]
    <3>1. Files!NoChange = NoChange
      BY DEF Files!NoChange, Files!Keep, NoChange, Keep
    <3>2. CASE pending' = pending
      <4> WITNESS Contexts \in SUBSET Contexts
      <4> QED
        BY <1>0, <3>2
    <3>3. CASE pending' = [pending EXCEPT ![c] = NoChange]
      <4> WITNESS Contexts \ {c} \in SUBSET Contexts
      <4> QED
        BY <1>0, <3>1, <3>3
    <3> QED
      BY <1>11, <3>2, <3>3
  <2>3. Files!Lose
    BY <1>11, <2>1, <2>2 DEF Files!Lose
  <2> QED
    BY <2>3 DEF Files!Next
<1>12. CASE BreakOff(c)
  <2>1. /\ at[c] = "writing" /\ file' = file /\ pending' = pending
        /\ breaks' = 1 - breaks /\ at'[c] # "writing"
        /\ \A d \in Contexts \ {c} : at'[d] = at[d]
    BY <1>12 DEF BreakOff, Leave, transactionVars, FileTypeOK
  <2> QED
    BY <1>11, <2>1
<1>13. CASE Crash(c)
  <2>1. /\ file' = file /\ pending' = [pending EXCEPT ![c] = NoChange]
        /\ at'[c] # "writing" /\ \A d \in Contexts \ {c} : at'[d] = at[d]
        /\ \A d \in Contexts \ {c} : content'[d] = content[d]
    BY <1>13 DEF Crash, End, Discard, FileTypeOK
  <2>2. CASE at[c] = "writing"
    BY <1>11, <1>13, <2>1, <2>2 DEF Crash
  <2>3. CASE at[c] # "writing"
    <3>1. FileStore' = FileStore
      <4>1. \A d \in Contexts : /\ at'[d] = "writing" <=> at[d] = "writing"
                                /\ at[d] = "writing" => content'[d] = content[d]
        BY <2>1, <2>3
      <4> QED
        BY <2>1, <4>1, FileStutter
    <3>2. breaks' = breaks
      BY <1>13, <2>3 DEF Crash
    <3> QED
      BY <1>2, <2>1, <3>1, <3>2
  <2> QED
    BY <2>2, <2>3
<1> QED
  BY <1>4, <1>5, <1>6, <1>7, <1>8, <1>10, <1>12, <1>13 DEF FileStep, Committing, Unlocking

-----------------------------------------------------------------------------
StoreInv == LockInv /\ TransactionInv /\ FileLockInv /\ Writing /\ TypeInv

LEMMA StoreStep ==
  ASSUME StoreInv, StoreInv', [Next]_vars
  PROVE  [Abstract!Next]_(Abstract!vars)
<1>0. provider' = provider /\ provider \in {"memory", "file"}
  BY DEF Next, InMemory, vars, StoreInv, TypeInv
<1>1. CASE provider = "memory"
  <2>1. MemNext \/ UNCHANGED memVars
    BY <1>1 DEF Next, InMemory, vars
  <2>2. [Memory!Next]_(Memory!vars)
    BY <2>1, MemSpecMaps DEF StoreInv
  <2> USE DEF Memory!NoChange, Memory!Merge, Memory!Keep, Memory!Absent, Memory!Entries,
              Abstract!NoChange, Abstract!Merge, Abstract!Keep, Abstract!Absent,
              Abstract!Entries
  <2>3. Memory!Lose => Abstract!Lose
    BY <1>0, <1>1 DEF Memory!Lose, Abstract!Lose
  <2>4. ASSUME NEW c \in Contexts
        PROVE  /\ Memory!Write(c) => Abstract!Write(c)
               /\ Memory!Commit(c) => Abstract!Commit(c)
               /\ Memory!Abandon(c) => Abstract!Abandon(c)
    BY <1>0, <1>1 DEF Memory!Write, Abstract!Write, Memory!Commit, Abstract!Commit,
                      Memory!Abandon, Abstract!Abandon
  <2>5. UNCHANGED Memory!vars => UNCHANGED Abstract!vars
    BY <1>0, <1>1 DEF Memory!vars, Abstract!vars
  <2> QED
    BY <2>2, <2>3, <2>4, <2>5 DEF Memory!Next, Abstract!Next
<1>2. CASE provider = "file"
  <2>1. FileNext \/ UNCHANGED fileVars
    BY <1>2 DEF Next, InMemory, vars
  <2>2. [Files!Next]_(Files!vars)
    <3>1. CASE UNCHANGED fileVars
      BY <3>1 DEF fileVars, transactionVars, writeVars, Files!vars, FileStore
    <3> QED
      BY <2>1, <3>1, FileStepMaps DEF FileNext, StoreInv, TypeInv
  <2> USE DEF Files!NoChange, Files!Merge, Files!Keep, Files!Absent, Files!Entries,
              Abstract!NoChange, Abstract!Merge, Abstract!Keep, Abstract!Absent,
              Abstract!Entries
  <2>3. Files!Lose => Abstract!Lose
    BY <1>0, <1>2 DEF Files!Lose, Abstract!Lose
  <2>4. ASSUME NEW c \in Contexts
        PROVE  /\ Files!Write(c) => Abstract!Write(c)
               /\ Files!Commit(c) => Abstract!Commit(c)
               /\ Files!Abandon(c) => Abstract!Abandon(c)
    BY <1>0, <1>2 DEF Files!Write, Abstract!Write, Files!Commit, Abstract!Commit,
                      Files!Abandon, Abstract!Abandon
  <2>5. UNCHANGED Files!vars => UNCHANGED Abstract!vars
    BY <1>0, <1>2 DEF Files!vars, Abstract!vars
  <2> QED
    BY <2>2, <2>3, <2>4, <2>5 DEF Files!Next, Abstract!Next
<1> QED
  BY <1>0, <1>1, <1>2

\* Whichever provider is in use, in every system: entries change by commits only, each
\* of which writes at once what its transaction changed and nothing else, although it
\* is made step by step, and is lost only where the code gives it up.
THEOREM ProvidersAreAtomic == Spec => IsAtomicStore
<1>1. Init => Abstract!Init
  <2> SUFFICES ASSUME Init PROVE Abstract!Init
    OBVIOUS
  <2> USE DEF Abstract!NoEntries, Abstract!Absent, Abstract!NoChange, Abstract!Keep
  <2>1. CASE provider = "memory"
    <3>1. MemStore = NoEntries /\ MemChange = NoChanges /\ wipes = 0
      BY DEF Init, MemInit, MemStore, MemChange, NoChanges
    <3> QED
      BY <2>1, <3>1 DEF Abstract!Init, NoEntries, NoChanges, NoChange, Absent, Keep
  <2>2. CASE provider = "file"
    <3>1. FileStore = NoEntries /\ pending = NoChanges /\ breaks = 0
      BY DEF Init, FileInit, FileStore, NoChanges
    <3> QED
      BY <2>2, <3>1 DEF Abstract!Init, NoEntries, NoChanges, NoChange, Absent, Keep
  <2> QED
    BY <2>1, <2>2 DEF Init
<1>2. StoreInv /\ StoreInv' /\ [Next]_vars => [Abstract!Next]_(Abstract!vars)
  BY StoreStep
<1>3. Spec => []StoreInv
  BY LockInvariant, TransactionInvariant, FileLockInvariant, WritingInvariant, TypeInvariant,
     PTL DEF StoreInv
<1>4. Spec => Abstract!Init /\ [][Abstract!Next]_(Abstract!vars)
  BY <1>1, <1>2, <1>3, PTL DEF Spec
<1> QED
  BY <1>4, PTL DEF IsAtomicStore, Abstract!Spec
=============================================================================
