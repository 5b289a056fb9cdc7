--------------------------- MODULE StateProviders ---------------------------
(***************************************************************************)
(* The state providers behind IStateContext.  A host is configured with    *)
(* one IStateContextFactory, so its contexts are all in-memory or all in   *)
(* the file system, and to its services both are a store with              *)
(* transactions.                                                           *)
(***************************************************************************)
EXTENDS MemoryState, FileState

VARIABLE provider   \* the IStateContextFactory that is registered

vars == <<provider, memVars, fileVars>>

Init == provider \in {"memory", "file"} /\ MemInit /\ FileInit

\* A step of the in-memory provider, where it is in use.
InMemory(action) == provider = "memory" /\ action /\ UNCHANGED <<provider, fileVars>>

Next ==
  \/ InMemory(MemNext)
  \/ provider = "file" /\ FileNext /\ UNCHANGED <<provider, memVars>>

Spec == Init /\ [][Next]_vars

(***************************************************************************)
(* Fairness, which only the in-memory provider's callers need: calls that  *)
(* have the lock return, commits run to their end, and a request makes      *)
(* finitely many calls before its scope ends.                              *)
(***************************************************************************)
Fairness ==
  \A c \in Contexts :
    /\ WF_vars(InMemory(Called(c))) /\ WF_vars(InMemory(Begun(c)))
    /\ WF_vars(InMemory(Copy(c) \/ Committed(c)))
    /\ SF_vars(InMemory(EndScope(c)))

FairSpec == Spec /\ Fairness
-----------------------------------------------------------------------------
TypeOK == provider \in {"memory", "file"} /\ MemTypeOK /\ FileTypeOK

\* The locks of neither provider are lost, given twice or kept by who is done.
LocksAreKept == LockIsKept /\ LocksEnd

Abstract == INSTANCE AtomicStore WITH
  store <- IF provider = "memory" THEN MemStore ELSE FileStore,
  change <- IF provider = "memory" THEN MemChange ELSE pending,
  losses <- IF provider = "memory" THEN wipes ELSE breaks

\* Whichever provider is in use: entries change by commits only, each of which
\* writes just what its transaction changed, all at once; and are lost only where a
\* commit breaks off, a transaction commits nothing, or the store is disposed.
IsAtomicStore == Abstract!Spec
=============================================================================
