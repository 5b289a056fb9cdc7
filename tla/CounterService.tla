--------------------------- MODULE CounterService ---------------------------
(***************************************************************************)
(* Optimistic concurrency control of shared states, as the Counter sample  *)
(* uses it: IncrementAsync and DecrementAsync read the state, compute, and *)
(* write it back with the version they read, decorated with                *)
(* RetryOnConcurrencyError; GetCounterAsync only reads.  The requests run  *)
(* on any number of replicas of the service and meet in one row of the     *)
(* table StateEntry of the Entity Framework provider.                      *)
(*                                                                         *)
(* Every execution has a scope, a StateDbContext and so a change tracker   *)
(* of its own, which is why a re-execution reads afresh.  The statements   *)
(* the provider sends are atomic in the database.                          *)
(***************************************************************************)
EXTENDS Integers, FiniteSets

CONSTANTS
  Increments, Decrements, Reads,   \* the requests, by action
  MaxRetries,                      \* RetryOnConcurrencyErrorAttribute.MaximumRetries
  Seeded                           \* whether the row exists from the start

ASSUME CounterAssumption ==
  /\ MaxRetries \in Nat
  /\ Seeded \in BOOLEAN
  /\ Increments \intersect Decrements = {}
  /\ (Increments \union Decrements) \intersect Reads = {}

Requests == Increments \union Decrements \union Reads
Writers == Increments \union Decrements

VARIABLES
  row,      \* the StateEntry with key "counter"
  pc,       \* where each request stands
  seen,     \* seen[r]: the State<long> that GetAsync returned to r
  runs,     \* runs[r]: how many executions of r have begun
  answer    \* answer[r]: what r's client is sent in the end

vars == <<row, pc, seen, runs, answer>>

\* `long`, too wide to overflow here.
Rows == [exists: BOOLEAN, value: Int, version: Nat]

\* ToState: a missing entry reads as `new State<T>()`, value 0 at version 0.
States == [value: Int, version: Nat]
ToState(entry) == [value |-> entry.value, version |-> entry.version]

\* What a request's client is answered: a number, or a ConcurrencyException.
Answers == [kind: {"none", "number", "conflict"}, value: Int]
NoAnswer == [kind |-> "none", value |-> 0]
Number(n) == [kind |-> "number", value |-> n]
ConcurrencyError == [kind |-> "conflict", value |-> 0]

TypeOK ==
  /\ row \in Rows
  /\ pc \in [Requests -> {"ready", "writing", "backoff", "done"}]
  /\ seen \in [Requests -> States]
  /\ runs \in [Requests -> 1..(MaxRetries + 2)]
  /\ answer \in [Requests -> Answers]

Init ==
  /\ row = [exists |-> Seeded, value |-> 0, version |-> 0]
  /\ pc = [r \in Requests |-> "ready"]
  /\ seen = [r \in Requests |-> ToState(row)]
  /\ runs = [r \in Requests |-> 1]
  /\ answer = [r \in Requests |-> NoAnswer]
-----------------------------------------------------------------------------
\* Mutant: the version is not compared.
AffectedAlways(version) == TRUE

\* AddOrUpdateAsync with a version: INSERT at version 0, or else UPDATE where the
\* version is the one given.  It affects one row or, if the version differs, none.
Affected(version) == ~row.exists \/ row.version = version

AddOrUpdate(value) ==
  row' = [exists |-> TRUE, value |-> value,
          version |-> IF row.exists THEN row.version + 1 ELSE 0]

Delta(r) == IF r \in Increments THEN 1 ELSE -1

\* GetAsync.
Get(r) ==
  /\ pc[r] = "ready"
  /\ r \in Writers
  /\ seen' = [seen EXCEPT ![r] = ToState(row)]
  /\ pc' = [pc EXCEPT ![r] = "writing"]
  /\ UNCHANGED <<row, runs, answer>>

GetCounter(r) ==
  /\ pc[r] = "ready"
  /\ r \in Reads
  /\ seen' = [seen EXCEPT ![r] = ToState(row)]
  /\ pc' = [pc EXCEPT ![r] = "done"]
  /\ answer' = [answer EXCEPT ![r] = Number(row.value)]
  /\ UNCHANGED <<row, runs>>

\* PutAsync with a version succeeds, and the action returns the new value.
Put(r) ==
  LET value == seen[r].value + Delta(r) IN
  /\ pc[r] = "writing"
  /\ Affected(seen[r].version)
  /\ AddOrUpdate(value)
  /\ pc' = [pc EXCEPT ![r] = "done"]
  /\ answer' = [answer EXCEPT ![r] = Number(value)]
  /\ UNCHANGED <<seen, runs>>

\* Mutant: a request is given up one conflict earlier.
MayRetryLess(r) == runs[r] - 1 < MaxRetries

\* RetryOnConcurrencyErrorAttribute: ExecutionId <= MaximumRetries.
MayRetry(r) == runs[r] - 1 <= MaxRetries

\* PutAsync throws ConcurrencyException: back off, or let the error through.
Conflict(r) ==
  /\ pc[r] = "writing"
  /\ ~Affected(seen[r].version)
  /\ IF MayRetry(r)
     THEN pc' = [pc EXCEPT ![r] = "backoff"] /\ UNCHANGED answer
     ELSE /\ pc' = [pc EXCEPT ![r] = "done"]
          /\ answer' = [answer EXCEPT ![r] = ConcurrencyError]
  /\ UNCHANGED <<row, seen, runs>>

\* Mutant: re-execution keeps the value that was read before.
ReExecuteStale(r) ==
  /\ pc[r] = "backoff"
  /\ pc' = [pc EXCEPT ![r] = "writing"]
  /\ runs' = [runs EXCEPT ![r] = @ + 1]
  /\ seen' = [seen EXCEPT ![r].version = row.version]
  /\ UNCHANGED <<row, answer>>

\* Mutant: the delay is followed by a re-execution only if nothing was written.
ReExecuteIfUnchanged(r) ==
  /\ pc[r] = "backoff"
  /\ seen[r].version = row.version
  /\ pc' = [pc EXCEPT ![r] = "ready"]
  /\ runs' = [runs EXCEPT ![r] = @ + 1]
  /\ UNCHANGED <<row, seen, answer>>

ReExecute(r) ==
  /\ pc[r] = "backoff"
  /\ pc' = [pc EXCEPT ![r] = "ready"]
  /\ runs' = [runs EXCEPT ![r] = @ + 1]
  /\ UNCHANGED <<row, seen, answer>>

Handle(r) == Get(r) \/ GetCounter(r) \/ Put(r) \/ Conflict(r) \/ ReExecute(r)

Next == \E r \in Requests : Handle(r)

Spec == Init /\ [][Next]_vars

\* The database answers, delays elapse, and executions are scheduled.
FairSpec == Spec /\ \A r \in Requests : WF_vars(Handle(r))
-----------------------------------------------------------------------------
\* If the version a writer has read is still current, so is the value: a version
\* stands for one value only, and nothing it read can have changed unnoticed.
VersionIdentifiesValue ==
  \A r \in Writers : pc[r] = "writing" /\ seen[r].version = row.version =>
    seen[r].value = row.value

\* A request that fails with a concurrency error, though the attribute retries it,
\* has lost to at least MaxRetries + 2 writes of others: the service as a whole
\* makes progress whenever one of its requests does not.
FailureMeansContention ==
  \A r \in Requests : answer[r].kind = "conflict" => row.version >= MaxRetries + 2

\* The sample's promise: the service behaves as an atomic counter.
Atomic == INSTANCE AtomicCounter WITH count <- row.value, First <- 0
IsAtomicCounter == Atomic!Spec

\* Every request is answered, however the writers collide.
EveryRequestAnswered == \A r \in Requests : <>(answer[r].kind # "none")

\* samples/Counter/README.md: "when you call `PutAsync` or `DeleteAsync` overloads
\* with `version` parameter, concurrency check will be perform and if the check
\* fails, an `ConcurrencyException` will be thrown".  So with every request done the
\* counter has counted each one that was answered with a number.
EveryAnswerCounted ==
  (\A r \in Requests : pc[r] = "done") =>
    LET done == {r \in Requests : answer[r].kind = "number"} IN
    row.value = Cardinality(done \intersect Increments)
                  - Cardinality(done \intersect Decrements)
=============================================================================
