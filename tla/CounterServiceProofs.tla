------------------------ MODULE CounterServiceProofs ------------------------
(***************************************************************************)
(* Proofs about CounterService for any number of requests and any retry    *)
(* limit: on a row that exists, optimistic concurrency control makes the   *)
(* service an atomic counter.                                              *)
(***************************************************************************)
EXTENDS CounterService, TLAPS

\* A writer has read a version no newer than the row's, every conflict it has had
\* is a write of somebody else, and equal versions mean equal values.
ReadInv ==
  \A r \in Requests :
    /\ pc[r] = "ready" => row.version >= runs[r] - 1
    /\ pc[r] \in {"writing", "backoff"} =>
         seen[r].version <= row.version /\ seen[r].version >= runs[r] - 1
    /\ pc[r] = "writing" /\ seen[r].version = row.version => seen[r].value = row.value
    /\ pc[r] = "backoff" => seen[r].version < row.version /\ MayRetry(r)

\* Requests that are not done have no answer, and a failure has seen contention.
AnswerInv ==
  \A r \in Requests :
    /\ pc[r] # "done" => answer[r] = NoAnswer
    /\ answer[r].kind = "conflict" => row.version >= MaxRetries + 2

\* The row is never removed.
RowInv == Seeded => row.exists

TypeInv ==
  /\ TypeOK
  /\ \A r \in Requests : pc[r] = "backoff" => MayRetry(r)
  /\ \A r \in Requests : pc[r] \in {"writing", "backoff"} => r \in Writers

LEMMA TypeInvInit == Init => TypeInv
<1> SUFFICES ASSUME Init PROVE TypeInv
  OBVIOUS
<1>1. row \in Rows /\ ToState(row) \in States
  <2>1. row = [exists |-> Seeded, value |-> 0, version |-> 0]
    BY DEF Init
  <2>2. row \in Rows
    BY <2>1, CounterAssumption DEF Rows
  <2> QED
    BY <2>2 DEF ToState, Rows, States
<1>2. NoAnswer \in Answers /\ 1 \in 1..(MaxRetries + 2)
  BY CounterAssumption DEF NoAnswer, Answers
<1>3. TypeOK
  BY <1>1, <1>2, CounterAssumption DEF Init, TypeOK
<1> QED
  BY <1>3 DEF Init, TypeInv

LEMMA TypeInvNext == TypeInv /\ [Next]_vars => TypeInv'
<1> SUFFICES ASSUME TypeInv, [Next]_vars PROVE TypeInv'
  OBVIOUS
<1> USE CounterAssumption
    DEF TypeInv, TypeOK, Rows, States, Answers, MayRetry, Writers, Requests
<1>1. ASSUME NEW r \in Requests, Get(r) PROVE TypeInv'
  BY <1>1 DEF Get, ToState
<1>2. ASSUME NEW r \in Requests, GetCounter(r) PROVE TypeInv'
  BY <1>2 DEF GetCounter, ToState, Number
<1>3. ASSUME NEW r \in Requests, Put(r) PROVE TypeInv'
  <2>1. seen[r].value + Delta(r) \in Int
    BY DEF Delta
  <2>2. row' \in Rows
    BY <1>3, <2>1 DEF Put, AddOrUpdate
  <2> QED
    BY <1>3, <2>1, <2>2 DEF Put, Number
<1>4. ASSUME NEW r \in Requests, Conflict(r) PROVE TypeInv'
  BY <1>4 DEF Conflict, ConcurrencyError
<1>5. ASSUME NEW r \in Requests, ReExecute(r) PROVE TypeInv'
  BY <1>5 DEF ReExecute
<1>6. CASE UNCHANGED vars
  BY <1>6 DEF vars
<1> QED
  BY <1>1, <1>2, <1>3, <1>4, <1>5, <1>6 DEF Next, Handle

\* No request is executed more than MaxRetries + 2 times, whatever the state it
\* works on.
THEOREM TypeCorrect == Spec => []TypeOK
<1>1. Spec => []TypeInv
  BY TypeInvInit, TypeInvNext, PTL DEF Spec
<1>2. TypeInv => TypeOK
  BY DEF TypeInv
<1> QED
  BY <1>1, <1>2, PTL

Inv == TypeInv /\ ReadInv /\ AnswerInv /\ RowInv

LEMMA InvInit == Init => Inv
<1> SUFFICES ASSUME Init PROVE ReadInv /\ AnswerInv /\ RowInv
  BY TypeInvInit DEF Inv
<1> QED
  BY DEF Init, ReadInv, AnswerInv, RowInv, ToState, NoAnswer, Writers, Requests

\* The versions only tell the truth about a row that exists from the start.
LEMMA InvNext ==
  ASSUME Seeded, Inv, [Next]_vars
  PROVE  Inv'
<1> SUFFICES ReadInv' /\ AnswerInv' /\ RowInv'
  BY TypeInvNext DEF Inv
<1> USE CounterAssumption
    DEF Inv, TypeInv, TypeOK, ReadInv, AnswerInv, RowInv, Rows, States, Answers, MayRetry,
        Writers, Requests
<1>1. ASSUME NEW r \in Requests, Get(r) PROVE ReadInv' /\ AnswerInv' /\ RowInv'
  BY <1>1 DEF Get, ToState
<1>2. ASSUME NEW r \in Requests, GetCounter(r) PROVE ReadInv' /\ AnswerInv' /\ RowInv'
  BY <1>2 DEF GetCounter, Number
<1>3. ASSUME NEW r \in Requests, Put(r) PROVE ReadInv' /\ AnswerInv' /\ RowInv'
  <2>1. /\ row'.version = row.version + 1
        /\ row'.exists
    BY <1>3 DEF Put, AddOrUpdate
  <2>2. ReadInv'
    BY <1>3, <2>1 DEF Put
  <2>3. AnswerInv'
    BY <1>3, <2>1 DEF Put, Number
  <2> QED
    BY <2>1, <2>2, <2>3
<1>4. ASSUME NEW r \in Requests, Conflict(r) PROVE ReadInv' /\ AnswerInv' /\ RowInv'
  <2>1. seen[r].version \in Nat /\ row.version \in Nat /\ runs[r] \in Nat
    OBVIOUS
  <2>a. pc[r] = "writing" /\ row.version # seen[r].version
    BY <1>4 DEF Conflict, Affected
  <2>b. seen[r].version <= row.version /\ seen[r].version >= runs[r] - 1
    BY <2>a
  <2>2. seen[r].version < row.version /\ row.version >= runs[r]
    BY ONLY <2>1, <2>a, <2>b
  <2>3. UNCHANGED <<row, seen, runs>>
    BY <1>4 DEF Conflict
  <2>4. CASE MayRetry(r)
    <3>1. pc' = [pc EXCEPT ![r] = "backoff"] /\ answer' = answer
      BY <1>4, <2>4 DEF Conflict
    <3>2. ReadInv'
      <4> SUFFICES ASSUME NEW x \in Requests
                   PROVE  ReadInv!(x)'
        BY DEF ReadInv
      <4>1. CASE x = r
        BY <2>1, <2>2, <2>3, <2>4, <2>b, <3>1, <4>1
      <4>2. CASE x # r
        BY <2>3, <3>1, <4>2
      <4> QED
        BY <4>1, <4>2
    <3>3. AnswerInv' /\ RowInv'
      BY <1>4, <2>3, <3>1 DEF Conflict
    <3> QED
      BY <3>2, <3>3
  <2>5. CASE ~MayRetry(r)
    <3>1. row.version >= MaxRetries + 2
      BY <2>1, <2>2, <2>5
    <3> QED
      BY <1>4, <2>3, <2>5, <3>1 DEF Conflict, ConcurrencyError
  <2> QED
    BY <2>4, <2>5
<1>5. ASSUME NEW r \in Requests, ReExecute(r) PROVE ReadInv' /\ AnswerInv' /\ RowInv'
  BY <1>5 DEF ReExecute
<1>6. CASE UNCHANGED vars
  BY <1>6 DEF vars
<1> QED
  BY <1>1, <1>2, <1>3, <1>4, <1>5, <1>6 DEF Next, Handle

LEMMA InvHolds ==
  ASSUME Seeded
  PROVE  Spec => []Inv
<1>1. Inv /\ [Next]_vars => Inv'
  BY InvNext
<1> QED
  BY <1>1, InvInit, PTL DEF Spec

\* On a row that exists, equal versions mean equal values, always.
THEOREM VersionsIdentifyValues ==
  ASSUME Seeded
  PROVE  Spec => []VersionIdentifiesValue
<1>1. Inv => VersionIdentifiesValue
  BY DEF Inv, ReadInv, VersionIdentifiesValue, Writers, Requests
<1> QED
  BY <1>1, InvHolds, PTL

\* On a row that exists, a request fails only after MaxRetries + 2 writes.
THEOREM FailuresMeanContention ==
  ASSUME Seeded
  PROVE  Spec => []FailureMeansContention
<1>1. Inv => FailureMeansContention
  BY DEF Inv, AnswerInv, FailureMeansContention
<1> QED
  BY <1>1, InvHolds, PTL

\* On a row that exists, the service is an atomic counter: a write that succeeds
\* adds to the value that is there, and every other step changes nothing.
THEOREM ImplementsAtomicCounter ==
  ASSUME Seeded
  PROVE  Spec => IsAtomicCounter
<1>1. Init => Atomic!Init
  BY DEF Init, Atomic!Init, Atomic!Requests, Requests, NoAnswer, Atomic!NoAnswer
<1>2. Inv /\ [Next]_vars => [Atomic!Next]_(Atomic!vars)
  <2> SUFFICES ASSUME Inv, [Next]_vars
               PROVE  Atomic!Next \/ UNCHANGED <<row.value, answer>>
    BY DEF Atomic!vars
  <2> USE CounterAssumption
      DEF Inv, TypeInv, TypeOK, ReadInv, AnswerInv, RowInv, Rows, States, Answers,
          Atomic!Next, Atomic!Apply, Atomic!Fail, Atomic!Step, Atomic!Requests,
          Atomic!NoAnswer, NoAnswer, Requests, Writers
  <2>1. ASSUME NEW r \in Requests, Get(r)
        PROVE  UNCHANGED <<row.value, answer>>
    BY <2>1 DEF Get
  <2>2. ASSUME NEW r \in Requests, GetCounter(r)
        PROVE  Atomic!Apply(r)
    <3>1. r \in Reads /\ r \notin Writers /\ answer[r] = Atomic!NoAnswer
      BY <2>2 DEF GetCounter
    <3>2. Atomic!Step(r) = 0 /\ row.value + 0 = row.value
      BY <3>1
    <3> QED
      BY <2>2, <3>1, <3>2 DEF GetCounter, Number
  <2>3. ASSUME NEW r \in Requests, Put(r)
        PROVE  Atomic!Apply(r)
    <3>1. r \in Writers /\ Atomic!Step(r) = Delta(r)
      BY <2>3 DEF Put, Delta
    <3>2. seen[r].value = row.value
      BY <2>3 DEF Put, Affected
    <3>3. answer[r] = Atomic!NoAnswer
      BY <2>3 DEF Put
    <3>a. Delta(r) \in Int /\ row.value \in Int
      BY DEF Delta
    <3>4. row'.value = row.value + Delta(r)
      BY <2>3, <3>2 DEF Put, AddOrUpdate
    <3>5. answer' = [answer EXCEPT ![r] = Number(row.value + Delta(r))]
      BY <2>3, <3>2 DEF Put
    <3>6. /\ row'.value = row.value + Atomic!Step(r)
          /\ answer' = [answer EXCEPT ![r] =
                          [kind |-> "number", value |-> row.value + Atomic!Step(r)]]
      BY <3>1, <3>4, <3>5, Zenon DEF Number
    <3> QED
      BY <3>3, <3>6, Zenon DEF Atomic!Apply
  <2>4. ASSUME NEW r \in Requests, Conflict(r)
        PROVE  Atomic!Fail(r) \/ UNCHANGED <<row.value, answer>>
    BY <2>4 DEF Conflict, ConcurrencyError
  <2>5. ASSUME NEW r \in Requests, ReExecute(r)
        PROVE  UNCHANGED <<row.value, answer>>
    BY <2>5 DEF ReExecute
  <2>6. CASE UNCHANGED vars
    BY <2>6 DEF vars
  <2> QED
    BY <2>1, <2>2, <2>3, <2>4, <2>5, <2>6 DEF Next, Handle
<1> QED
  BY <1>1, <1>2, InvInit, InvNext, PTL DEF Spec, IsAtomicCounter, Atomic!Spec
=============================================================================
